-------------------------- MODULE ProviderInvokeProofs --------------------------
(***************************************************************************)
(* Proofs about ProviderInvoke, for streams of any length and any number   *)
(* of retries.                                                             *)
(***************************************************************************)
EXTENDS ProviderInvoke, WellFoundedInduction, TLAPS

USE DEF agentVars, readerVars, mainVars, Goto

(* The events of a stream depend on the kind of task alone.                  *)
LEMMA EventsKept == mode' = mode => Events' = Events
BY DEF Events, Deeds, SubDeeds, Fires, Task, Last, Plain, Event, Trigger, ToolTarget

LEMMA PlainType ==
    ASSUME NEW by, NEW kinds, "skill" \notin kinds, "mcp" \notin kinds, NEW e \in Plain(by, kinds)
    PROVE  e.by = by /\ e.kind \notin {"skill", "mcp"}
BY DEF Plain, Event

LEMMA EventType ==
    ASSUME NEW e \in Events
    PROVE  /\ e.by \in Agents
           /\ e.kind = "skill" => e.name \in Name /\ ~ToolTarget
           /\ e.kind = "mcp" => e.name \in Name /\ ToolTarget
<1>1. \A by \in Agents : \A f \in Fires(by) :
        /\ f.by = by /\ f.name \in Name
        /\ f.kind = IF ToolTarget THEN "mcp" ELSE "skill"
  BY DEF Fires, Event
<1>2. CASE e \in Fires("main") \/ e \in Fires("sub")
  BY <1>1, <1>2 DEF Agents
<1>3. CASE e = Task
  BY <1>3 DEF Task, Event, Agents
<1>4. ASSUME NEW by \in Agents, NEW kinds, "skill" \notin kinds, "mcp" \notin kinds,
             e \in Plain(by, kinds)
      PROVE  e.by \in Agents /\ e.kind \notin {"skill", "mcp"}
  BY <1>4, PlainType
<1> DEFINE Work == {"native"} \cup IF mode = "skill-" THEN {"read", "stop"} ELSE {}
<1>5. /\ "skill" \notin Work /\ "mcp" \notin Work
      /\ "skill" \notin {"result", "limited"} /\ "mcp" \notin {"result", "limited"}
      /\ "skill" \notin {"native", "stop"} /\ "mcp" \notin {"native", "stop"}
      /\ "main" \in Agents /\ "sub" \in Agents
  BY DEF Agents
<1>6. \/ e \in Fires("main") \/ e \in Fires("sub") \/ e = Task
      \/ e \in Plain("main", Work) \/ e \in Plain("main", {"result", "limited"})
      \/ e \in Plain("sub", {"native", "stop"})
  BY DEF Events, Deeds, SubDeeds, Last
<1> HIDE DEF Work
<1> QED BY <1>2, <1>3, <1>4, <1>5, <1>6

LEMMA InitInv == Init => IInv
<1> SUFFICES ASSUME Init PROVE IInv
  OBVIOUS
<1> USE InvokeAssumption DEF Init
<1>1. <<>> \in Seq(Events) /\ Len(<<>>) = 0
  OBVIOUS
<1>2. /\ stream \in Seq(Events) /\ Len(stream) <= MaxEvents
      /\ recorded \in [Agents -> 0 .. Len(stream)] /\ read \in 0 .. Len(stream)
  BY <1>1
<1>3. retries \in 0 .. MaxRetries /\ outcome \in Outcomes
  BY DEF Outcomes
<1>4. TypeOK
  BY <1>2, <1>3 DEF TypeOK
<1> QED BY <1>4 DEF IInv, Living, Seen, Detected, HarnessGone, TimeoutIsNoPass,
           NegativePassEarned, SingleFireGraded, Graded

-----------------------------------------------------------------------------
(* Type correctness, one step per action.                                    *)
LEMMA TypeStep == TypeOK /\ [Next]_vars => TypeOK'
<1> SUFFICES ASSUME TypeOK, [Next]_vars PROVE TypeOK'
  OBVIOUS
<1> USE InvokeAssumption DEF TypeOK
<1>0. /\ mode' = mode
      /\ Events' = Events
  BY EventsKept DEF Next, Agent, Main, vars, AgentEmits, AgentRecords, AgentTells, AgentExits,
     HelperStarts, HelperEnds, TimePasses, Dispatch, Launch, BeginWait, StartFails, Poll, WaitSignal,
     CheckClock, Wait, Terminate, Grace, Join, Conclude, Interrupt
<1> USE <1>0
<1>1. ASSUME NEW e \in Events, AgentEmits(e) PROVE TypeOK'
  <2>1. /\ stream' = Append(stream, e) /\ Len(stream) < MaxEvents
        /\ recorded' = recorded /\ read' = read
    BY <1>1 DEF AgentEmits
  <2>2. /\ stream' \in Seq(Events) /\ Len(stream') = Len(stream) + 1 /\ Len(stream) \in Nat
    BY <2>1
  <2>3. Len(stream') <= MaxEvents /\ 0 .. Len(stream) \subseteq 0 .. Len(stream')
    BY <2>1, <2>2
  <2>4. recorded' \in [Agents -> 0 .. Len(stream')] /\ read' \in 0 .. Len(stream')
    BY <2>1, <2>3
  <2> QED BY <1>1, <2>2, <2>3, <2>4 DEF AgentEmits
<1>2. CASE AgentRecords
  <2>1. PICK i \in DOMAIN stream : recorded' = [recorded EXCEPT ![stream[i].by] = i]
    BY <1>2 DEF AgentRecords
  <2>2. stream[i].by \in Agents /\ i \in 0 .. Len(stream)
    BY <2>1, EventType
  <2>3. recorded' \in [Agents -> 0 .. Len(stream)]
    BY <2>1, <2>2
  <2> QED BY <1>2, <2>3 DEF AgentRecords
<1>2b. CASE AgentTells
  BY <1>2b DEF AgentTells
<1>3. CASE AgentExits
  BY <1>3 DEF AgentExits
<1>4. CASE HelperStarts \/ HelperEnds
  <2>1. helper' \in BOOLEAN
    BY <1>4 DEF HelperStarts, HelperEnds
  <2> QED BY <1>4, <2>1 DEF HelperStarts, HelperEnds
<1>5. CASE TimePasses
  BY <1>5 DEF TimePasses
<1>6. CASE Dispatch
  <2>1. /\ read' \in 0 .. Len(stream)
        /\ stream[read + 1] \in Events
    BY <1>6 DEF Dispatch
  <2>2. skill' \in Name \cup {"none"} /\ tool' \in Name \cup {"none"}
    BY <1>6, <2>1, EventType DEF Dispatch, Sees, SettlesTool
  <2>3. kill' \in BOOLEAN /\ limited' \in BOOLEAN
    BY <1>6 DEF Dispatch, Sees
  <2> QED BY <1>6, <2>1, <2>2, <2>3 DEF Dispatch
<1>7. CASE Launch
  <2>1. <<>> \in Seq(Events) /\ Len(<<>>) = 0
    OBVIOUS
  <2>2. pc' = "spawned" /\ waited' = FALSE /\ told' = FALSE
    BY <1>7 DEF Launch
  <2>3. /\ stream' \in Seq(Events') /\ Len(stream') <= MaxEvents
        /\ recorded' \in [Agents -> 0 .. Len(stream')] /\ read' \in 0 .. Len(stream')
    BY <1>7, <2>1 DEF Launch
  <2>4. /\ agent' = "running" /\ rc' = "none" /\ helper' = FALSE
        /\ skill' = "none" /\ tool' = "none" /\ kill' = FALSE /\ limited' = FALSE
        /\ late' = FALSE /\ cut' = FALSE /\ timedOut' = FALSE
        /\ UNCHANGED <<retries, outcome>>
    BY <1>7 DEF Launch
  <2> QED BY <2>2, <2>3, <2>4
<1>8. CASE Poll \/ WaitSignal \/ CheckClock \/ Wait \/ Join
  <2>1. CASE Poll \/ Join
    BY <2>1 DEF Poll, Join
  <2>2. CASE WaitSignal \/ CheckClock
    BY <2>2 DEF WaitSignal, CheckClock
  <2>3. CASE Wait
    <3>1. timedOut' \in BOOLEAN /\ pc' \in {"joining", "sigterm"}
      BY <2>3 DEF Wait
    <3> QED BY <2>3, <3>1 DEF Wait
  <2> QED BY <1>8, <2>1, <2>2, <2>3
<1>8b. CASE BeginWait
  BY <1>8b DEF BeginWait
<1>8c. CASE StartFails
  BY <1>8c DEF StartFails, Outcomes
<1>9. CASE Terminate \/ Grace
  <2>1. /\ agent' \in {"none", "running", "signalled", "dead"}
        /\ rc' \in {"none", "zero", "nonzero"}
        /\ helper' \in BOOLEAN
    BY <1>9 DEF Terminate, Grace, KillGroup
  <2>2. /\ pc' \in {"grace", "joining"}
        /\ UNCHANGED <<stream, recorded, told, readerVars, late, waited, cut, timedOut, retries, outcome>>
    BY <1>9 DEF Terminate, Grace
  <2> QED BY <2>1, <2>2
<1>10. CASE Conclude
  <2>1. Grade \in Outcomes
    BY DEF Grade, Outcomes
  <2>2. pc' \in {"launching", "done"} /\ outcome' \in Outcomes /\ retries' \in 0 .. MaxRetries
    BY <1>10, <2>1 DEF Conclude, End, Limited, Outcomes
  <2> QED BY <1>10, <2>2 DEF Conclude
<1>11. CASE Interrupt
  <2>1. /\ agent' \in {"none", "running", "signalled", "dead"}
        /\ rc' \in {"none", "zero", "nonzero"}
        /\ helper' \in BOOLEAN
    BY <1>11 DEF Interrupt, KillGroup
  <2>2. outcome' \in Outcomes
    BY <1>11 DEF Interrupt, Outcomes
  <2>3. /\ pc' = "done"
        /\ UNCHANGED <<stream, recorded, told, readerVars, late, waited, cut, timedOut, retries>>
    BY <1>11 DEF Interrupt
  <2> QED BY <2>1, <2>2, <2>3
<1>12. CASE UNCHANGED vars
  BY <1>12 DEF vars
<1> QED BY <1>1, <1>2, <1>2b, <1>3, <1>4, <1>5, <1>6, <1>7, <1>8, <1>8b, <1>8c, <1>9, <1>10,
    <1>11, <1>12
    DEF Next, Agent, Main

-----------------------------------------------------------------------------
(* Where invoke is, and whether the agent lives.                             *)
LEMMA LivingStep ==
    TypeOK /\ Living /\ HarnessGone /\ [Next]_vars => Living' /\ HarnessGone'
<1> SUFFICES ASSUME TypeOK, Living, HarnessGone, [Next]_vars
             PROVE  Living' /\ HarnessGone'
  OBVIOUS
<1> USE DEF TypeOK, Living, HarnessGone, Alive, Working, Trigger
<1> DEFINE Saved == \A i \in DOMAIN stream : Transcribed(i)
<1>0. UNCHANGED <<stream, recorded, told>> => Saved' = Saved
  BY DEF Transcribed
<1> HIDE DEF Saved
<1>a. Living <=> /\ pc = "launching" => agent \in {"none", "dead"}
                 /\ pc # "launching" => agent # "none"
                 /\ pc = "spawned" => ~waited /\ ~timedOut
                 /\ pc \notin {"launching", "spawned", "done"} => waited
                 /\ pc \in {"polling", "signal", "clock"} => Trigger
                 /\ pc \in {"sigterm", "grace"} => Trigger \/ timedOut
                 /\ pc \in {"joining", "concluding"} => agent = "dead"
                 /\ pc # "done" => outcome = "none"
                 /\ rc = "zero" => agent = "dead" /\ Saved
  BY DEF Saved
<1>b. Living' <=> /\ pc' = "launching" => agent' \in {"none", "dead"}
                  /\ pc' # "launching" => agent' # "none"
                  /\ pc' = "spawned" => ~waited' /\ ~timedOut'
                  /\ pc' \notin {"launching", "spawned", "done"} => waited'
                  /\ pc' \in {"polling", "signal", "clock"} => Trigger'
                  /\ pc' \in {"sigterm", "grace"} => (Trigger \/ timedOut)'
                  /\ pc' \in {"joining", "concluding"} => agent' = "dead"
                  /\ pc' # "done" => outcome' = "none"
                  /\ rc' = "zero" => agent' = "dead" /\ Saved'
  BY DEF Saved
<1> USE <1>a, <1>b
<1> HIDE DEF Living
<1>1. CASE (\E e \in Events : AgentEmits(e)) \/ AgentRecords \/ AgentTells
    BY <1>1 DEF AgentEmits, AgentRecords, AgentTells
<1>2. CASE AgentExits
  <2>1. rc' = "zero" => Saved
    BY <1>2 DEF AgentExits, Saved
  <2> QED BY <1>0, <1>2, <2>1 DEF AgentExits
<1>3. CASE HelperStarts \/ HelperEnds \/ TimePasses \/ UNCHANGED vars
  BY <1>0, <1>3 DEF HelperStarts, HelperEnds, TimePasses, vars
<1>3b. CASE Dispatch
  BY <1>0, <1>3b DEF Dispatch
<1>4. CASE Launch
  BY <1>4 DEF Launch
<1>4b. CASE BeginWait \/ StartFails
  BY <1>0, <1>4b DEF BeginWait, StartFails
<1>5. CASE Poll \/ WaitSignal \/ CheckClock
  BY <1>0, <1>5 DEF Poll, WaitSignal, CheckClock
<1>5b. CASE Wait
  BY <1>0, <1>5b DEF Wait
<1>6. CASE Terminate \/ Grace \/ Join
  BY <1>0, <1>6 DEF Terminate, Grace, KillGroup, Join
<1>7. CASE Conclude
  <2>1. /\ (pc' = "launching" /\ outcome' = outcome) \/ pc' = "done"
        /\ pc = "concluding" /\ agent' = "dead"
        /\ UNCHANGED <<rc, stream, recorded, told>>
    BY <1>7 DEF Conclude, End, Limited
  <2> QED BY <1>0, <2>1
<1>8. CASE Interrupt
  <2>1. /\ pc \notin {"launching", "done"} /\ pc' = "done" /\ outcome' = "interrupted"
        /\ UNCHANGED <<mode, stream, recorded, told, waited, timedOut>>
        /\ rc' = "zero" => rc = "zero"
        /\ agent' # "none" /\ (agent = "dead" => agent' = "dead")
        /\ Guarded => agent' = "dead"
    BY <1>8 DEF Interrupt, KillGroup
  <2>2. \/ Guarded \/ agent = "dead" \/ ~waited
        \/ mode = "execute" /\ timedOut
    BY <2>1 DEF Guarded
  <2> QED BY <1>0, <2>1, <2>2
<1> QED BY <1>1, <1>2, <1>3, <1>3b, <1>4, <1>4b, <1>5, <1>5b, <1>6, <1>7, <1>8 DEF Next, Agent, Main

-----------------------------------------------------------------------------
(* What the reader has read is in the StreamState.                           *)
LEMMA SeenStep == TypeOK /\ Living /\ Seen /\ [Next]_vars => Seen'
<1> SUFFICES ASSUME TypeOK, Living, Seen, [Next]_vars PROVE Seen'
  OBVIOUS
<1> USE DEF TypeOK, Seen, SkillTarget
<1>1. ASSUME NEW e \in Events, AgentEmits(e) PROVE Seen'
  <2>1. \A i \in 1 .. read : stream'[i] = stream[i]
    BY <1>1 DEF AgentEmits
  <2>2. pc # "concluding" /\ UNCHANGED <<mode, pc, readerVars>>
    BY <1>1 DEF AgentEmits, Working, Alive, Living
  <2> QED BY <2>1, <2>2
<1>2. CASE AgentRecords \/ AgentTells \/ AgentExits \/ HelperStarts \/ HelperEnds
  BY <1>2 DEF AgentRecords, AgentTells, AgentExits, HelperStarts, HelperEnds
<1>3. CASE TimePasses \/ UNCHANGED vars
  BY <1>3 DEF TimePasses, vars
<1>4. CASE Dispatch
  <2> DEFINE e == stream[read + 1]
  <2>1. e \in Events
    BY <1>4 DEF Dispatch
  <2>2. /\ e.kind = "skill" => e.name # "none"
        /\ e.kind = "mcp" => e.name # "none" /\ ToolTarget
    BY <2>1, EventType DEF Name
  <2>0. Sees(e) \/ (e.by = "sub" /\ UNCHANGED <<skill, tool>>)
    BY <1>4 DEF Dispatch
  <2>3. e.by = "main" /\ mode = "tool+" /\ e.kind = "mcp" => tool' # "none"
    BY <2>0, <2>2 DEF Sees, SettlesTool, Negative
  <2>4. e.by = "main" /\ SkillTarget /\ e.kind = "skill" => skill' # "none"
    BY <2>0, <2>2 DEF Sees
  <2>5. (skill # "none" => skill' # "none") /\ (tool # "none" => tool' # "none")
    BY <2>0, <2>2 DEF Sees, SettlesTool
  <2>6. \A i \in 1 .. read' : i \in 1 .. read \/ i = read + 1
    BY <1>4 DEF Dispatch
  <2>7. /\ stream' = stream /\ mode' = mode /\ pc' = pc
        /\ read' = read + 1 /\ read' <= Len(stream)
    BY <1>4 DEF Dispatch
  <2>8. pc # "concluding" \/ read # Len(stream)
    BY <1>4 DEF Dispatch
  <2>9. pc # "concluding"
    BY <1>4, <2>8 DEF Dispatch
  <2> HIDE DEF e
  <2>10. \A i \in 1 .. read' :
          stream[i].by = "main" =>
              /\ SkillTarget /\ stream[i].kind = "skill" => skill' # "none"
              /\ mode = "tool+" /\ stream[i].kind = "mcp" => tool' # "none"
    BY <2>3, <2>4, <2>5, <2>6 DEF e
  <2> QED BY <2>7, <2>9, <2>10
<1>5. CASE Launch
  <2>1. read' = 0 /\ pc' = "spawned"
    BY <1>5 DEF Launch
  <2> QED BY <2>1
<1>5b. CASE BeginWait \/ StartFails
  BY <1>5b DEF BeginWait, StartFails
<1>6. CASE Poll \/ WaitSignal \/ CheckClock \/ Wait \/ Join
  BY <1>6 DEF Poll, WaitSignal, CheckClock, Wait, Join
<1>7. CASE Terminate \/ Grace
  BY <1>7 DEF Terminate, Grace
<1>8. CASE Conclude
  BY <1>8 DEF Conclude, End, Limited
<1>9. CASE Interrupt
  BY <1>9 DEF Interrupt
<1> QED BY <1>1, <1>2, <1>3, <1>4, <1>5, <1>5b, <1>6, <1>7, <1>8, <1>9 DEF Next, Agent, Main

-----------------------------------------------------------------------------
(* The first of some events. *)
LEMMA LeastNatural ==
    ASSUME NEW T, T \subseteq Nat, T # {}
    PROVE  \E i \in T : \A j \in T : i <= j
<1> DEFINE R == {ij \in Nat \X Nat : ij[1] < ij[2]}
<1>1. IsWellFoundedOn(R, Nat)
  BY NatLessThanWellFounded DEF OpToRel
<1>2. \A i, j \in Nat : j < i => <<j, i>> \in R
  OBVIOUS
<1> HIDE DEF R
<1>3. PICK i \in T : \A j \in T : ~ (<<j, i>> \in R)
  BY <1>1, WFMin
<1>4. \A j \in T : i \in Nat /\ j \in Nat /\ ~ (j < i)
  BY <1>2, <1>3
<1> QED BY <1>4

LEMMA LeastIn ==
    ASSUME NEW S, S \subseteq Nat, S # {}
    PROVE  Least(S) \in S
BY LeastNatural DEF Least

(* What grades a positive case: an event that the trajectory covers, or what *)
(* the reader detected where it covers none of the agent's own.              *)
LEMMA FirstOfCovered ==
    ASSUME TypeOK, NEW k, NEW d
    PROVE  \/ \E i \in Covered(k) : FirstOf(k, d) = stream[i].name
           \/ FirstOf(k, d) = d /\ (Covered(k) = {} \/ d # "none")
<1> DEFINE fore == {i \in Of("main", Covered(k)) : \A t \in Spawns : i < t}
           subs == Of("sub", Covered(k))
<1>1. /\ Covered(k) \subseteq Nat /\ fore \subseteq Covered(k) /\ subs \subseteq Covered(k)
  BY DEF Covered, Of, TypeOK
<1>2. FirstOf(k, d) =
        IF fore # {} THEN stream[Least(fore)].name
        ELSE IF k = "skill" /\ d # "none" /\ TaskTurnLast THEN d
        ELSE IF subs # {} THEN stream[Least(subs)].name
        ELSE IF Covered(k) # {} THEN stream[Least(Covered(k))].name
        ELSE d
  BY DEF FirstOf
<1>3. /\ fore # {} => Least(fore) \in Covered(k)
      /\ subs # {} => Least(subs) \in Covered(k)
      /\ Covered(k) # {} => Least(Covered(k)) \in Covered(k)
  <2>1. fore \subseteq Nat /\ subs \subseteq Nat
    BY <1>1
  <2> HIDE DEF fore, subs
  <2> QED BY <1>1, <2>1, LeastIn
<1> HIDE DEF fore, subs
<1> QED BY <1>2, <1>3

LEMMA PassesPositive ==
    /\ mode = "skill+" => (Passes <=> FirstOf("skill", skill) = "target")
    /\ mode = "tool+" => (Passes <=> FirstOf("mcp", tool) = "target")
BY DEF Passes, TargetIn

(* What a timeout settles: a positive case of which the agent fired nothing, *)
(* and which then passes only by a skill that its subagent fired.            *)
LEMMA SettledGrade ==
    ASSUME IInv, pc = "concluding", Settled
    PROVE  /\ mode \in {"skill+", "tool+"} /\ Grade \in {"pass", "fail"}
           /\ Of("main", Fired) = {}
           /\ Grade = "pass" =>
                 mode = "skill+" /\ \E i \in Fired : stream[i].name = "target"
<1> USE DEF IInv
<1>1. \A i \in DOMAIN stream : stream[i] \in Events /\ i \in 1 .. read
  BY DEF Seen, TypeOK
<1>2. /\ mode \in {"skill+", "tool+"}
      /\ Grade = IF Passes THEN "pass" ELSE "fail"
  BY DEF Settled, Grade, Trigger
<1>3. CASE mode = "skill+" /\ skill = "none"
  <2>1. \A i \in DOMAIN stream : stream[i].by = "main" => stream[i].kind \notin {"skill", "mcp"}
    BY <1>1, <1>3, EventType DEF Seen, SkillTarget, ToolTarget
  <2>2. Of("main", Fired) = {}
    BY <2>1 DEF Of, Fired
  <2>3. Passes => \E i \in Fired : stream[i].name = "target"
    <3> SUFFICES ASSUME Passes PROVE \E i \in Fired : stream[i].name = "target"
      OBVIOUS
    <3>1. FirstOf("skill", skill) = "target"
      BY <1>3, PassesPositive
    <3>2. PICK i \in Covered("skill") : FirstOf("skill", skill) = stream[i].name
      BY <1>3, <3>1, FirstOfCovered
    <3>3. i \in Fired
      BY <3>2 DEF Covered, Fired
    <3> QED BY <3>1, <3>2, <3>3
  <2> QED BY <1>2, <1>3, <2>2, <2>3
<1>4. CASE mode = "tool+" /\ Covered("mcp") = {} /\ tool = "none"
  <2>1. \A i \in DOMAIN stream : stream[i].by = "main" => stream[i].kind \notin {"skill", "mcp"}
    BY <1>1, <1>4, EventType DEF Seen, ToolTarget
  <2>2. Of("main", Fired) = {}
    BY <2>1 DEF Of, Fired
  <2>3. FirstOf("mcp", tool) = "none"
    BY <1>4, FirstOfCovered
  <2>4. ~Passes
    BY <1>4, <2>3, PassesPositive
  <2> QED BY <1>2, <2>2, <2>4
<1> QED BY <1>3, <1>4 DEF Settled

LEMMA TimeoutStep == IInv /\ [Next]_vars => TimeoutIsNoPass'
<1> SUFFICES ASSUME IInv, [Next]_vars PROVE TimeoutIsNoPass'
  OBVIOUS
<1> USE DEF TimeoutIsNoPass
<1>1. CASE pc' # "done"
  BY <1>1
<1>2. CASE UNCHANGED <<pc, timedOut, mode, outcome, stream>>
  BY <1>2 DEF IInv, Of, Fired
<1>3. CASE Agent
  <2>1. pc' = pc /\ (pc # "done" \/ UNCHANGED <<timedOut, mode, outcome, stream>>)
    BY <1>3 DEF Agent, AgentEmits, AgentRecords, AgentTells, AgentExits, HelperStarts,
       HelperEnds, Working
  <2> QED BY <1>1, <1>2, <2>1
<1>4. CASE TimePasses \/ Dispatch \/ UNCHANGED vars
  BY <1>2, <1>4 DEF TimePasses, Dispatch, vars
<1>5. CASE Launch \/ BeginWait \/ Poll \/ WaitSignal \/ CheckClock \/ Wait
           \/ Terminate \/ Grace \/ Join
  BY <1>1, <1>5 DEF Launch, BeginWait, Poll, WaitSignal, CheckClock, Wait, Terminate, Grace, Join
<1>6. CASE Conclude
  <2>1. /\ pc = "concluding"
        /\ mode' = mode /\ stream' = stream /\ timedOut' = timedOut
    BY <1>6 DEF Conclude
  <2>2. timedOut => outcome' = "timeout" \/ outcome' = (IF Settled THEN Grade ELSE "timeout")
    BY <1>6 DEF Conclude, End
  <2>3. CASE Settled
    BY <2>1, <2>2, <2>3, SettledGrade DEF Of, Fired
  <2>4. CASE ~Settled
    BY <2>1, <2>2, <2>4
  <2> QED BY <2>3, <2>4
<1>7. CASE StartFails
  BY <1>7 DEF StartFails, IInv, Living
<1>8. CASE Interrupt
  BY <1>8 DEF Interrupt
<1> QED BY <1>3, <1>4, <1>5, <1>6, <1>7, <1>8 DEF Next, Main

-----------------------------------------------------------------------------
(* The StreamState holds nothing that was not read.                          *)
LEMMA DetectedDispatch == TypeOK /\ Detected /\ Dispatch => Detected'
<1> SUFFICES ASSUME TypeOK, Detected, Dispatch PROVE Detected'
  OBVIOUS
<1> DEFINE e == stream[read + 1]
<1> USE DEF TypeOK
<1>1. /\ e \in Events /\ read' = read + 1 /\ stream' = stream
      /\ mode' = mode /\ cut' = cut
      /\ read \in Nat /\ 1 .. read \subseteq 1 .. read' /\ read + 1 \in 1 .. read'
      /\ \A i \in 1 .. read' : i \in 1 .. read \/ i = read + 1
      /\ Sees(e) \/ (e.by = "sub" /\ UNCHANGED <<skill, tool, kill>>)
  BY DEF Dispatch
<1>2. /\ e.kind = "skill" => e.name # "none" /\ ~ToolTarget
      /\ e.kind = "mcp" => e.name # "none" /\ ToolTarget
  BY <1>1, EventType DEF Name
<1>5. SettlesTool(e) => e.kind = "mcp" /\ (mode = "tool-" => e.name = "target")
  BY DEF SettlesTool, Negative
<1>6. mode = "tool-" /\ e = Event("main", "mcp", "target")
        => SettlesTool(e) /\ e.by = "main"
  BY DEF SettlesTool, Event
<1>s. CASE Sees(e)
  <2>3. skill' = IF SkillTarget /\ e.kind = "skill" THEN e.name ELSE skill
    BY <1>s DEF Sees
  <2>4. tool' = IF ToolTarget /\ SettlesTool(e) THEN e.name ELSE tool
    BY <1>s DEF Sees
  <2>7. skill' # "none" =>
          /\ SkillTarget
          /\ \E j \in 1 .. read' :
                /\ stream[j].kind = "skill" /\ stream[j].name = skill'
                /\ \A i \in 1 .. read' :
                      i > j /\ stream[i].by = "main" => stream[i].kind # "skill"
    <3>1. CASE SkillTarget /\ e.kind = "skill"
      BY <3>1, <1>1, <2>3
    <3>2. CASE ~(SkillTarget /\ e.kind = "skill")
      BY <3>2, <1>1, <2>3 DEF Detected
    <3> QED BY <3>1, <3>2
  <2>8. tool' # "none" =>
          /\ ToolTarget
          /\ mode = "tool-" => tool' = "target"
          /\ \E j \in 1 .. read' : stream[j].kind = "mcp" /\ stream[j].name = tool'
    <3>1. CASE ToolTarget /\ SettlesTool(e)
      BY <3>1, <1>1, <2>4, <1>5
    <3>2. CASE ~(ToolTarget /\ SettlesTool(e))
      BY <3>2, <1>1, <2>4 DEF Detected
    <3> QED BY <3>1, <3>2
  <2>9. \A i \in 1 .. read' :
          mode = "tool-" /\ stream[i] = Event("main", "mcp", "target") => tool' # "none"
    <3>1. CASE ToolTarget /\ SettlesTool(e)
      BY <3>1, <1>2, <2>4, <1>5
    <3>2. CASE ~(ToolTarget /\ SettlesTool(e))
      BY <3>2, <1>1, <2>4, <1>6 DEF Detected, ToolTarget
    <3> QED BY <3>1, <3>2
  <2>10. kill' => \E i \in 1 .. read' : stream[i].kind # "read"
    <3>1. kill' => kill \/ e.kind # "read"
      <4>1. kill' => kill \/ e.kind = "skill" \/ Decisive(e) \/ SettlesTool(e)
        BY <1>s DEF Sees
      <4>2. Decisive(e) => e.kind \in {"native", "task", "stop"}
        BY DEF Decisive
      <4> QED BY <4>1, <4>2, <1>5
    <3> QED BY <3>1, <1>1 DEF Detected
  <2>11. kill' /\ ToolTarget => tool' # "none"
    <3>1. kill' /\ ToolTarget => kill \/ SettlesTool(e)
      BY <1>s DEF Sees, SkillTarget, ToolTarget
    <3> QED BY <3>1, <2>4, <1>2, <1>5 DEF Detected
  <2>12. cut' => kill'
    BY <1>1, <1>s DEF Detected, Sees
  <2> QED BY <1>1, <2>7, <2>8, <2>9, <2>10, <2>11, <2>12
      DEF Detected, SkillTarget, ToolTarget
<1>k. CASE e.by = "sub" /\ UNCHANGED <<skill, tool, kill>>
  <2>7. skill # "none" =>
          \E j \in 1 .. read' :
                /\ stream[j].kind = "skill" /\ stream[j].name = skill
                /\ \A i \in 1 .. read' :
                      i > j /\ stream[i].by = "main" => stream[i].kind # "skill"
    BY <1>1, <1>k DEF Detected
  <2>8. tool # "none" =>
          \E j \in 1 .. read' : stream[j].kind = "mcp" /\ stream[j].name = tool
    BY <1>1 DEF Detected
  <2>9. \A i \in 1 .. read' :
          mode = "tool-" /\ stream[i] = Event("main", "mcp", "target") => tool # "none"
    BY <1>1, <1>k, <1>6 DEF Detected, Event
  <2>10. kill => \E i \in 1 .. read' : stream[i].kind # "read"
    BY <1>1 DEF Detected
  <2> QED BY <1>1, <1>k, <2>7, <2>8, <2>9, <2>10 DEF Detected, SkillTarget, ToolTarget
<1> QED BY <1>1, <1>s, <1>k

LEMMA DetectedStep == TypeOK /\ Detected /\ [Next]_vars => Detected'
<1> SUFFICES ASSUME TypeOK, Detected, [Next]_vars PROVE Detected'
  OBVIOUS
<1> USE DEF TypeOK, Detected, SkillTarget, ToolTarget
<1>1. ASSUME NEW e \in Events, AgentEmits(e) PROVE Detected'
  <2>1. /\ \A i \in 1 .. read : stream'[i] = stream[i]
        /\ UNCHANGED <<mode, readerVars, cut>>
    BY <1>1 DEF AgentEmits
  <2> QED BY <2>1
<1>2. CASE UNCHANGED <<mode, stream, readerVars, cut>>
  BY <1>2
<1>3. CASE AgentRecords \/ AgentTells \/ AgentExits \/ HelperStarts \/ HelperEnds \/ TimePasses
  BY <1>2, <1>3 DEF AgentRecords, AgentTells, AgentExits, HelperStarts, HelperEnds, TimePasses
<1>3b. CASE BeginWait \/ StartFails
  BY <1>2, <1>3b DEF BeginWait, StartFails
<1>4. CASE Dispatch
  BY <1>4, DetectedDispatch
<1>5. CASE Launch
  BY <1>5 DEF Launch
<1>6. CASE WaitSignal
  BY <1>6 DEF WaitSignal
<1>7. CASE Poll \/ CheckClock \/ Wait \/ Join \/ Terminate \/ Grace
  BY <1>2, <1>7 DEF Poll, CheckClock, Wait, Join, Terminate, Grace
<1>8. CASE Conclude \/ Interrupt \/ UNCHANGED vars
  BY <1>2, <1>8 DEF Conclude, Interrupt, vars
<1> QED BY <1>1, <1>3, <1>3b, <1>4, <1>5, <1>6, <1>7, <1>8 DEF Next, Agent, Main

-----------------------------------------------------------------------------
(* The grade of a case that was not timed out, once everything is read.      *)
LEMMA AllRead ==
    ASSUME TypeOK, Seen, pc = "concluding"
    PROVE  /\ DOMAIN stream = 1 .. read
           /\ \A i \in DOMAIN stream : stream[i] \in Events
           /\ \A k \in {"skill", "mcp"} : Covered(k) \subseteq DOMAIN stream
BY DEF TypeOK, Seen, Covered

(* A target that fired and does not keep the case from passing: the case was *)
(* cut short before it was on disk, and either a subagent fired it or        *)
(* another skill took its place.                                             *)
LEMMA NegativeGrade ==
    ASSUME IInv, pc = "concluding", Negative, Passes, rc = "zero" \/ cut, NEW i \in Fired,
           stream[i].name = "target"
    PROVE  /\ cut /\ mode = "skill-" /\ ~Transcribed(i)
           /\ \/ stream[i].by = "sub"
              \/ \E j \in Fired : j > i /\ stream[j].name # "target"
<1> USE DEF IInv
<1>1. /\ i \in 1 .. read /\ i \in Nat /\ stream[i] \in Events
      /\ stream[i].kind \in {"skill", "mcp"} /\ stream[i].by \in Agents
      /\ DOMAIN stream = 1 .. read
  BY AllRead, EventType DEF Fired
<1>2. \A k, d : ~TargetIn(k, d) => d # "target" /\ (stream[i].kind = k => ~Transcribed(i))
  BY <1>1 DEF TargetIn, Covered
<1>3. ~Transcribed(i)
  <2>1. CASE mode = "skill-"
    <3>1. stream[i].kind = "skill"
      BY <1>1, <2>1, EventType DEF ToolTarget
    <3> QED BY <1>2, <2>1, <3>1 DEF Passes
  <2>2. CASE mode = "tool-"
    <3>1. stream[i].kind = "mcp"
      BY <1>1, <2>2, EventType DEF ToolTarget
    <3> QED BY <1>2, <2>2, <3>1 DEF Passes
  <2> QED BY <2>1, <2>2 DEF Negative
<1>4. cut
  BY <1>1, <1>3 DEF Living
<1>5. mode = "skill-"
  <2> SUFFICES ASSUME mode = "tool-" PROVE FALSE
    BY DEF Negative
  <2>1. tool = "target"
    BY <1>4 DEF Detected, ToolTarget
  <2> QED BY <1>2, <2>1 DEF Passes
<1>6. CASE stream[i].by = "sub"
  BY <1>3, <1>4, <1>5, <1>6
<1>7. CASE stream[i].by = "main"
  <2>1. stream[i].kind = "skill"
    BY <1>1, <1>5, EventType DEF ToolTarget
  <2>2. skill # "none" /\ skill # "target"
    BY <1>1, <1>2, <1>5, <1>7, <2>1 DEF Seen, SkillTarget, Passes
  <2>3. PICK j \in 1 .. read :
          /\ stream[j].kind = "skill" /\ stream[j].name = skill
          /\ \A n \in 1 .. read :
                n > j /\ stream[n].by = "main" => stream[n].kind # "skill"
    BY <2>2 DEF Detected
  <2>4. j > i
    BY <1>1, <1>7, <2>1, <2>2, <2>3 DEF TypeOK
  <2>5. j \in Fired
    BY <1>1, <2>3 DEF Fired
  <2> QED BY <1>3, <1>4, <1>5, <2>2, <2>3, <2>4, <2>5
<1> QED BY <1>1, <1>6, <1>7 DEF Agents

LEMMA GradeByKind ==
    ASSUME IInv, pc = "concluding", NEW k \in {"skill", "mcp"}, NEW d,
           \/ mode = "skill+" /\ k = "skill" /\ d = skill
           \/ mode = "tool+" /\ k = "mcp" /\ d = tool,
           \A i, j \in Fired : stream[i].name = stream[j].name
    PROVE  /\ Passes => \E i \in Fired : stream[i].name = "target"
           /\ (\E i \in Fired : stream[i].name = "target"
                                  /\ (stream[i].by = "main" \/ Transcribed(i)))
                => Passes
<1> USE DEF IInv
<1>1. Passes <=> FirstOf(k, d) = "target"
  BY PassesPositive
<1>2. /\ DOMAIN stream = 1 .. read
      /\ \A i \in DOMAIN stream : stream[i] \in Events
      /\ Covered(k) \subseteq DOMAIN stream
  BY AllRead
<1>3. \A i \in Fired : stream[i].kind = k
  BY <1>2, EventType DEF Fired, ToolTarget
<1>4. CASE \E i \in Covered(k) : FirstOf(k, d) = stream[i].name
  <2>1. PICK i \in Covered(k) : FirstOf(k, d) = stream[i].name
    BY <1>4
  <2>2. i \in Fired
    BY <1>2 DEF Covered, Fired
  <2> QED BY <1>1, <2>1, <2>2
<1>5. CASE FirstOf(k, d) = d /\ d # "none"
  <2>1. PICK j \in 1 .. read : stream[j].kind = k /\ stream[j].name = d
    BY <1>5 DEF Detected
  <2>2. j \in Fired
    BY <1>2, <2>1 DEF Fired
  <2> QED BY <1>1, <1>5, <2>1, <2>2
<1>6. CASE FirstOf(k, d) = d /\ d = "none" /\ Covered(k) = {}
  <2>1. ~Passes
    BY <1>1, <1>6
  <2>2. \A i \in Fired : stream[i].by # "main" /\ ~Transcribed(i)
    <3> SUFFICES ASSUME NEW i \in Fired PROVE stream[i].by # "main" /\ ~Transcribed(i)
      OBVIOUS
    <3>1. stream[i].kind = k /\ i \in 1 .. read
      BY <1>2, <1>3 DEF Fired
    <3>2. ~Transcribed(i)
      BY <1>2, <1>6, <3>1 DEF Covered
    <3>3. stream[i].by # "main"
      BY <1>6, <3>1 DEF Seen, SkillTarget
    <3> QED BY <3>2, <3>3
  <2> QED BY <2>1, <2>2
<1> QED BY <1>4, <1>5, <1>6, FirstOfCovered

LEMMA PositiveGrade ==
    ASSUME IInv, pc = "concluding", mode \in {"skill+", "tool+"},
           \A i, j \in Fired : stream[i].name = stream[j].name
    PROVE  /\ Passes => \E i \in Fired : stream[i].name = "target"
           /\ (\E i \in Fired : stream[i].name = "target"
                                  /\ (stream[i].by = "main" \/ Transcribed(i)))
                => Passes
<1>0. "skill" \in {"skill", "mcp"} /\ "mcp" \in {"skill", "mcp"}
  OBVIOUS
<1>1. CASE mode = "skill+"
  BY <1>0, <1>1, GradeByKind, Zenon
<1>2. CASE mode = "tool+"
  BY <1>0, <1>2, GradeByKind, Zenon
<1> QED BY <1>1, <1>2

LEMMA GradeStep ==
    IInv /\ [Next]_vars => NegativePassEarned' /\ SingleFireGraded'
<1> SUFFICES ASSUME IInv, [Next]_vars PROVE NegativePassEarned' /\ SingleFireGraded'
  OBVIOUS
<1> USE DEF NegativePassEarned, SingleFireGraded, Graded
<1>1. CASE UNCHANGED <<mode, stream, recorded, told, cut, outcome>>
  BY <1>1 DEF IInv, Fired, Negative, Transcribed
<1>2. CASE outcome' \notin {"pass", "fail"}
  BY <1>2
<1>3. CASE Agent
  <2>1. \/ UNCHANGED <<mode, cut, outcome>> /\ pc # "done"
        \/ UNCHANGED vars
    BY <1>3 DEF Agent, AgentEmits, AgentRecords, AgentTells, AgentExits, HelperStarts,
       HelperEnds, Working
  <2>2. pc # "done" => outcome = "none"
    BY DEF IInv, Living
  <2> QED BY <1>1, <1>2, <2>1, <2>2 DEF vars
<1>4. CASE TimePasses \/ Dispatch \/ UNCHANGED vars
  BY <1>1, <1>4 DEF TimePasses, Dispatch, vars
<1>5. CASE Launch \/ BeginWait \/ Poll \/ WaitSignal \/ CheckClock \/ Wait
           \/ Terminate \/ Grace \/ Join
  <2>1. pc # "done" /\ outcome' = outcome
    BY <1>5 DEF Launch, BeginWait, Poll, WaitSignal, CheckClock, Wait, Terminate, Grace, Join
  <2> QED BY <1>2, <2>1 DEF IInv, Living
<1>6. CASE Conclude
  <2> SUFFICES ASSUME outcome' \in {"pass", "fail"}
               PROVE  NegativePassEarned' /\ SingleFireGraded'
    BY <1>2
  <2>1. pc = "concluding" /\ UNCHANGED <<mode, stream, recorded, told, cut>>
    BY <1>6 DEF Conclude
  <2>2. outcome' = Grade /\ (Negative => rc = "zero" \/ cut)
    <3>1. outcome = "none"
      BY <2>1 DEF IInv, Living
    <3>2. Settled => ~Negative
      BY DEF Settled, Negative
    <3> QED BY <1>6, <3>1, <3>2 DEF Conclude, End, Limited
  <2>3. Trigger /\ (outcome' = "pass" <=> Passes)
    BY <2>2 DEF Grade
  <2>4. cut => \E i \in DOMAIN stream : stream[i].kind # "read"
    BY <2>1, AllRead DEF IInv, Detected
  <2>5. NegativePassEarned'
    <3>1. Fired' = Fired /\ Negative' = Negative /\ \A i : Transcribed(i)' = Transcribed(i)
      BY <2>1 DEF Fired, Negative, Transcribed
    <3>2. Negative /\ Passes =>
            \A i \in Fired :
                stream[i].name = "target"
                    => /\ cut /\ mode = "skill-" /\ ~Transcribed(i)
                       /\ \/ stream[i].by = "sub"
                          \/ \E j \in Fired : j > i /\ stream[j].name # "target"
      BY <2>1, <2>2, NegativeGrade
    <3> QED BY <2>1, <2>3, <2>4, <3>1, <3>2
  <2>6. ~Negative => mode \in {"skill+", "tool+"}
    BY <2>3, InvokeAssumption DEF IInv, TypeOK, Mode, Negative, Trigger
  <2>7. SingleFireGraded'
    BY <2>1, <2>3, <2>6, PositiveGrade DEF Fired, Negative, Transcribed
  <2> QED BY <2>5, <2>7
<1>7. CASE Interrupt \/ StartFails
  BY <1>2, <1>7 DEF Interrupt, StartFails
<1> QED BY <1>3, <1>4, <1>5, <1>6, <1>7 DEF Next, Main

LEMMA NextInv == IInv /\ [Next]_vars => IInv'
BY TypeStep, LivingStep, SeenStep, TimeoutStep, DetectedStep, GradeStep DEF IInv

-----------------------------------------------------------------------------
(* IInv is inductive.                                                         *)
THEOREM Inductive == Spec => []IInv
BY InitInv, NextInv, PTL DEF Spec

(* Every variable keeps its type, and no attempt outlives its retries.        *)
THEOREM TypeCorrect == Spec => []TypeOK
<1>1. IInv => TypeOK
  BY DEF IInv
<1> QED BY <1>1, Inductive, PTL

(* However invoke ends, its agent has ended, except after an exception before *)
(* the wait or an interrupt in the grace period of a task that is no trigger. *)
THEOREM NoHarnessLeft == Spec => []HarnessGone
<1>1. IInv => HarnessGone
  BY DEF IInv
<1> QED BY <1>1, Inductive, PTL

(* A negative case passes on evidence, and never against a target of which    *)
(* the transcripts or the reader know.                                        *)
THEOREM NegativesEarned == Spec => []NegativePassEarned
<1>1. IInv => NegativePassEarned
  BY DEF IInv
<1> QED BY <1>1, Inductive, PTL

(* What alone fired grades a positive case, for any interleaving of the agent, *)
(* its transcript, the reader, the signal and the clock.                      *)
THEOREM SingleFire == Spec => []SingleFireGraded
<1>1. IInv => SingleFireGraded
  BY DEF IInv
<1> QED BY <1>1, Inductive, PTL

(* For any race of the agent, its subagent, their transcripts, the reader and *)
(* the clock: a timed-out attempt is graded only as a positive case of which  *)
(* the agent fired nothing, and passes only by a skill of its subagent.       *)
THEOREM TimeoutsGraded == Spec => []TimeoutIsNoPass
<1>1. IInv => TimeoutIsNoPass
  BY DEF IInv
<1> QED BY <1>1, Inductive, PTL
-----------------------------------------------------------------------------
(* invoke implements its contract. *)

(* A timeout is one of the clock.                                            *)
TimelyEnd == timedOut => late

LEMMA TimelyStep == TimelyEnd /\ [Next]_vars => TimelyEnd'
<1> SUFFICES ASSUME TimelyEnd, [Next]_vars PROVE TimelyEnd'
  OBVIOUS
<1> USE DEF TimelyEnd
<1>1. CASE Agent \/ TimePasses \/ Dispatch \/ UNCHANGED vars
  BY <1>1 DEF Agent, AgentEmits, AgentRecords, AgentTells, AgentExits, HelperStarts, HelperEnds,
     TimePasses, Dispatch, vars
<1>2. CASE Launch \/ BeginWait \/ Poll \/ WaitSignal \/ CheckClock \/ Wait
  BY <1>2 DEF Launch, BeginWait, Poll, WaitSignal, CheckClock, Wait
<1>3. CASE Terminate \/ Grace \/ Join \/ Conclude \/ Interrupt \/ StartFails
  BY <1>3 DEF Terminate, Grace, Join, Conclude, Interrupt, StartFails
<1> QED BY <1>1, <1>2, <1>3 DEF Next, Main

(* The contract's view of the agent, its tries and the end.                  *)
Process == IF Alive THEN "running" ELSE agent
Tries == IF pc = "launching" THEN retries ELSE retries + 1
Ended == IF Graded THEN "graded" ELSE outcome

LEMMA ContractViews ==
    /\ Contract!ContractInit <=>
          Process = "none" /\ Tries = 0 /\ late = FALSE /\ Ended = "none"
    /\ Contract!Start <=>
          /\ Ended = "none"
          /\ Process # "running" /\ Tries <= MaxRetries
          /\ Process' = "running" /\ Tries' = Tries + 1 /\ late' = FALSE
          /\ Ended' = Ended
    /\ Contract!Dies <=>
          Process = "running" /\ Process' = "dead" /\ UNCHANGED <<Tries, late, Ended>>
    /\ Contract!DeadlinePasses <=>
          /\ Ended = "none" /\ Process # "none" /\ ~late /\ late' = TRUE
          /\ UNCHANGED <<Process, Tries, Ended>>
    /\ \A way : Contract!End(way) <=>
          /\ Ended = "none" /\ Tries > 0
          /\ way = "timeout" => late
          /\ way = "exhausted" => Tries = MaxRetries + 1
          /\ IF way \in {"raised", "interrupted"}
             THEN Process' \in {Process, "dead"}
             ELSE Process = "dead" /\ UNCHANGED Process
          /\ Ended' = way
          /\ UNCHANGED <<Tries, late>>
BY DEF Contract!ContractInit, Contract!Start, Contract!Dies, Contract!DeadlinePasses,
   Contract!End, Process, Tries, Ended

contractState == <<Process, Tries, late, Ended>>

LEMMA ActorsRefine ==
    ASSUME TypeOK, Living, Agent \/ TimePasses \/ Dispatch \/ UNCHANGED vars
    PROVE  Contract!ContractNext \/ UNCHANGED contractState
<1> USE DEF contractState, Process, Tries, Ended, Alive, Graded
<1>1. CASE AgentExits
  <2>1. Contract!Dies
    BY <1>1, ContractViews DEF AgentExits, Working
  <2> QED BY <2>1 DEF Contract!ContractNext
<1>2. CASE TimePasses
  <2>1. Ended = "none" /\ Process # "none"
    BY <1>2 DEF TimePasses, Living
  <2>2. Contract!DeadlinePasses
    BY <1>2, <2>1, ContractViews DEF TimePasses
  <2> QED BY <2>2 DEF Contract!ContractNext
<1>3. CASE Dispatch \/ UNCHANGED vars \/ AgentRecords \/ AgentTells \/ HelperStarts \/ HelperEnds
           \/ \E e \in Events : AgentEmits(e)
  BY <1>3 DEF Dispatch, vars, AgentRecords, AgentTells, HelperStarts, HelperEnds, AgentEmits
<1> QED BY <1>1, <1>2, <1>3 DEF Agent

LEMMA WaitsRefine ==
    ASSUME TypeOK, Living,
           Launch \/ BeginWait \/ Poll \/ WaitSignal \/ CheckClock \/ Wait
               \/ Terminate \/ Grace \/ Join
    PROVE  Contract!ContractNext \/ UNCHANGED contractState
<1> USE DEF contractState, Process, Tries, Ended, Alive, Graded
<1>1. CASE Launch
  <2>1. /\ agent \in {"none", "dead"} /\ outcome = "none" /\ pc = "launching"
        /\ agent' = "running" /\ late' = FALSE /\ pc' # "launching"
        /\ retries' = retries /\ outcome' = outcome
    BY <1>1 DEF Launch, Living
  <2>2. retries <= MaxRetries
    BY InvokeAssumption DEF TypeOK
  <2>3. Contract!Start
    BY <2>1, <2>2, ContractViews
  <2> QED BY <2>3 DEF Contract!ContractNext
<1>2. CASE BeginWait \/ Poll \/ WaitSignal \/ CheckClock \/ Wait \/ Join
  BY <1>2 DEF BeginWait, Poll, WaitSignal, CheckClock, Wait, Join
<1>3. CASE Terminate
  BY <1>3 DEF Terminate
<1>4. CASE Grace
  <2>1. CASE Alive
    <3>1. Contract!Dies
      BY <1>4, <2>1, ContractViews DEF Grace, KillGroup
    <3> QED BY <3>1 DEF Contract!ContractNext
  <2>2. CASE ~Alive
    BY <1>4, <2>2 DEF Grace
  <2> QED BY <2>1, <2>2
<1> QED BY <1>1, <1>2, <1>3, <1>4

LEMMA EndRefines ==
    ASSUME TypeOK, Living, TimelyEnd, Conclude \/ Interrupt \/ StartFails
    PROVE  Contract!ContractNext \/ UNCHANGED contractState
<1> USE DEF contractState, Process, Tries, Ended, Alive, Graded
<1>1. outcome = "none" /\ Tries > 0
  BY InvokeAssumption DEF Conclude, Interrupt, StartFails, Living, TypeOK
<1>1b. CASE StartFails
  <2>1. /\ pc # "launching" /\ pc' = "done" /\ outcome' = "raised"
        /\ agent' = agent /\ retries' = retries /\ late' = late
    BY <1>1b DEF StartFails
  <2>2. Contract!End("raised")
    BY <1>1, <2>1, ContractViews
  <2> QED BY <2>2 DEF Contract!ContractNext, Contract!Way
<1>2. CASE Interrupt
  <2>1. /\ pc # "launching" /\ pc' = "done" /\ outcome' = "interrupted"
        /\ agent' \in {agent, "dead"} /\ retries' = retries /\ late' = late
    BY <1>2 DEF Interrupt, KillGroup
  <2>2. Contract!End("interrupted")
    BY <1>1, <2>1, ContractViews
  <2> QED BY <2>2 DEF Contract!ContractNext, Contract!Way
<1>3. CASE Conclude /\ pc' = "launching"
  <2>1. pc = "concluding" /\ retries' = retries + 1 /\ outcome' = outcome
    BY <1>3 DEF Conclude, Limited, End
  <2> QED BY <1>1, <1>3, <2>1 DEF Conclude
<1>4. CASE Conclude /\ pc' # "launching"
  <2>1. /\ pc = "concluding" /\ pc' = "done" /\ agent = "dead" /\ agent' = agent
        /\ retries' = retries /\ late' = late
    BY <1>4 DEF Conclude, Limited, End, Living
  <2>2. Grade \in {"pass", "fail", "graded"}
    BY DEF Grade
  <2>3. /\ outcome' \in {"pass", "fail", "graded", "timeout", "abort", "exhausted"}
        /\ outcome' = "timeout" => late
        /\ outcome' = "exhausted" => retries >= MaxRetries
    BY <1>4, <2>2 DEF Conclude, Limited, End, TimelyEnd
  <2>4. outcome' = "exhausted" => retries + 1 = MaxRetries + 1
    BY <2>3, InvokeAssumption DEF TypeOK
  <2>5. /\ Ended' \in {"graded", "timeout", "abort", "exhausted"}
        /\ Ended' = "timeout" => late
        /\ Ended' = "exhausted" => Tries = MaxRetries + 1
    BY <2>1, <2>3, <2>4
  <2>6. Contract!End(Ended')
    BY <1>1, <2>1, <2>5, ContractViews
  <2> QED BY <2>5, <2>6 DEF Contract!ContractNext, Contract!Way
<1> QED BY <1>1b, <1>2, <1>3, <1>4

(* An attempt of claude_code, for a stream of any length and any number of   *)
(* retries, starts one process at a time, gives each a deadline of its own,  *)
(* and ends once: with that process, as a timeout of that deadline only and  *)
(* out of retries only after the last.                                       *)
THEOREM InvokeImplementsContract == Spec => ImplementsContract
<1>1. Init => Contract!ContractInit /\ TimelyEnd
  BY ContractViews DEF Init, Process, Tries, Ended, Alive, Graded, TimelyEnd
<1>2. IInv /\ TimelyEnd /\ [Next]_vars
      => [Contract!ContractNext]_(Contract!contractVars)
  <2>1. ASSUME IInv, TimelyEnd, [Next]_vars
        PROVE  Contract!ContractNext \/ UNCHANGED contractState
    BY <2>1, ActorsRefine, WaitsRefine, EndRefines DEF Next, Main, IInv
  <2> QED
    BY <2>1 DEF Contract!contractVars, contractState, Process, Tries, Ended
<1> QED
  BY <1>1, <1>2, Inductive, TimelyStep, PTL
  DEF Spec, ImplementsContract, Contract!ContractSpec
=============================================================================
