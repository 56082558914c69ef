--------------------------- MODULE AttemptPoolProofs ---------------------------
(***************************************************************************)
(* The safety of AttemptPool for every plan, every concurrency_groups      *)
(* table, any number of workers and any number of failures.  The proof     *)
(* follows the parts of IInv: the types, then the permits, the temporary   *)
(* root, the artifacts, the plan, and the end of the run, each part        *)
(* preserved on the strength of the ones before it.                        *)
(***************************************************************************)
EXTENDS AttemptPool, FiniteSetTheorems, TLAPS

(* What a step of a worker or of the executor is, and what one of the      *)
(* parent is.                                                              *)
PoolStep ==
    \/ \E a \in Attempt : WorkerStep(a) \/ WorkerDies(a) \/ KillWorker(a)
    \/ PoolBreaks

RunnerStep == ParentStep \/ Killed \/ Over

(* The plan of a run is finite. *)
LEMMA AttemptFinite == IsFiniteSet(Attempt)
<1>1. IsFiniteSet(1..NTasks) /\ IsFiniteSet(1..K)
  BY PlanAssumption, FS_Interval
<1> QED
  BY <1>1, FS_Product DEF Attempt, Task

LEMMA NoAttemptIsNone == NoAttempt \notin Attempt
  BY PlanAssumption DEF NoAttempt, Attempt, Task

LEMMA GrpType == ASSUME NEW a \in Attempt PROVE Grp(a) \in Group \cup {NoGroup}
  BY GroupAssumption DEF Grp, Attempt

(* No step of a worker or of the executor writes what the parent keeps, and *)
(* none moves an attempt into or out of the plan.                           *)
LEMMA PoolFrame ==
    ASSUME TypeOK, PoolStep
    PROVE  /\ UNCHANGED runnerVars
           /\ \A b \in Attempt : phase'[b] = "planned" <=> phase[b] = "planned"
<1>1. CASE \E a \in Attempt : WorkerStep(a) \/ WorkerDies(a) \/ KillWorker(a)
  <2>1. PICK a \in Attempt : WorkerStep(a) \/ WorkerDies(a) \/ KillWorker(a)
    BY <1>1
  <2>2. UNCHANGED runnerVars
    BY <2>1 DEF WorkerStep, Take, Stage, StageFails, Acquire, InvokeReturns,
       InvokeUnattached, InvokeTimesOut, Invoked, InvokeRaises, Archive, Record,
       RecordFails, WorkerDies, KillWorker
  <2>3. \E p \in Phase \ {"planned"} : phase[a] # "planned" /\ Enter(a, p)
    <3>1. CASE Take(a) \/ Stage(a) \/ StageFails(a) \/ Acquire(a)
      BY <3>1 DEF Take, Stage, StageFails, Acquire, First, InPhase, Phase
    <3>2. CASE InvokeReturns(a) \/ InvokeUnattached(a) \/ InvokeTimesOut(a)
      BY <3>2 DEF InvokeReturns, InvokeUnattached, InvokeTimesOut, Invoked, Phase
    <3>3. CASE InvokeRaises(a) \/ Archive(a) \/ Record(a) \/ RecordFails(a)
      BY <3>3 DEF InvokeRaises, Archive, Record, RecordFails, Phase
    <3>4. CASE WorkerDies(a) \/ KillWorker(a)
      BY <3>4 DEF WorkerDies, KillWorker, Running, Phase
    <3> QED
      BY <2>1, <3>1, <3>2, <3>3, <3>4 DEF WorkerStep
  <2> QED
    BY <2>2, <2>3 DEF Enter, TypeOK
<1>2. CASE PoolBreaks
  BY <1>2 DEF PoolBreaks, workerVars
<1> QED
  BY <1>1, <1>2 DEF PoolStep

(* The parent touches the pool only by submitting an attempt. *)
LEMMA RunnerFrame ==
    ASSUME RunnerStep
    PROVE  /\ UNCHANGED <<outcome, permits, holds, disk, future, broken>>
           /\ \/ UNCHANGED phase
              \/ \E a \in Attempt : Dispatch(a) /\ ~broken /\ Enter(a, "queued")
<1>1. CASE \E a \in Attempt : Dispatch(a)
  BY <1>1 DEF Dispatch
<1>2. CASE \E a \in Attempt :
              \/ CollectOutcome(a) \/ CollectAbort(a)
              \/ ScoreGraded(a) \/ ScoreUngraded(a) \/ ScoreFails(a)
              \/ ScoreRateLimited(a)
  BY <1>2 DEF CollectOutcome, CollectAbort, ScoreGraded, ScoreUngraded,
     ScoreFails, ScoreRateLimited, Append, PoolUnchanged, workerVars
<1>3. CASE Dispatched \/ BatchDone \/ Cleanup \/ WriteReport \/ WriteRun \/ Exit
  BY <1>3 DEF Dispatched, BatchDone, Cleanup, WriteReport, WriteRun, Exit,
     PoolUnchanged, workerVars
<1>4. CASE Killed \/ Over
  BY <1>4 DEF Killed, Over, PoolUnchanged, vars, workerVars
<1> QED
  BY <1>1, <1>2, <1>3, <1>4 DEF RunnerStep, ParentStep

LEMMA NextSplit == Next => PoolStep \/ RunnerStep
  BY DEF Next, PoolStep, RunnerStep

-----------------------------------------------------------------------------
(* Types. *)

LEMMA InitType == Init => TypeOK
<1> SUFFICES ASSUME Init PROVE TypeOK
  OBVIOUS
<1>1. permits \in [Group -> Nat]
  BY GroupAssumption DEF Init
<1>2. outcome \in [Attempt -> Outcome]
  <2>1. NoOutcome \in Outcome
    BY DEF NoOutcome, Outcome
  <2> QED
    BY <2>1 DEF Init
<1>3. disk \in [Attempt -> SUBSET {"attempt", "trajectory"}]
  BY DEF Init
<1>4. phase \in [Attempt -> Phase] /\ future \in [Attempt -> FutureState]
  BY DEF Init, Phase, FutureState
<1> QED
  BY <1>1, <1>2, <1>3, <1>4 DEF Init, TypeOK

LEMMA PoolType == ASSUME TypeOK, PoolStep PROVE TypeOK'
<1>1. ASSUME NEW a \in Attempt, WorkerStep(a) \/ WorkerDies(a) \/ KillWorker(a)
      PROVE  /\ phase' \in [Attempt -> Phase]
             /\ future' \in [Attempt -> FutureState]
             /\ outcome' \in [Attempt -> Outcome]
             /\ permits' \in [Group -> Nat]
             /\ holds' \in SUBSET Attempt
             /\ broken' \in BOOLEAN
             /\ disk' \in [Attempt -> SUBSET {"attempt", "trajectory"}]
             /\ failures' \in Nat
  <2>1. /\ phase' \in [Attempt -> Phase]
        /\ broken' \in BOOLEAN
        /\ failures' \in Nat
    BY <1>1 DEF WorkerStep, Take, Stage, StageFails, Acquire, InvokeReturns,
       InvokeUnattached, InvokeTimesOut, Invoked, InvokeRaises, Archive, Record,
       RecordFails, WorkerDies, KillWorker, TypeOK, Phase, Enter, Strike
  <2>2. future' \in [Attempt -> FutureState]
    <3>1. \/ UNCHANGED future
          \/ \E f \in FutureState : Resolve(a, f)
      BY <1>1 DEF WorkerStep, Take, Stage, StageFails, Acquire, InvokeReturns,
         InvokeUnattached, InvokeTimesOut, Invoked, InvokeRaises, Archive, Record,
         RecordFails, WorkerDies, KillWorker, FutureState
    <3> QED
      BY <3>1 DEF Resolve, TypeOK
  <2>3. outcome' \in [Attempt -> Outcome]
    <3>1. \/ UNCHANGED outcome
          \/ \E o \in Outcome : outcome' = [outcome EXCEPT ![a] = o]
      BY <1>1 DEF WorkerStep, Take, Stage, StageFails, Acquire, InvokeReturns,
         InvokeUnattached, InvokeTimesOut, Invoked, InvokeRaises, Archive, Record,
         RecordFails, WorkerDies, KillWorker, Outcome
    <3> QED
      BY <3>1 DEF TypeOK
  <2>4. permits' \in [Group -> Nat] /\ holds' \in SUBSET Attempt
    <3>1. permits \in [Group -> Nat] /\ holds \in SUBSET Attempt
      BY DEF TypeOK
    <3>2. UNCHANGED <<permits, holds>> \/ Acquire(a) \/ Release(a)
      BY <1>1 DEF WorkerStep, Take, Stage, StageFails, InvokeReturns,
         InvokeUnattached, InvokeTimesOut, Invoked, InvokeRaises, Archive, Record,
         RecordFails, WorkerDies, KillWorker
    <3>3. CASE Acquire(a)
      <4> DEFINE g == Grp(a)
      <4>1. permits[g] > 0 /\ permits' = [permits EXCEPT ![g] = @ - 1]
        BY <3>3 DEF Acquire
      <4>2. CASE g \in Group
        <5>1. permits[g] \in Nat /\ permits[g] - 1 \in Nat
          BY <3>1, <4>1, <4>2
        <5> QED
          BY <3>1, <3>3, <4>1, <5>1 DEF Acquire
      <4>3. CASE g \notin Group
        BY <3>1, <3>3, <4>1, <4>3 DEF Acquire
      <4> QED
        BY <4>2, <4>3
    <3>4. CASE Release(a)
      <4> DEFINE g == Grp(a)
      <4>1. \/ UNCHANGED permits
            \/ permits' = [permits EXCEPT ![g] = @ + 1]
        BY <3>4 DEF Release
      <4>2. holds' \in SUBSET Attempt
        BY <3>1, <3>4 DEF Release
      <4>3. CASE g \in Group
        <5>1. permits[g] + 1 \in Nat
          BY <3>1, <4>3
        <5> QED
          BY <3>1, <4>1, <4>2, <5>1
      <4>4. CASE g \notin Group
        BY <3>1, <4>1, <4>2, <4>4
      <4> QED
        BY <4>3, <4>4
    <3> QED
      BY <3>1, <3>2, <3>3, <3>4
  <2>5. disk' \in [Attempt -> SUBSET {"attempt", "trajectory"}]
    <3>1. \/ UNCHANGED disk
          \/ \E f \in {"attempt", "trajectory"} :
                disk' = [disk EXCEPT ![a] = @ \cup {f}]
      BY <1>1 DEF WorkerStep, Take, Stage, StageFails, Acquire, InvokeReturns,
         InvokeUnattached, InvokeTimesOut, Invoked, InvokeRaises, Archive, Record,
         RecordFails, WorkerDies, KillWorker
    <3>2. disk \in [Attempt -> SUBSET {"attempt", "trajectory"}]
      BY DEF TypeOK
    <3> QED
      BY <3>1, <3>2
  <2> QED
    BY <2>1, <2>2, <2>3, <2>4, <2>5
<1>2. CASE PoolBreaks
  BY <1>2 DEF PoolBreaks, TypeOK, FutureState, runnerVars, workerVars, beatVars,
     endVars
<1>3. UNCHANGED runnerVars
  BY PoolFrame
<1> QED
  BY <1>1, <1>2, <1>3 DEF PoolStep, TypeOK, runnerVars, beatVars, endVars

LEMMA RunnerType == ASSUME TypeOK, RunnerStep PROVE TypeOK'
<1> USE DEF TypeOK, runnerVars, beatVars, endVars, workerVars, PoolUnchanged, Strike
<1>1. ASSUME NEW a \in Attempt, Dispatch(a) PROVE TypeOK'
  BY <1>1 DEF Dispatch, Enter, Phase
<1>2. ASSUME NEW a \in Attempt, CollectOutcome(a) \/ CollectAbort(a) PROVE TypeOK'
  <2>1. CASE CollectOutcome(a)
    BY <2>1 DEF CollectOutcome
  <2>2. CASE CollectAbort(a)
    BY <2>2 DEF CollectAbort
  <2> QED
    BY <1>2, <2>1, <2>2
<1>3. ASSUME NEW a \in Attempt, NEW v \in Verdict, Append(a, v), failures' \in Nat
      PROVE  TypeOK'
  BY <1>3 DEF Append
<1>4. ASSUME NEW a \in Attempt,
             ScoreGraded(a) \/ ScoreUngraded(a) \/ ScoreFails(a)
      PROVE  \E v \in Verdict : Append(a, v) /\ failures' \in Nat
  BY <1>4 DEF ScoreGraded, ScoreUngraded, ScoreFails, Verdict, ScoredVerdict,
     Outcome, Gradable
<1>5. ASSUME NEW a \in Attempt, ScoreRateLimited(a) PROVE TypeOK'
  BY <1>5 DEF ScoreRateLimited
<1>6. CASE Dispatched \/ Cleanup \/ WriteReport \/ WriteRun \/ Exit
  <2>1. ExitCode \in {"0", "1", "3"}
    BY DEF ExitCode
  <2>2. CASE Exit
    BY <2>1, <2>2 DEF Exit
  <2>3. CASE Dispatched
    BY <2>3 DEF Dispatched
  <2>4. CASE Cleanup
    BY <2>4 DEF Cleanup
  <2>5. CASE WriteReport
    BY <2>5 DEF WriteReport
  <2>6. CASE WriteRun
    BY <2>6 DEF WriteRun
  <2> QED
    BY <1>6, <2>2, <2>3, <2>4, <2>5, <2>6
<1>7. CASE BatchDone
  BY <1>7 DEF BatchDone, LastBatch
<1>8. CASE Killed
  BY <1>8 DEF Killed
<1>9. CASE Over
  BY <1>9 DEF Over, vars
<1> QED
  BY <1>1, <1>2, <1>3, <1>4, <1>5, <1>6, <1>7, <1>8, <1>9 DEF RunnerStep, ParentStep

LEMMA StutterType == ASSUME TypeOK, UNCHANGED vars PROVE TypeOK'
  BY DEF TypeOK, vars, runnerVars, beatVars, endVars, workerVars

(* The types of every variable, for every plan: no count leaves Nat, no     *)
(* attempt a phase or a verdict it cannot have.                             *)
THEOREM TypeCorrect == Spec => []TypeOK
<1>1. TypeOK /\ [Next]_vars => TypeOK'
  BY NextSplit, PoolType, RunnerType, StutterType
<1> QED
  BY InitType, <1>1, PTL DEF Spec

-----------------------------------------------------------------------------
(* The permits of a group: those in the semaphore and those held. *)

Held(g) == {a \in holds : Grp(a) = g}

LEMMA HeldFinite == ASSUME TypeOK, NEW g PROVE IsFiniteSet(Held(g))
<1>1. Held(g) \subseteq Attempt
  BY DEF Held, TypeOK
<1> QED
  BY <1>1, AttemptFinite, FS_Subset

(* Acquiring moves one permit from the semaphore to the attempt. *)
LEMMA AcquireAccounted ==
    ASSUME TypeOK, PermitInv, NEW a \in Attempt, Acquire(a)
    PROVE  \A g \in Group :
              permits'[g] + Cardinality({b \in holds' : Grp(b) = g}) = Limit[g]
<1>1. a \notin holds
  BY DEF Acquire, PermitInv, PermitsAccounted
<1>2. Grp(a) \in Group
  BY GrpType DEF Acquire, PermitInv, Grouped
<1> SUFFICES ASSUME NEW g \in Group
             PROVE  permits'[g] + Cardinality({b \in holds' : Grp(b) = g}) = Limit[g]
  OBVIOUS
<1>3. permits[g] + Cardinality(Held(g)) = Limit[g]
  BY DEF PermitInv, PermitsAccounted, Held
<1>4. permits[g] \in Nat /\ Cardinality(Held(g)) \in Nat
  BY HeldFinite, FS_CardinalityType DEF TypeOK
<1>5. permits' = [permits EXCEPT ![Grp(a)] = @ - 1] /\ holds' = holds \cup {a}
  BY DEF Acquire
<1>6. permits \in [Group -> Nat]
  BY DEF TypeOK
<1>7. CASE g = Grp(a)
  <2>1. {b \in holds' : Grp(b) = g} = Held(g) \cup {a}
    BY <1>5, <1>7 DEF Held
  <2>2. a \notin Held(g)
    BY <1>1 DEF Held
  <2>3. Cardinality(Held(g) \cup {a}) = Cardinality(Held(g)) + 1
    BY <2>2, HeldFinite, FS_AddElement
  <2>4. permits'[g] = permits[g] - 1
    BY <1>5, <1>6, <1>7
  <2>5. permits'[g] + (Cardinality(Held(g)) + 1) = Limit[g]
    BY <1>3, <1>4, <2>4
  <2> QED
    BY <2>1, <2>3, <2>5
<1>8. CASE g # Grp(a)
  <2>1. {b \in holds' : Grp(b) = g} = Held(g)
    BY <1>5, <1>8 DEF Held
  <2>2. permits'[g] = permits[g]
    BY <1>5, <1>6, <1>8
  <2> QED
    BY <1>3, <2>1, <2>2
<1> QED
  BY <1>7, <1>8

(* Releasing moves it back, and does nothing for an attempt without a permit. *)
LEMMA ReleaseAccounted ==
    ASSUME TypeOK, PermitInv, NEW a \in Attempt, Release(a)
    PROVE  \A g \in Group :
              permits'[g] + Cardinality({b \in holds' : Grp(b) = g}) = Limit[g]
<1> SUFFICES ASSUME NEW g \in Group
             PROVE  permits'[g] + Cardinality({b \in holds' : Grp(b) = g}) = Limit[g]
  OBVIOUS
<1>1. permits[g] + Cardinality(Held(g)) = Limit[g]
  BY DEF PermitInv, PermitsAccounted, Held
<1>2. permits[g] \in Nat /\ Cardinality(Held(g)) \in Nat
  BY HeldFinite, FS_CardinalityType DEF TypeOK
<1>3. permits \in [Group -> Nat] /\ holds' = holds \ {a}
  BY DEF TypeOK, Release
<1>4. CASE a \in Held(g)
  <2>1. {b \in holds' : Grp(b) = g} = Held(g) \ {a}
    BY <1>3 DEF Held
  <2>2. Cardinality(Held(g) \ {a}) = Cardinality(Held(g)) - 1
    BY <1>4, HeldFinite, FS_RemoveElement
  <2>3. permits'[g] = permits[g] + 1
    BY <1>3, <1>4 DEF Release, Held
  <2> QED
    BY <1>1, <1>2, <2>1, <2>2, <2>3
<1>5. CASE a \notin Held(g)
  <2>1. {b \in holds' : Grp(b) = g} = Held(g)
    BY <1>3, <1>5 DEF Held
  <2>2. permits'[g] = permits[g]
    BY <1>3, <1>5 DEF Release, Held
  <2> QED
    BY <1>1, <2>1, <2>2
<1> QED
  BY <1>4, <1>5

LEMMA InitPermit == Init => PermitInv
<1> SUFFICES ASSUME Init PROVE PermitInv
  OBVIOUS
<1>1. ASSUME NEW g \in Group
      PROVE  permits[g] + Cardinality({a \in holds : Grp(a) = g}) = Limit[g]
  <2>1. {a \in holds : Grp(a) = g} = {}
    BY DEF Init
  <2>2. permits[g] = Limit[g] /\ Limit[g] \in Nat
    BY GroupAssumption DEF Init
  <2> QED
    BY <2>1, <2>2, FS_EmptySet
<1> QED
  BY <1>1 DEF Init, PermitInv, PermitsAccounted

LEMMA PoolPermit == ASSUME TypeOK, PermitInv, PoolStep PROVE PermitInv'
<1> DEFINE Count == \A g \in Group :
                       permits[g] + Cardinality({b \in holds : Grp(b) = g}) = Limit[g]
           Phases(h, p) ==
              /\ \A b \in h :
                    Grouped(b) /\ p[b] \in {"invoking", "dead", "killed"}
              /\ \A b \in Attempt :
                    /\ p[b] = "waiting" => Grouped(b)
                    /\ p[b] = "invoking" /\ Grouped(b) => b \in h
<1>1. Count /\ Phases(holds, phase)
  BY DEF PermitInv, PermitsAccounted
<1>2. ASSUME Count', Phases(holds', phase') PROVE PermitInv'
  BY <1>2 DEF PermitInv, PermitsAccounted, Grouped, Grp
<1>3. phase \in [Attempt -> Phase] /\ holds \in SUBSET Attempt
  BY DEF TypeOK
<1>4. ASSUME NEW a \in Attempt, WorkerStep(a) \/ WorkerDies(a) \/ KillWorker(a)
      PROVE  Count' /\ Phases(holds', phase')
  <2>1. CASE Take(a) \/ Stage(a) \/ StageFails(a)
    <3>1. UNCHANGED <<permits, holds>>
      BY <2>1 DEF Take, Stage, StageFails
    <3>2. Phases(holds', phase')
      BY <1>1, <1>3, <2>1, <3>1
      DEF Take, Stage, StageFails, Enter, First, InPhase
    <3> QED
      BY <1>1, <3>1, <3>2
  <2>2. CASE Acquire(a)
    <3>1. Count'
      BY <2>2, AcquireAccounted
    <3>2. Phases(holds', phase')
      BY <1>1, <1>3, <2>2 DEF Acquire, Enter
    <3> QED
      BY <3>1, <3>2
  <2>3. CASE \/ InvokeReturns(a) \/ InvokeUnattached(a) \/ InvokeTimesOut(a)
             \/ InvokeRaises(a)
    <3>1. /\ Release(a)
          /\ Enter(a, "archiving") \/ Enter(a, "returned")
      BY <2>3 DEF InvokeReturns, InvokeUnattached, InvokeTimesOut, InvokeRaises,
         Invoked
    <3>2. Count'
      BY <3>1, ReleaseAccounted
    <3>3. Phases(holds', phase')
      BY <1>1, <1>3, <3>1 DEF Release, Enter
    <3> QED
      BY <3>2, <3>3
  <2>4. CASE Archive(a) \/ Record(a) \/ RecordFails(a)
    <3>1. UNCHANGED <<permits, holds>>
      BY <2>4 DEF Archive, Record, RecordFails
    <3>2. /\ phase[a] \in {"archiving", "recording"}
          /\ Enter(a, "recording") \/ Enter(a, "returned")
      BY <2>4 DEF Archive, Record, RecordFails
    <3>3. Phases(holds', phase')
      BY <1>1, <1>3, <3>1, <3>2 DEF Enter
    <3> QED
      BY <1>1, <3>1, <3>3
  <2>5. CASE WorkerDies(a) \/ KillWorker(a)
    <3>1. UNCHANGED <<permits, holds>>
      BY <2>5 DEF WorkerDies, KillWorker
    <3>2. Enter(a, "dead") \/ Enter(a, "killed")
      BY <2>5 DEF WorkerDies, KillWorker
    <3>3. Phases(holds', phase')
      BY <1>1, <1>3, <3>1, <3>2 DEF Enter
    <3> QED
      BY <1>1, <3>1, <3>3
  <2> QED
    BY <1>4, <2>1, <2>2, <2>3, <2>4, <2>5 DEF WorkerStep
<1>5. CASE PoolBreaks
  <2>1. UNCHANGED <<permits, holds, phase>>
    BY <1>5 DEF PoolBreaks, workerVars
  <2>2. Count' /\ Phases(holds', phase')
    BY <1>1, <2>1
  <2> QED
    BY <1>2, <2>2
<1> QED
  BY <1>2, <1>4, <1>5 DEF PoolStep

LEMMA RunnerPermit == ASSUME TypeOK, PermitInv, RunnerStep PROVE PermitInv'
<1>1. UNCHANGED <<permits, holds>>
  BY RunnerFrame
<1>2. \/ UNCHANGED phase
      \/ \E a \in Attempt : phase[a] = "planned" /\ Enter(a, "queued")
  BY RunnerFrame DEF Dispatch, First, ToSubmit, InPhase
<1>3. phase \in [Attempt -> Phase] /\ holds \in SUBSET Attempt
  BY DEF TypeOK
<1> QED
  BY <1>1, <1>2, <1>3 DEF PermitInv, PermitsAccounted, Enter, Grouped, Grp

LEMMA PermitInductive == Spec => []PermitInv
<1>1. TypeOK /\ PermitInv /\ [Next]_vars => PermitInv'
  <2>1. ASSUME PermitInv, UNCHANGED vars PROVE PermitInv'
    BY <2>1 DEF PermitInv, PermitsAccounted, vars, workerVars, Grouped, Grp
  <2> QED
    BY <2>1, NextSplit, PoolPermit, RunnerPermit
<1> QED
  BY InitPermit, TypeCorrect, <1>1, PTL DEF Spec

(* No permit of a concurrency group leaks and none is given back twice,     *)
(* however invoke ends and wherever staging fails.                          *)
THEOREM PermitSafety == Spec => []PermitsAccounted
<1>1. PermitInv => PermitsAccounted
  BY DEF PermitInv
<1> QED
  BY PermitInductive, <1>1, PTL

(* Never more attempts of a group inside provider.invoke than its limit,    *)
(* whatever the limits, the plan and the number of workers.                 *)
THEOREM GroupCap == Spec => []GroupCapRespected
<1>1. ASSUME TypeOK, PermitInv PROVE GroupCapRespected
  <2> SUFFICES ASSUME NEW g \in Group
               PROVE  Cardinality({a \in InPhase("invoking") : Grp(a) = g}) <= Limit[g]
    BY DEF GroupCapRespected
  <2> DEFINE I == {a \in InPhase("invoking") : Grp(a) = g}
  <2>1. I \subseteq Held(g)
    BY <1>1, GroupAssumption DEF InPhase, Held, PermitInv, Grouped
  <2>2. Cardinality(I) <= Cardinality(Held(g))
    BY <1>1, <2>1, HeldFinite, FS_Subset
  <2>3. IsFiniteSet(I) /\ Cardinality(I) \in Nat /\ Cardinality(Held(g)) \in Nat
    BY <1>1, <2>1, HeldFinite, FS_Subset, FS_CardinalityType
  <2>4. permits[g] \in Nat /\ permits[g] + Cardinality(Held(g)) = Limit[g]
    BY <1>1 DEF TypeOK, PermitInv, PermitsAccounted, Held
  <2> QED
    BY <2>2, <2>3, <2>4
<1> QED
  BY TypeCorrect, PermitInductive, <1>1, PTL

-----------------------------------------------------------------------------
(* The temporary root. *)

LEMMA PoolRoot == ASSUME TypeOK, RootInv, PoolStep PROVE RootInv'
<1>1. UNCHANGED <<tmpRoot, parent>>
  BY PoolFrame DEF runnerVars, endVars
<1>2. ASSUME ~tmpRoot PROVE FALSE
  <2>1. Busy = {} /\ (broken \/ InPhase("queued") \cup InPhase("dead") = {})
    BY <1>2 DEF RootInv, Drained
  <2>2. CASE PoolBreaks
    BY <2>1, <2>2 DEF PoolBreaks
  <2>3. ASSUME NEW a \in Attempt, Take(a) PROVE FALSE
    BY <2>1, <2>3 DEF Take, First
  <2>4. ASSUME NEW a \in Attempt, WorkerStep(a) \/ WorkerDies(a) \/ KillWorker(a),
               ~Take(a)
        PROVE  FALSE
    <3>1. phase[a] \in Running
      BY <2>4 DEF WorkerStep, Stage, StageFails, Acquire, InvokeReturns,
         InvokeUnattached, InvokeTimesOut, Invoked, InvokeRaises, Archive, Record,
         RecordFails, WorkerDies, KillWorker, Running
    <3> QED
      BY <2>1, <3>1 DEF Busy
  <2> QED
    BY <2>2, <2>3, <2>4 DEF PoolStep
<1> QED
  BY <1>1, <1>2 DEF RootInv

LEMMA RunnerRoot == ASSUME TypeOK, RootInv, RunnerStep PROVE RootInv'
<1>1. CASE Cleanup
  <2>1. UNCHANGED <<phase, broken>> /\ Drained /\ ~tmpRoot' /\ parent' \in Ending
    BY <1>1 DEF Cleanup, PoolUnchanged, workerVars, Ending
  <2> QED
    BY <2>1 DEF RootInv, Drained, Busy, InPhase
<1>2. CASE WriteReport \/ WriteRun \/ Exit \/ Killed \/ Over
  <2>1. UNCHANGED <<phase, broken, tmpRoot>>
    BY <1>2 DEF WriteReport, WriteRun, Exit, Killed, Over, PoolUnchanged,
       workerVars, vars, runnerVars, endVars
  <2>2. parent \in Ending /\ parent' \in Ending
    BY <1>2 DEF WriteReport, WriteRun, Exit, Killed, Over, Ending, vars, runnerVars
  <2> QED
    BY <2>1, <2>2 DEF RootInv, Drained, Busy, InPhase
<1>3. CASE \/ Dispatched \/ BatchDone
           \/ \E a \in Attempt :
                 \/ Dispatch(a) \/ CollectOutcome(a) \/ CollectAbort(a)
                 \/ ScoreGraded(a) \/ ScoreUngraded(a) \/ ScoreFails(a)
                 \/ ScoreRateLimited(a)
  <2>1. UNCHANGED tmpRoot /\ parent \notin Ending /\ parent' \notin Ending
    BY <1>3 DEF Dispatched, BatchDone, Dispatch, CollectOutcome, CollectAbort,
       ScoreGraded, ScoreUngraded, ScoreFails, ScoreRateLimited, Append, endVars,
       Ending
  <2> QED
    BY <2>1 DEF RootInv
<1> QED
  BY <1>1, <1>2, <1>3 DEF RunnerStep, ParentStep

LEMMA RootInductive == Spec => []RootInv
<1>1. Init => RootInv
  BY DEF Init, RootInv, Ending
<1>2. TypeOK /\ RootInv /\ [Next]_vars => RootInv'
  <2>1. ASSUME RootInv, UNCHANGED vars PROVE RootInv'
    BY <2>1 DEF RootInv, vars, runnerVars, workerVars, endVars, Drained, Busy,
       InPhase
  <2> QED
    BY <2>1, NextSplit, PoolRoot, RunnerRoot
<1> QED
  BY <1>1, TypeCorrect, <1>2, PTL DEF Spec

(* No worker is inside an attempt once the temporary root is gone, whatever *)
(* aborted the run and however many workers died.                           *)
THEOREM RootSafety == Spec => []NoWorkerOutlivesTmpRoot
<1>1. RootInv => NoWorkerOutlivesTmpRoot
  BY DEF RootInv, Drained, NoWorkerOutlivesTmpRoot
<1> QED
  BY RootInductive, <1>1, PTL

-----------------------------------------------------------------------------
(* The artifacts of a graded attempt. *)

LEMMA InitArtifact == Init => ArtifactInv
  BY DEF Init, ArtifactInv, ScoredVerdict

LEMMA PoolArtifact == ASSUME TypeOK, ArtifactInv, PoolStep PROVE ArtifactInv'
<1>1. UNCHANGED reports
  BY PoolFrame DEF runnerVars
<1> DEFINE Files == {"attempt", "trajectory"}
<1>2. /\ phase \in [Attempt -> Phase] /\ future \in [Attempt -> FutureState]
      /\ outcome \in [Attempt -> Outcome] /\ disk \in [Attempt -> SUBSET Files]
  BY DEF TypeOK
<1> DEFINE Part(a) ==
              /\ phase[a] = "recording" =>
                    outcome[a].result /\ "attempt" \in disk[a]
              /\ future[a] = "outcome" =>
                    /\ phase[a] = "returned"
                    /\ outcome[a].result => disk[a] = Files
              /\ reports[a] \in ScoredVerdict =>
                    /\ future[a] = "outcome"
                    /\ outcome[a].result /\ outcome[a].verdict = "none"
<1>3. \A a \in Attempt : Part(a)
  BY DEF ArtifactInv, Gradable
<1>4. ASSUME \A a \in Attempt : Part(a)' PROVE ArtifactInv'
  BY <1>4 DEF ArtifactInv, Gradable
<1>5. CASE PoolBreaks
  <2>1. UNCHANGED <<phase, outcome, disk>>
    BY <1>5 DEF PoolBreaks, workerVars
  <2>2. \A a \in Attempt :
           future'[a] = "outcome" <=> future[a] = "outcome"
    BY <1>5, <1>2 DEF PoolBreaks
  <2> QED
    BY <1>1, <1>3, <1>4, <2>1, <2>2
<1>6. ASSUME NEW a \in Attempt, WorkerStep(a) \/ WorkerDies(a) \/ KillWorker(a)
      PROVE  ArtifactInv'
  <2> SUFFICES ASSUME NEW b \in Attempt PROVE Part(b)'
    BY <1>4
  <2>1. Part(b)
    BY <1>3
  <2>2. CASE b # a
    <3>1. /\ phase'[b] = phase[b]
          /\ outcome'[b] = outcome[b]
          /\ future'[b] = future[b]
          /\ disk'[b] = disk[b]
      BY <1>2, <1>6, <2>2 DEF WorkerStep, Take, Stage, StageFails, Acquire,
         InvokeReturns, InvokeUnattached, InvokeTimesOut, Invoked, InvokeRaises,
         Archive, Record, RecordFails, WorkerDies, KillWorker, Enter, Resolve
    <3> QED
      BY <1>1, <2>1, <3>1
  <2>3. CASE b = a
    <3>1. phase[b] # "returned" /\ future[b] # "outcome"
      <4>1. phase[a] # "returned"
        BY <1>6 DEF WorkerStep, Take, Stage, StageFails, Acquire, InvokeReturns,
           InvokeUnattached, InvokeTimesOut, Invoked, InvokeRaises, Archive,
           Record, RecordFails, WorkerDies, KillWorker, Running, First, InPhase
      <4> QED
        BY <2>1, <2>3, <4>1
    <3>2. CASE Take(a) \/ Stage(a) \/ Acquire(a) \/ WorkerDies(a) \/ KillWorker(a)
      <4>1. phase'[b] # "recording" /\ UNCHANGED future
        BY <1>2, <2>3, <3>2
        DEF Take, Stage, Acquire, WorkerDies, KillWorker, Enter
      <4> QED
        BY <1>1, <2>1, <3>1, <4>1
    <3>3. CASE StageFails(a) \/ InvokeRaises(a) \/ RecordFails(a)
      <4>1. phase'[b] = "returned" /\ future'[b] # "outcome"
        BY <1>2, <2>3, <3>1, <3>3
        DEF StageFails, InvokeRaises, RecordFails, Enter, Resolve
      <4> QED
        BY <1>1, <2>1, <3>1, <4>1
    <3>4. CASE InvokeReturns(a) \/ InvokeUnattached(a) \/ InvokeTimesOut(a)
      <4>1. /\ phase'[b] = "archiving"
            /\ UNCHANGED future
        BY <1>2, <2>3, <3>4
        DEF InvokeReturns, InvokeUnattached, InvokeTimesOut, Invoked, Enter
      <4> QED
        BY <1>1, <2>1, <3>1, <4>1
    <3>5. CASE Archive(a)
      <4>1. phase[b] = "archiving" /\ UNCHANGED outcome
        BY <2>3, <3>5 DEF Archive
      <4>2. CASE outcome[a].result
        <5>1. /\ phase'[b] = "recording" /\ "attempt" \in disk'[b]
              /\ UNCHANGED future
          BY <1>2, <2>3, <3>5, <4>2 DEF Archive, Enter
        <5> QED
          BY <1>1, <2>1, <2>3, <3>1, <4>1, <4>2, <5>1
      <4>3. CASE ~outcome[a].result
        <5>1. phase'[b] = "returned"
          BY <1>2, <2>3, <3>5, <4>3 DEF Archive, Enter
        <5> QED
          BY <1>1, <2>1, <2>3, <3>1, <4>1, <4>3, <5>1
      <4> QED
        BY <4>2, <4>3
    <3>6. CASE Record(a)
      <4>1. phase[b] = "recording" /\ UNCHANGED outcome
        BY <2>3, <3>6 DEF Record
      <4>2. phase'[b] = "returned" /\ disk'[b] = disk[b] \cup {"trajectory"}
        BY <1>2, <2>3, <3>6 DEF Record, Enter
      <4>3. disk'[b] = Files
        <5>1. disk[b] \subseteq Files /\ "attempt" \in disk[b]
          BY <1>2, <2>1, <4>1
        <5> QED
          BY <4>2, <5>1
      <4> QED
        BY <1>1, <2>1, <3>1, <4>1, <4>2, <4>3
    <3> QED
      BY <1>6, <3>2, <3>3, <3>4, <3>5, <3>6 DEF WorkerStep
  <2> QED
    BY <2>2, <2>3
<1> QED
  BY <1>5, <1>6 DEF PoolStep

LEMMA RunnerArtifact == ASSUME TypeOK, ArtifactInv, RunnerStep PROVE ArtifactInv'
<1>1. UNCHANGED <<outcome, disk, future>>
  BY RunnerFrame
<1>2. \A b \in Attempt :
         \/ phase'[b] = phase[b]
         \/ phase[b] = "planned" /\ phase'[b] = "queued"
  BY RunnerFrame DEF Dispatch, First, ToSubmit, InPhase, Enter, TypeOK
<1>3. \A b \in Attempt :
         reports'[b] \in ScoredVerdict =>
            reports[b] \in ScoredVerdict \/ Gradable(b)
  <2>1. CASE UNCHANGED reports
    BY <2>1
  <2>2. ASSUME NEW a \in Attempt, ScoreGraded(a) \/ ScoreUngraded(a) \/ ScoreFails(a)
        PROVE  \A b \in Attempt :
                  reports'[b] \in ScoredVerdict =>
                     reports[b] \in ScoredVerdict \/ Gradable(b)
    <3>1. PICK v \in Verdict : Append(a, v) /\ (Gradable(a) \/ v \notin ScoredVerdict)
      <4>1. future[a] = "outcome" => outcome[a].verdict \in {"none", "timeout", "error"}
        BY DEF TypeOK, Outcome
      <4> QED
        BY <2>2, <4>1 DEF ScoreGraded, ScoreUngraded, ScoreFails, Gradable, Verdict,
           ScoredVerdict
    <3>2. reports' = [reports EXCEPT ![a] = v] /\ reports \in [Attempt -> Verdict \cup {"none"}]
      BY <3>1 DEF Append, TypeOK
    <3> QED
      BY <3>1, <3>2
  <2>3. \/ UNCHANGED reports
        \/ \E a \in Attempt : ScoreGraded(a) \/ ScoreUngraded(a) \/ ScoreFails(a)
    BY DEF RunnerStep, ParentStep, Dispatch, Dispatched, CollectOutcome,
       CollectAbort, ScoreRateLimited, BatchDone, Cleanup, WriteReport, WriteRun,
       Exit, Killed, Over, vars, runnerVars
  <2> QED
    BY <2>1, <2>2, <2>3
<1> QED
  BY <1>1, <1>2, <1>3 DEF ArtifactInv, Gradable

LEMMA ArtifactInductive == Spec => []ArtifactInv
<1>1. TypeOK /\ ArtifactInv /\ [Next]_vars => ArtifactInv'
  <2>1. ASSUME ArtifactInv, UNCHANGED vars PROVE ArtifactInv'
    BY <2>1 DEF ArtifactInv, Gradable, vars, runnerVars, workerVars
  <2> QED
    BY <2>1, NextSplit, PoolArtifact, RunnerArtifact
<1> QED
  BY InitArtifact, TypeCorrect, <1>1, PTL DEF Spec

(* What was graded can be graded again: both artifacts of an attempt with a *)
(* graded verdict are on disk, though timeouts with a partial result, OS    *)
(* errors between the two writes and broken pools produce attempts with one *)
(* of them or none.                                                         *)
THEOREM RescoreSafety == Spec => []GradedIsRescorable
<1>1. ArtifactInv => GradedIsRescorable
  BY DEF ArtifactInv, GradedIsRescorable, Reported, Gradable
<1> QED
  BY ArtifactInductive, <1>1, PTL

-----------------------------------------------------------------------------
(* The plan: what is reported, awaited and still to come. *)

LEMMA BatchRange == ASSUME TypeOK, NEW a \in Attempt PROVE BatchOf(a) \in 1..LastBatch
  BY PlanAssumption DEF BatchOf, LastBatch, Attempt, TypeOK

LEMMA InitPlan == Init => PlanInv
<1> SUFFICES ASSUME Init PROVE PlanInv
  OBVIOUS
<1>1. \A a \in Attempt : BatchOf(a) \in {1, 2}
  BY DEF BatchOf
<1>2. batch \in 1..LastBatch
  BY DEF Init, LastBatch
<1>3. \A a \in Attempt : a # NoAttempt
  BY NoAttemptIsNone
<1> QED
  BY <1>1, <1>2, <1>3 DEF Init, PlanInv, Reported, Ending

LEMMA PoolPlan == ASSUME TypeOK, PlanInv, PoolStep PROVE PlanInv'
<1>1. UNCHANGED <<serialWithinTask, parent, batch, awaited, current, abort,
                  reports, inFlight>>
  BY PoolFrame DEF runnerVars, beatVars
<1>2. \A b \in Attempt : phase'[b] = "planned" <=> phase[b] = "planned"
  BY PoolFrame
<1>3. ToSubmit' = ToSubmit
  BY <1>1, <1>2 DEF ToSubmit, InPhase, BatchOf
<1> QED
  BY <1>1, <1>2, <1>3 DEF PlanInv, Reported, BatchOf, LastBatch

LEMMA RunnerPlan == ASSUME TypeOK, PlanInv, RunnerStep PROVE PlanInv'
<1>1. /\ phase \in [Attempt -> Phase]
      /\ reports \in [Attempt -> Verdict \cup {"none"}]
      /\ NoAttempt \notin Attempt
  BY NoAttemptIsNone DEF TypeOK
<1>2. ASSUME UNCHANGED <<serialWithinTask, batch, phase, reports, inFlight>>
      PROVE  /\ ToSubmit' = ToSubmit
             /\ Reported' = Reported
             /\ LastBatch' = LastBatch
             /\ \A b \in Attempt : BatchOf(b)' = BatchOf(b)
  BY <1>2 DEF ToSubmit, InPhase, BatchOf, Reported, LastBatch
<1>3. ASSUME NEW a \in Attempt, Dispatch(a) PROVE PlanInv'
  <2>1. /\ UNCHANGED <<serialWithinTask, batch, reports, current>>
        /\ inFlight' = inFlight \cup {a}
        /\ a \in ToSubmit /\ parent = "dispatching"
    BY <1>3 DEF Dispatch, First
  <2>2. /\ Reported' = Reported
        /\ LastBatch' = LastBatch
        /\ \A b \in Attempt : BatchOf(b)' = BatchOf(b)
    BY <2>1 DEF BatchOf, Reported, LastBatch
  <2>3. phase[a] = "planned" /\ BatchOf(a) = batch /\ a \notin Reported
    BY <2>1 DEF ToSubmit, InPhase, PlanInv
  <2>4. CASE broken
    <3>1. UNCHANGED <<phase, awaited>> /\ abort' = "broken" /\ parent' = "draining"
      BY <1>3, <2>4 DEF Dispatch
    <3> QED
      BY <2>1, <2>2, <2>3, <3>1 DEF PlanInv, Ending
  <2>5. CASE ~broken
    <3>1. /\ UNCHANGED <<abort, parent>> /\ awaited' = awaited \cup {a}
          /\ phase' = [phase EXCEPT ![a] = "queued"]
      BY <1>3, <2>5 DEF Dispatch, Enter
    <3>2. \A b \in Attempt : phase'[b] = IF b = a THEN "queued" ELSE phase[b]
      BY <1>1, <3>1
    <3>3. current = NoAttempt
      BY <2>1 DEF PlanInv
    <3> QED
      BY <1>1, <2>1, <2>2, <2>3, <3>1, <3>2, <3>3 DEF PlanInv, Ending
  <2> QED
    BY <2>4, <2>5
<1>4. ASSUME NEW a \in Attempt, CollectOutcome(a) \/ CollectAbort(a) PROVE PlanInv'
  <2>1. /\ UNCHANGED <<serialWithinTask, batch, phase, reports, inFlight>>
        /\ awaited' = awaited \ {a} /\ a \in awaited /\ parent = "collecting"
        /\ \/ parent' = "scoring" /\ current' = a /\ UNCHANGED abort
           \/ parent' = "draining" /\ abort' # "no" /\ UNCHANGED current
    BY <1>4 DEF CollectOutcome, CollectAbort, PoolUnchanged, workerVars, beatVars
  <2> QED
    BY <1>1, <1>2, <2>1 DEF PlanInv, Ending
<1>5. ASSUME NEW a \in Attempt, NEW v \in Verdict, Append(a, v) PROVE PlanInv'
  <2>1. /\ UNCHANGED <<serialWithinTask, batch, phase, awaited, abort>>
        /\ parent = "scoring" /\ current = a
        /\ parent' = "collecting" /\ current' = NoAttempt
        /\ inFlight' = inFlight \ {a}
    BY <1>5 DEF Append, PoolUnchanged, workerVars
  <2>2. Reported' = Reported \cup {a}
    BY <1>1, <1>5 DEF Append, Reported, Verdict, ScoredVerdict
  <2>3. /\ ToSubmit' = ToSubmit
        /\ LastBatch' = LastBatch
        /\ \A b \in Attempt : BatchOf(b)' = BatchOf(b)
    BY <2>1 DEF ToSubmit, InPhase, BatchOf, LastBatch
  <2> QED
    BY <1>1, <2>1, <2>2, <2>3 DEF PlanInv, Ending
<1>6. ASSUME NEW a \in Attempt,
             ScoreGraded(a) \/ ScoreUngraded(a) \/ ScoreFails(a)
      PROVE  PlanInv'
  <2>1. \E v \in Verdict : Append(a, v)
    BY <1>6 DEF ScoreGraded, ScoreUngraded, ScoreFails, Verdict, ScoredVerdict,
       Outcome, Gradable, TypeOK
  <2> QED
    BY <1>5, <2>1
<1>7. ASSUME NEW a \in Attempt, ScoreRateLimited(a) PROVE PlanInv'
  <2>1. /\ UNCHANGED <<serialWithinTask, batch, phase, awaited, reports, inFlight>>
        /\ parent = "scoring" /\ abort' = "rateLimit" /\ parent' = "draining"
        /\ current' = NoAttempt
    BY <1>7 DEF ScoreRateLimited, PoolUnchanged, workerVars, beatVars
  <2> QED
    BY <1>1, <1>2, <2>1 DEF PlanInv, Ending
<1>8. CASE Dispatched
  <2>1. /\ UNCHANGED <<serialWithinTask, batch, phase, awaited, reports, inFlight,
                       abort, current>>
        /\ parent = "dispatching" /\ ToSubmit = {} /\ parent' = "collecting"
    BY <1>8 DEF Dispatched, PoolUnchanged, workerVars, beatVars
  <2> QED
    BY <1>1, <1>2, <2>1 DEF PlanInv, Ending
<1>9. CASE BatchDone
  <2>1. /\ UNCHANGED <<serialWithinTask, phase, awaited, reports, inFlight,
                       abort, current>>
        /\ parent = "collecting" /\ awaited = {}
    BY <1>9 DEF BatchDone, PoolUnchanged, workerVars, beatVars
  <2>2. /\ Reported' = Reported
        /\ LastBatch' = LastBatch
        /\ \A b \in Attempt : BatchOf(b)' = BatchOf(b)
    BY <2>1 DEF BatchOf, Reported, LastBatch
  <2>3. \A b \in Attempt : BatchOf(b) <= batch => b \in Reported
    <3> SUFFICES ASSUME NEW b \in Attempt, BatchOf(b) <= batch PROVE b \in Reported
      OBVIOUS
    <3>1. BatchOf(b) < batch \/ BatchOf(b) = batch
      BY BatchRange DEF TypeOK, LastBatch
    <3>2. phase[b] = "planned" => BatchOf(b) # batch
      BY <2>1 DEF PlanInv, ToSubmit, InPhase
    <3> QED
      BY <1>1, <2>1, <3>1, <3>2 DEF PlanInv
  <2>4. CASE batch < LastBatch /\ batch' = batch + 1 /\ parent' = "dispatching"
    <3>1. /\ batch' \in 1..LastBatch /\ batch \in {1, 2}
          /\ \A b \in Attempt : BatchOf(b) \in {1, 2}
      BY <2>4 DEF PlanInv, LastBatch, TypeOK, BatchOf
    <3>2. \A b \in Attempt : /\ BatchOf(b) < batch' => b \in Reported
                             /\ BatchOf(b) > batch' => phase[b] = "planned"
      BY <2>3, <2>4, <3>1 DEF PlanInv
    <3> QED
      BY <1>1, <2>1, <2>2, <2>4, <3>1, <3>2 DEF PlanInv, Ending
  <2>5. CASE batch = LastBatch /\ parent' = "draining" /\ UNCHANGED batch
    <3>1. Reported = Attempt
      BY <2>3, <2>5, BatchRange DEF Reported, LastBatch
    <3> QED
      BY <1>1, <2>1, <2>2, <2>5, <3>1 DEF PlanInv, Ending
  <2> QED
    BY <1>9, <2>4, <2>5 DEF BatchDone
<1>10. CASE Cleanup \/ WriteReport \/ WriteRun \/ Exit \/ Killed
  <2>1. UNCHANGED <<serialWithinTask, batch, phase, awaited, reports, inFlight,
                    abort, current>>
    BY <1>10 DEF Cleanup, WriteReport, WriteRun, Exit, Killed, PoolUnchanged,
       workerVars, beatVars
  <2>2. /\ parent \in Ending \cup {"draining"} /\ parent' \in Ending
        /\ parent' \in {"failing"} => abort \notin {"no", "rateLimit"}
        /\ parent' \notin {"failing", "exited"} =>
              \/ parent \notin {"failing", "exited", "draining"}
              \/ abort \in {"no", "rateLimit"}
    BY <1>10 DEF Cleanup, WriteReport, WriteRun, Exit, Killed, Ending
  <2>3. abort \in {"no", "config", "rateLimit", "broken"}
    BY DEF TypeOK
  <2> QED
    BY <1>1, <1>2, <2>1, <2>2, <2>3 DEF PlanInv, Ending
<1>11. CASE Over
  <2>1. UNCHANGED <<serialWithinTask, batch, phase, awaited, reports, inFlight,
                    abort, current, parent>>
    BY <1>11 DEF Over, vars, runnerVars, workerVars, beatVars
  <2> QED
    BY <1>1, <1>2, <2>1 DEF PlanInv, Ending
<1> QED
  BY <1>3, <1>4, <1>6, <1>7, <1>8, <1>9, <1>10, <1>11 DEF RunnerStep, ParentStep

LEMMA PlanInductive == Spec => []PlanInv
<1>1. TypeOK /\ PlanInv /\ [Next]_vars => PlanInv'
  <2>1. ASSUME PlanInv, UNCHANGED vars PROVE PlanInv'
    <3>1. UNCHANGED <<serialWithinTask, parent, batch, awaited, current, abort,
                      reports, inFlight, phase>>
      BY <2>1 DEF vars, runnerVars, beatVars, workerVars
    <3> QED
      BY <2>1, <3>1 DEF PlanInv, Reported, BatchOf, LastBatch, ToSubmit, InPhase
  <2> QED
    BY <2>1, NextSplit, PoolPlan, RunnerPlan
<1> QED
  BY InitPlan, TypeCorrect, <1>1, PTL DEF Spec

(* The cache warm-up: with serial_within_task no attempt 2 or later is even *)
(* submitted before attempt 1 of every task has its report.                 *)
THEOREM WarmUp == Spec => []WarmUpFirst
<1>1. ASSUME TypeOK, PlanInv PROVE WarmUpFirst
  <2> SUFFICES ASSUME serialWithinTask, NEW a \in Attempt, a[2] > 1,
                      phase[a] # "planned", NEW t \in Task
               PROVE  <<t, 1>> \in Reported
    BY DEF WarmUpFirst
  <2>1. BatchOf(a) = 2 /\ batch \in {1, 2}
    BY <1>1 DEF BatchOf, TypeOK
  <2>2. batch = 2
    BY <1>1, <2>1 DEF PlanInv
  <2>3. <<t, 1>> \in Attempt /\ BatchOf(<<t, 1>>) = 1
    BY PlanAssumption DEF Attempt, BatchOf
  <2> QED
    BY <1>1, <2>2, <2>3 DEF PlanInv
<1> QED
  BY TypeCorrect, PlanInductive, <1>1, PTL

-----------------------------------------------------------------------------
(* The end of the run. *)

LEMMA RunnerEnd == ASSUME TypeOK, PlanInv, EndInv, RunnerStep PROVE EndInv'
<1>1. CASE \E a \in Attempt :
              \/ Dispatch(a) \/ CollectOutcome(a) \/ CollectAbort(a)
              \/ ScoreGraded(a) \/ ScoreUngraded(a) \/ ScoreFails(a)
              \/ ScoreRateLimited(a)
  <2>1. UNCHANGED <<published, code>> /\ parent \notin Ending /\ parent' \notin Ending
    BY <1>1 DEF Dispatch, CollectOutcome, CollectAbort, ScoreGraded,
       ScoreUngraded, ScoreFails, ScoreRateLimited, Append, endVars, Ending
  <2>2. published = {} /\ code = "none"
    BY <2>1 DEF EndInv, Ending
  <2> QED
    BY <2>1, <2>2 DEF EndInv, Ending
<1>2. CASE Dispatched \/ BatchDone \/ Cleanup
  <2>1. /\ UNCHANGED <<published, code>> /\ parent \notin Ending
        /\ parent' \notin {"finalizing", "exiting", "exited"}
        /\ parent' \in Ending => parent' \in {"reporting", "failing"}
    BY <1>2 DEF Dispatched, BatchDone, Cleanup, endVars, Ending
  <2>2. published = {} /\ code = "none"
    BY <2>1 DEF EndInv, Ending
  <2> QED
    BY <2>1, <2>2 DEF EndInv, Ending
<1>3. CASE WriteReport
  <2>1. /\ UNCHANGED <<abort, reports, code>> /\ parent = "reporting"
        /\ parent' = "finalizing" /\ published' = published \cup {"report"}
    BY <1>3 DEF WriteReport
  <2>2. published = {} /\ abort \in {"no", "rateLimit"} /\ code = "none"
    BY <2>1 DEF EndInv, PlanInv, Ending
  <2> QED
    BY <2>1, <2>2 DEF EndInv, Ending
<1>4. CASE WriteRun
  <2>1. /\ UNCHANGED <<abort, reports, code>> /\ parent = "finalizing"
        /\ parent' = "exiting" /\ published' = published \cup {"run"}
    BY <1>4 DEF WriteRun
  <2>2. /\ published = {"report"} /\ abort \in {"no", "rateLimit"} /\ code = "none"
    BY <2>1 DEF EndInv, PlanInv, Ending
  <2> QED
    BY <2>1, <2>2 DEF EndInv, Ending
<1>5. CASE Exit
  <2>1. /\ UNCHANGED <<abort, reports, published>> /\ parent' = "exited"
        /\ \/ parent = "exiting" /\ code' = ExitCode
           \/ parent = "failing" /\ code' \in {"1", "2"}
    BY <1>5 DEF Exit
  <2>2. parent = "exiting" => abort \in {"no", "rateLimit"}
    BY DEF PlanInv, Ending
  <2>3. code' = "0" => abort = "no" /\ (RealityCheck \/ \A a \in Reported :
                                                   reports[a] \in NonGating)
    BY <2>1, <2>2 DEF ExitCode
  <2> QED
    BY <2>1, <2>3 DEF EndInv, Ending, Reported
<1>6. CASE Killed \/ Over
  <2>1. UNCHANGED <<abort, reports, published, code>>
    BY <1>6 DEF Killed, Over, endVars, vars, runnerVars
  <2>2. \/ parent \in Ending /\ parent \notin {"failing", "exited"} /\ parent' = "killed"
        \/ UNCHANGED parent
    BY <1>6 DEF Killed, Over, vars, runnerVars, Ending
  <2> QED
    BY <2>1, <2>2 DEF EndInv, Ending, Reported
<1> QED
  BY <1>1, <1>2, <1>3, <1>4, <1>5, <1>6 DEF RunnerStep, ParentStep

LEMMA EndInductive == Spec => []EndInv
<1>1. Init => EndInv
  BY DEF Init, EndInv, Ending
<1>2. TypeOK /\ PlanInv /\ EndInv /\ [Next]_vars => EndInv'
  <2>1. ASSUME EndInv, UNCHANGED runnerVars PROVE EndInv'
    <3>1. UNCHANGED <<parent, abort, reports, published, code>>
      BY <2>1 DEF runnerVars, endVars
    <3> QED
      BY <2>1, <3>1 DEF EndInv, Reported
  <2> QED
    BY <2>1, NextSplit, PoolFrame, RunnerEnd DEF vars
<1> QED
  BY <1>1, TypeCorrect, PlanInductive, <1>2, PTL DEF Spec

(* run.json comes after the report, neither is written by a run an error    *)
(* escaped from, and only a rate limit leaves an attempt out of them.       *)
THEOREM RunJson == Spec => []RunJsonComplete
<1>1. ASSUME PlanInv, EndInv PROVE RunJsonComplete
  <2>1. "report" \in published => parent \in Ending /\ abort \in {"no", "rateLimit"}
    BY <1>1 DEF EndInv
  <2> QED
    BY <1>1, <2>1 DEF RunJsonComplete, PlanInv, EndInv
<1> QED
  BY PlanInductive, EndInductive, <1>1, PTL

(* A gating run that exits 0 graded every attempt of its plan, and every    *)
(* grade is one that does not gate.                                         *)
THEOREM ExitZero == Spec => []ExitZeroIsGreen
<1>1. ASSUME PlanInv, EndInv PROVE ExitZeroIsGreen
  <2> SUFFICES ASSUME code = "0", ~RealityCheck, NEW a \in Attempt
               PROVE  reports[a] \in NonGating
    BY DEF ExitZeroIsGreen
  <2>1. abort = "no" /\ parent = "exited" /\ \A b \in Reported : reports[b] \in NonGating
    BY <1>1 DEF EndInv
  <2>2. Reported = Attempt
    BY <1>1, <2>1 DEF PlanInv, Ending
  <2> QED
    BY <2>1, <2>2
<1> QED
  BY PlanInductive, EndInductive, <1>1, PTL

-----------------------------------------------------------------------------
(* The heartbeat. *)

LEMMA RunnerBeat == ASSUME TypeOK, PlanInv, BeatInv, RunnerStep PROVE BeatInv'
<1>1. CASE UNCHANGED <<done, reports>>
  BY <1>1 DEF BeatInv, Reported
<1>2. ASSUME NEW a \in Attempt, NEW v \in Verdict, Append(a, v) PROVE BeatInv'
  <2>1. /\ Reported' = Reported \cup {a}
        /\ done' = done + 1
    BY <1>2 DEF Append, Reported, Verdict, ScoredVerdict, TypeOK
  <2>2. a \notin Reported
    BY <1>2 DEF Append, PlanInv
  <2>3. IsFiniteSet(Reported)
    BY AttemptFinite, FS_Subset DEF Reported
  <2>4. Cardinality(Reported \cup {a}) = Cardinality(Reported) + 1
    BY <2>2, <2>3, FS_AddElement
  <2> QED
    BY <2>1, <2>4 DEF BeatInv
<1>3. \/ UNCHANGED <<done, reports>>
      \/ \E a \in Attempt : ScoreGraded(a) \/ ScoreUngraded(a) \/ ScoreFails(a)
  BY DEF RunnerStep, ParentStep, Dispatch, Dispatched, CollectOutcome,
     CollectAbort, ScoreRateLimited, BatchDone, Cleanup, WriteReport, WriteRun,
     Exit, Killed, Over, vars, runnerVars, beatVars
<1>4. ASSUME NEW a \in Attempt, ScoreGraded(a) \/ ScoreUngraded(a) \/ ScoreFails(a)
      PROVE  \E v \in Verdict : Append(a, v)
  BY <1>4 DEF ScoreGraded, ScoreUngraded, ScoreFails, Verdict, ScoredVerdict,
     Outcome, Gradable, TypeOK
<1> QED
  BY <1>1, <1>2, <1>3, <1>4

LEMMA BeatInductive == Spec => []BeatInv
<1>1. Init => BeatInv
  <2>1. Init => Reported = {} /\ done = 0
    BY DEF Init, Reported
  <2> QED
    BY <2>1, FS_EmptySet DEF BeatInv
<1>2. TypeOK /\ PlanInv /\ BeatInv /\ [Next]_vars => BeatInv'
  <2>1. ASSUME BeatInv, UNCHANGED runnerVars PROVE BeatInv'
    BY <2>1 DEF runnerVars, beatVars, BeatInv, Reported
  <2> QED
    BY <2>1, NextSplit, PoolFrame, RunnerBeat DEF vars
<1> QED
  BY <1>1, TypeCorrect, PlanInductive, <1>2, PTL DEF Spec

(* The progress line never loses an attempt and never counts one twice.     *)
THEOREM Heartbeat == Spec => []HeartbeatAccounts
<1>1. PlanInv /\ BeatInv => HeartbeatAccounts
  BY DEF PlanInv, BeatInv, HeartbeatAccounts, Reported
<1> QED
  BY PlanInductive, BeatInductive, <1>1, PTL

(* The invariants above together: permits, root, artifacts, plan, ends and  *)
(* heartbeat hold in every state of every parallel run.                     *)
THEOREM Inductive == Spec => []IInv
<1>1. TypeOK /\ PermitInv /\ RootInv /\ ArtifactInv /\ PlanInv /\ EndInv /\ BeatInv => IInv
  BY DEF IInv
<1> QED
  BY TypeCorrect, PermitInductive, RootInductive, ArtifactInductive, PlanInductive,
     EndInductive, BeatInductive, <1>1, PTL

-----------------------------------------------------------------------------
(* The parallel path implements the ledger. *)

ledgerState == <<reports, LedgerStatus, published, code>>

LEMMA RefineInit == Init => Ledger!LedgerInit
  BY DEF Init, Ledger!LedgerInit, LedgerStatus

(* A step that writes no verdict, publishes nothing and leaves the root     *)
(* alone is invisible: the abort it may record shows only when the root is  *)
(* removed.                                                                 *)
LEMMA Invisible ==
    ASSUME UNCHANGED <<reports, tmpRoot, published, code>>,
           tmpRoot \/ UNCHANGED abort
    PROVE  UNCHANGED ledgerState
  BY DEF ledgerState, LedgerStatus

LEMMA RunnerRefines ==
    ASSUME TypeOK, RootInv, PlanInv, EndInv, RunnerStep
    PROVE  Ledger!LedgerNext \/ UNCHANGED ledgerState
<1>1. ASSUME NEW a \in Attempt, NEW v \in Verdict, Append(a, v)
      PROVE  Ledger!LedgerNext
  <2>1. /\ reports' = [reports EXCEPT ![a] = v]
        /\ UNCHANGED <<tmpRoot, published, code, abort>>
        /\ parent = "scoring" /\ current = a
    BY <1>1 DEF Append, endVars
  <2>2. a \notin Reported /\ tmpRoot
    BY <2>1 DEF PlanInv, RootInv, Ending
  <2>3. Ledger!Grade(a, v)
    BY <2>1, <2>2 DEF Ledger!Grade, Ledger!Graded, Reported, LedgerStatus
  <2> QED
    BY <2>3 DEF Ledger!LedgerNext
<1>2. ASSUME NEW a \in Attempt,
             ScoreGraded(a) \/ ScoreUngraded(a) \/ ScoreFails(a)
      PROVE  Ledger!LedgerNext
  <2>1. \E v \in Verdict : Append(a, v)
    BY <1>2 DEF ScoreGraded, ScoreUngraded, ScoreFails, Verdict, ScoredVerdict,
       Outcome, Gradable, TypeOK
  <2> QED
    BY <1>1, <2>1
<1>3. CASE \/ Dispatched \/ BatchDone
           \/ \E a \in Attempt :
                 \/ Dispatch(a) \/ CollectOutcome(a) \/ CollectAbort(a)
                 \/ ScoreRateLimited(a)
  <2>1. UNCHANGED <<reports, tmpRoot, published, code>> /\ parent \notin Ending
    BY <1>3 DEF Dispatched, BatchDone, Dispatch, CollectOutcome, CollectAbort,
       ScoreRateLimited, endVars, Ending
  <2> QED
    BY <2>1, Invisible DEF RootInv
<1>4. CASE Cleanup
  <2>1. /\ UNCHANGED <<abort, reports, published, code>>
        /\ parent = "draining" /\ ~tmpRoot'
    BY <1>4 DEF Cleanup
  <2>2. tmpRoot /\ (abort = "no" => Reported = Attempt)
    BY <2>1 DEF RootInv, PlanInv, Ending
  <2>3. LedgerStatus = "open" /\ LedgerStatus' \in {"complete", "partial", "abandoned"}
    BY <2>1, <2>2 DEF LedgerStatus
  <2>4. LedgerStatus' = "complete" => Ledger!Graded = Attempt
    BY <2>1, <2>2 DEF LedgerStatus, Ledger!Graded, Reported
  <2>5. Ledger!Close(LedgerStatus')
    BY <2>1, <2>3, <2>4 DEF Ledger!Close
  <2> QED
    BY <2>3, <2>5 DEF Ledger!LedgerNext
<1>5. CASE WriteReport
  <2>1. /\ UNCHANGED <<abort, reports, tmpRoot, code>>
        /\ parent = "reporting" /\ published' = published \cup {"report"}
    BY <1>5 DEF WriteReport
  <2>2. ~tmpRoot /\ published = {} /\ abort \in {"no", "rateLimit"}
    BY <2>1 DEF RootInv, PlanInv, EndInv, Ending
  <2>3. Ledger!PublishReport
    BY <2>1, <2>2 DEF Ledger!PublishReport, LedgerStatus
  <2> QED
    BY <2>3 DEF Ledger!LedgerNext
<1>6. CASE WriteRun
  <2>1. /\ UNCHANGED <<abort, reports, tmpRoot, code>>
        /\ parent = "finalizing" /\ published' = published \cup {"run"}
    BY <1>6 DEF WriteRun
  <2>2. published = {"report"}
    BY <2>1 DEF EndInv
  <2>3. Ledger!PublishRun
    BY <2>1, <2>2 DEF Ledger!PublishRun, LedgerStatus
  <2> QED
    BY <2>3 DEF Ledger!LedgerNext
<1>7. CASE Exit
  <2>1. UNCHANGED <<abort, reports, tmpRoot, published>> /\ ~tmpRoot /\ code = "none"
    BY <1>7 DEF Exit, RootInv, EndInv, Ending
  <2>2. CASE parent = "exiting" /\ code' = ExitCode
    <3>1. /\ published = {"report", "run"} /\ abort \in {"no", "rateLimit"}
          /\ abort = "no" => Reported = Attempt
      BY <2>2 DEF EndInv, PlanInv, Ending
    <3>2. Ledger!ExitCode = ExitCode
      BY <2>1, <3>1 DEF Ledger!ExitCode, ExitCode, LedgerStatus
    <3>3. Ledger!Exit
      BY <2>1, <2>2, <3>1, <3>2 DEF Ledger!Exit, LedgerStatus
    <3> QED
      BY <3>3 DEF Ledger!LedgerNext
  <2>3. CASE parent = "failing" /\ code' = IF abort = "config" THEN "2" ELSE "1"
    <3>1. abort \in {"config", "broken"}
      BY <2>3 DEF PlanInv
    <3>2. Ledger!Exit
      BY <2>1, <2>3, <3>1 DEF Ledger!Exit, LedgerStatus
    <3> QED
      BY <3>2 DEF Ledger!LedgerNext
  <2> QED
    BY <1>7, <2>2, <2>3 DEF Exit
<1>8. CASE Killed \/ Over
  BY <1>8, Invisible DEF Killed, Over, endVars, vars, runnerVars
<1> QED
  BY <1>2, <1>3, <1>4, <1>5, <1>6, <1>7, <1>8 DEF RunnerStep, ParentStep

LEMMA StepRefines ==
    ASSUME TypeOK, RootInv, PlanInv, EndInv, [Next]_vars
    PROVE  Ledger!LedgerNext \/ UNCHANGED ledgerState
<1>1. ASSUME UNCHANGED runnerVars PROVE UNCHANGED ledgerState
  BY <1>1, Invisible DEF runnerVars, endVars
<1> QED
  BY <1>1, NextSplit, PoolFrame, RunnerRefines DEF vars

(* Whatever the plan, the pool and the failures, a parallel run gives every *)
(* attempt at most one verdict, closes its ledger as complete only when all *)
(* of them have one, and publishes in order, once, and only what it closed. *)
THEOREM PoolImplementsLedger == Spec => ImplementsLedger
<1>1. /\ TypeOK /\ RootInv /\ PlanInv /\ EndInv /\ [Next]_vars
      => [Ledger!LedgerNext]_(Ledger!ledgerVars)
  BY StepRefines DEF Ledger!ledgerVars, ledgerState
<1> QED
  BY RefineInit, TypeCorrect, RootInductive, PlanInductive, EndInductive, <1>1, PTL
  DEF Spec, ImplementsLedger, Ledger!LedgerSpec

-----------------------------------------------------------------------------
(* What is decided stays. *)

(* A verdict is not taken back or graded again; once the run has decided    *)
(* how it ends, that stands, and no verdict is added; what is published is  *)
(* not removed; and nothing follows the exit code.                          *)
KeepsDecisions ==
    /\ \A a \in Reported : reports'[a] = reports[a]
    /\ ~tmpRoot => UNCHANGED <<reports, LedgerStatus>>
    /\ published \subseteq published'
    /\ code # "none" => UNCHANGED <<reports, published, code>>

LEMMA ExitedRests ==
    ASSUME TypeOK, [Next]_vars, parent = "exited"
    PROVE  UNCHANGED <<reports, published, code>>
<1>1. CASE PoolStep \/ UNCHANGED vars \/ Over
  BY <1>1, PoolFrame DEF vars, runnerVars, endVars, Over
<1>2. CASE ParentStep \/ Killed
  <2>1. ~(\E a \in Attempt : Dispatch(a) \/ CollectOutcome(a) \/ CollectAbort(a))
    BY DEF Dispatch, CollectOutcome, CollectAbort
  <2>2. ~(\E a \in Attempt :
             ScoreGraded(a) \/ ScoreUngraded(a) \/ ScoreFails(a) \/ ScoreRateLimited(a))
    BY DEF ScoreGraded, ScoreUngraded, ScoreFails, ScoreRateLimited, Append
  <2>3. ~(Dispatched \/ BatchDone \/ Cleanup \/ WriteReport \/ WriteRun \/ Exit \/ Killed)
    BY DEF Dispatched, BatchDone, Cleanup, WriteReport, WriteRun, Exit, Killed
  <2> QED
    BY <1>2, <2>1, <2>2, <2>3 DEF ParentStep
<1> QED
  BY <1>1, <1>2, NextSplit DEF RunnerStep

(* No step of a parallel run, of its workers or of the executor takes back  *)
(* what was graded, decided, published or returned.                         *)
THEOREM DecisionsStand == Spec => [][KeepsDecisions]_vars
<1>1. ASSUME TypeOK, RootInv, PlanInv, EndInv, [Next]_vars PROVE KeepsDecisions
  <2>1. Ledger!LedgerNext \/ UNCHANGED ledgerState
    BY <1>1, StepRefines
  <2>2. LedgerStatus = "open" <=> tmpRoot
    BY DEF LedgerStatus
  <2>3. code # "none" => UNCHANGED <<reports, published, code>>
    BY <1>1, ExitedRests DEF EndInv
  <2>4. ASSUME NEW a \in Attempt, NEW v \in Verdict, Ledger!Grade(a, v)
        PROVE  KeepsDecisions
    <3>1. /\ a \notin Reported /\ tmpRoot
          /\ reports' = [reports EXCEPT ![a] = v]
          /\ UNCHANGED published
      BY <2>2, <2>4 DEF Ledger!Grade, Ledger!Graded, Reported
    <3>2. \A b \in Attempt : b # a => reports'[b] = reports[b]
      BY <1>1, <3>1 DEF TypeOK
    <3>3. \A b \in Reported : reports'[b] = reports[b]
      BY <3>1, <3>2 DEF Reported
    <3> QED
      BY <2>3, <3>1, <3>3 DEF KeepsDecisions
  <2>5. ASSUME NEW how \in {"complete", "partial", "abandoned"}, Ledger!Close(how)
        PROVE  KeepsDecisions
    BY <2>2, <2>3, <2>5 DEF Ledger!Close, KeepsDecisions
  <2>6. CASE Ledger!PublishReport \/ Ledger!PublishRun \/ Ledger!Exit
    <3>1. UNCHANGED <<reports, LedgerStatus>> /\ published \subseteq published'
      BY <2>6 DEF Ledger!PublishReport, Ledger!PublishRun, Ledger!Exit
    <3> QED
      BY <2>3, <3>1 DEF KeepsDecisions
  <2>7. CASE UNCHANGED ledgerState
    BY <2>7 DEF KeepsDecisions, ledgerState
  <2> QED
    BY <2>1, <2>4, <2>5, <2>6, <2>7 DEF Ledger!LedgerNext
<1> QED
  BY <1>1, TypeCorrect, RootInductive, PlanInductive, EndInductive, PTL DEF Spec
=============================================================================
