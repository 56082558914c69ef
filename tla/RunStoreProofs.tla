--------------------------- MODULE RunStoreProofs ---------------------------
(***************************************************************************)
(* Theorems about RunStore, for any number of tasks, attempts, skills,     *)
(* assertions, rescores, retries and mishaps: types, the evidence of an    *)
(* attempt, the skills it finds, and the verdicts that judges are paid for. *)
(***************************************************************************)
EXTENDS RunStore, FiniteSetTheorems, TLAPS

----------------------------------------------------------------------------
(* Names of directories. *)

LEMMA NamesApart ==
    ASSUME TreeAssumption
    PROVE  /\ Triggers \notin Attempt /\ Root \notin Attempt /\ Triggers # Root
           /\ Fixture \notin Attempt /\ Mcp \notin Attempt /\ Fixture # Mcp
           /\ NoAttempt \notin Attempt
  BY DEF TreeAssumption, Attempt, Task, Triggers, Root, Fixture, Mcp, NoAttempt

(* Where an attempt works is a directory, and its own unless it shares it. *)
LEMMA CwdIsDir ==
    ASSUME NEW a \in Attempt
    PROVE  /\ Cwd(a) \in Dir /\ RawPath(a) \in Dir
           /\ Cwd(a) = a \/ (SharesCwd(a) /\ Cwd(a) = Triggers)
           /\ RawPath(a) = a \/ (Provider = "opencode" /\ SharesCwd(a) /\ RawPath(a) = Triggers)
  BY DEF Cwd, RawPath, Dir

----------------------------------------------------------------------------
(* Types. *)

LEMMA TypeInit == TreeAssumption /\ StoreAssumption /\ Init => TypeOK
<1> SUFFICES ASSUME TreeAssumption, StoreAssumption, Init PROVE TypeOK
  OBVIOUS
<1>1. TreeTypeOK
  <2>1. Queued \in Worker
    BY DEF Queued, Worker, Stages, EndsWith, TreeAssumption
  <2>2. at \in [Attempt -> Worker] /\ kind \in Plans /\ mishaps \in 0..MaxMishaps
    BY <2>1 DEF Init, TreeInit, TreeAssumption
  <2>3. dir \in [Dir -> Directory] /\ stream \in [Dir -> SUBSET Author]
    BY DEF Init, TreeInit, Directory
  <2>4. archive \in [Attempt -> Kept]
    BY DEF Init, TreeInit, Kept
  <2> QED BY <2>2, <2>3, <2>4 DEF TreeTypeOK
<1>2. NoPass \in Process /\ [NoPass EXCEPT !.pc = "grading", !.scope = Task] \in Process
  <2>1. NoPass \in Process
    BY DEF StoreAssumption, NoPass, Process
  <2> QED BY <2>1 DEF Process
<1>3. pass \in [Pass -> Process]
  BY <1>2 DEF Init
<1>4. cache \in File /\ tmp \in File /\ paid \subseteq Inputs
  BY DEF Init, File, Absent
<1>5. published \in Seq(Published) /\ reports \subseteq {published[j] : j \in DOMAIN published}
  BY DEF Init
<1>6. /\ runJson = FALSE /\ beside = FALSE /\ shown = TRUE /\ limitHit = FALSE
      /\ version = 0 /\ model = 0 /\ clock = 0 /\ edits = 0
  BY DEF Init
<1>7. 0 \in 0..MaxClock /\ 0 \in 0..MaxEdits
  BY DEF StoreAssumption
<1> QED
  BY <1>1, <1>3, <1>4, <1>5, <1>6, <1>7 DEF TypeOK

LEMMA MishapType == TreeAssumption /\ mishaps \in 0..MaxMishaps /\ Mishap => mishaps' \in 0..MaxMishaps
  BY DEF TreeAssumption, Mishap

LEMMA EndsType ==
    ASSUME TreeAssumption, at \in [Attempt -> Worker], NEW a \in Attempt,
           NEW e \in EndsWith, NEW o \in Text \cup {None}, Ends(a, e, o)
    PROVE  at' \in [Attempt -> Worker]
<1> DEFINE w == [at[a] EXCEPT !.stage = "ended", !.agent = FALSE, !.tries = 0,
                              !.end = e, !.text = o]
<1>1. at[a] \in Worker
  OBVIOUS
<1>2. w \in Worker
  <2>1. 0 \in 0..MaxRetries /\ "ended" \in Stages
    BY DEF TreeAssumption, Stages
  <2> QED BY <1>1, <2>1 DEF Worker
<1>3. at' = [at EXCEPT ![a] = w]
  BY DEF Ends
<1> HIDE DEF w
<1> QED
  BY <1>2, <1>3

LEMMA LeftType ==
    ASSUME TreeAssumption, NEW w \in Worker, NEW stage \in Stages
    PROVE  Left(w, stage) \in Worker /\ [Left(w, stage) EXCEPT !.agent = FALSE] \in Worker
<1>1. 0 \in 0..MaxRetries /\ "none" \in EndsWith
  BY DEF TreeAssumption, EndsWith
<1>2. Left(w, stage) \in Worker
  BY <1>1 DEF Left, Worker
<1> QED
  BY <1>2 DEF Worker

LEMMA ArchivedType ==
    ASSUME TreeTypeOK, NEW a \in Attempt, NEW files \in SUBSET Author, Archived(a, files)
    PROVE  archive' \in [Attempt -> Kept]
<1>1. stream[RawPath(a)] \in SUBSET Author
  BY CwdIsDir DEF TreeTypeOK
<1> DEFINE raw == IF HasResult(a) THEN stream[RawPath(a)] ELSE {}
<1>2. raw \in SUBSET Author
  BY <1>1
<1>3. archive' = [archive EXCEPT ![a].there = TRUE, ![a].files = files, ![a].raw = raw]
  BY DEF Archived
<1> DEFINE k == [archive[a] EXCEPT !.there = TRUE, !.files = files, !.raw = raw]
<1>4. k \in Kept
  <2>1. archive[a] \in Kept
    BY DEF TreeTypeOK
  <2> HIDE DEF raw
  <2> QED BY <1>2, <2>1 DEF Kept
<1>5. archive' = [archive EXCEPT ![a] = k]
  BY <1>3
<1> HIDE DEF k
<1> QED
  BY <1>4, <1>5 DEF TreeTypeOK

LEMMA TypeTree == TreeAssumption /\ TreeTypeOK /\ TreeNext => TreeTypeOK'
<1> SUFFICES ASSUME TreeAssumption, TreeTypeOK, TreeNext PROVE TreeTypeOK'
  OBVIOUS
<1>1. CASE PoolBreaks
  <2>1. at' \in [Attempt -> Worker]
    <3>1. ASSUME NEW a \in Attempt
          PROVE at'[a] \in Worker
      <4>1. at[a] \in Worker
        BY DEF TreeTypeOK
      <4> DEFINE b == at[a].broken \/ ~ Answered(a)
      <4>2. b \in BOOLEAN
        OBVIOUS
      <4>3. at'[a] = [at[a] EXCEPT !.broken = b]
        BY <1>1 DEF PoolBreaks
      <4> HIDE DEF b
      <4> QED BY <4>1, <4>2, <4>3 DEF Worker
    <3> QED BY <1>1, <3>1 DEF PoolBreaks
  <2>2. /\ kind' \in Plans /\ mishaps' \in 0..MaxMishaps /\ dir' \in [Dir -> Directory]
        /\ stream' \in [Dir -> SUBSET Author] /\ archive' \in [Attempt -> Kept]
    BY <1>1 DEF PoolBreaks, TreeTypeOK
  <2> QED BY <2>1, <2>2 DEF TreeTypeOK
<1>2. ASSUME NEW a \in Attempt, MakeCwd(a) PROVE TreeTypeOK'
  <2>1. at' \in [Attempt -> Worker]
    BY <1>2, TreeAssumption DEF MakeCwd, TreeTypeOK, Worker, Stages, TreeAssumption
  <2>2. dir' \in [Dir -> Directory]
    BY <1>2, CwdIsDir DEF MakeCwd, TreeTypeOK, Directory, Author
  <2>3. kind' \in Plans /\ mishaps' \in 0..MaxMishaps
        /\ stream' \in [Dir -> SUBSET Author] /\ archive' \in [Attempt -> Kept]
    BY <1>2 DEF MakeCwd, TreeTypeOK
  <2> QED BY <2>1, <2>2, <2>3 DEF TreeTypeOK
<1>3. ASSUME NEW a \in Attempt, NEW s \in Skill, OpenCopy(a, s) PROVE TreeTypeOK'
  <2>1. at' \in [Attempt -> Worker]
    BY <1>3, TreeAssumption DEF OpenCopy, TreeTypeOK, Worker, Stages, TreeAssumption
  <2>2. dir' \in [Dir -> Directory]
    BY <1>3, CwdIsDir DEF OpenCopy, TreeTypeOK, Directory, Author
  <2>3. kind' \in Plans /\ mishaps' \in 0..MaxMishaps
        /\ stream' \in [Dir -> SUBSET Author] /\ archive' \in [Attempt -> Kept]
    BY <1>3 DEF OpenCopy, TreeTypeOK
  <2> QED BY <2>1, <2>2, <2>3 DEF TreeTypeOK
<1>4. ASSUME NEW a \in Attempt, WriteCopy(a) PROVE TreeTypeOK'
  <2>1. at' \in [Attempt -> Worker]
    BY <1>4, TreeAssumption DEF WriteCopy, TreeTypeOK, Worker, Stages, TreeAssumption
  <2>2. dir' \in [Dir -> Directory]
    BY <1>4, CwdIsDir DEF WriteCopy, TreeTypeOK, Directory, Author
  <2>3. kind' \in Plans /\ mishaps' \in 0..MaxMishaps
        /\ stream' \in [Dir -> SUBSET Author] /\ archive' \in [Attempt -> Kept]
    BY <1>4 DEF WriteCopy, TreeTypeOK
  <2> QED BY <2>1, <2>2, <2>3 DEF TreeTypeOK
<1>5. ASSUME NEW a \in Attempt, StageMcp(a) PROVE TreeTypeOK'
  <2>1. at' \in [Attempt -> Worker]
    BY <1>5, TreeAssumption DEF StageMcp, TreeTypeOK, Worker, Stages, TreeAssumption
  <2>2. dir' \in [Dir -> Directory]
    <3> Root \in Dir BY DEF Dir
    <3> QED BY <1>5 DEF StageMcp, TreeTypeOK, Directory, Author
  <2>3. kind' \in Plans /\ mishaps' \in 0..MaxMishaps
        /\ stream' \in [Dir -> SUBSET Author] /\ archive' \in [Attempt -> Kept]
    BY <1>5 DEF StageMcp, TreeTypeOK
  <2> QED BY <2>1, <2>2, <2>3 DEF TreeTypeOK
<1>6. ASSUME NEW a \in Attempt, Start(a) PROVE TreeTypeOK'
  <2>1. at' \in [Attempt -> Worker]
    <3> DEFINE w == [at[a] EXCEPT !.stage = "running", !.agent = TRUE]
    <3>1. at' = [at EXCEPT ![a] = w]
      BY <1>6 DEF Start
    <3>2. w \in Worker
      <4>1. at[a] \in Worker /\ "running" \in Stages
        BY DEF TreeTypeOK, Stages
      <4> QED BY <4>1 DEF Worker
    <3> HIDE DEF w
    <3> QED BY <3>1, <3>2 DEF TreeTypeOK
  <2>2. stream' \in [Dir -> SUBSET Author]
    BY <1>6, CwdIsDir DEF Start, TreeTypeOK, Author
  <2>3. kind' \in Plans /\ mishaps' \in 0..MaxMishaps
        /\ dir' \in [Dir -> Directory] /\ archive' \in [Attempt -> Kept]
    BY <1>6 DEF Start, TreeTypeOK
  <2> QED BY <2>1, <2>2, <2>3 DEF TreeTypeOK
<1>7. ASSUME NEW a \in Attempt, Work(a) PROVE TreeTypeOK'
  <2>1. dir' \in [Dir -> Directory]
    BY <1>7, CwdIsDir DEF Work, TreeTypeOK, Directory, Author
  <2>2. stream' \in [Dir -> SUBSET Author]
    BY <1>7, CwdIsDir DEF Work, TreeTypeOK, Author
  <2>3. kind' \in Plans /\ mishaps' \in 0..MaxMishaps
        /\ at' \in [Attempt -> Worker] /\ archive' \in [Attempt -> Kept]
    BY <1>7 DEF Work, TreeTypeOK
  <2> QED BY <2>1, <2>2, <2>3 DEF TreeTypeOK
<1>8. ASSUME NEW a \in Attempt, RateLimited(a) PROVE TreeTypeOK'
  <2>1. at' \in [Attempt -> Worker]
    BY <1>8, TreeAssumption DEF RateLimited, TreeTypeOK, Worker, Stages, TreeAssumption
  <2>2. mishaps' \in 0..MaxMishaps
    BY <1>8, MishapType DEF RateLimited, TreeTypeOK
  <2>3. kind' \in Plans /\ dir' \in [Dir -> Directory]
        /\ stream' \in [Dir -> SUBSET Author] /\ archive' \in [Attempt -> Kept]
    BY <1>8 DEF RateLimited, TreeTypeOK
  <2> QED BY <2>1, <2>2, <2>3 DEF TreeTypeOK
<1>9. ASSUME NEW a \in Attempt, Returns(a) PROVE TreeTypeOK'
  <2>1. at' \in [Attempt -> Worker]
    BY <1>9, EndsType DEF Returns, EndsWith, TreeTypeOK
  <2>2. kind' \in Plans /\ mishaps' \in 0..MaxMishaps
        /\ dir' \in [Dir -> Directory] /\ stream' \in [Dir -> SUBSET Author] /\ archive' \in [Attempt -> Kept]
    BY <1>9 DEF Returns, TreeTypeOK, Ends
  <2> QED BY <2>1, <2>2 DEF TreeTypeOK
<1>10. ASSUME NEW a \in Attempt, Fails(a) PROVE TreeTypeOK'
  <2>1. at' \in [Attempt -> Worker]
    BY <1>10, EndsType DEF Fails, EndsWith, TreeTypeOK
  <2>2. mishaps' \in 0..MaxMishaps
    BY <1>10, MishapType DEF Fails, TreeTypeOK
  <2>3. kind' \in Plans /\ dir' \in [Dir -> Directory]
        /\ stream' \in [Dir -> SUBSET Author] /\ archive' \in [Attempt -> Kept]
    BY <1>10 DEF Fails, TreeTypeOK, Ends
  <2> QED BY <2>1, <2>2, <2>3 DEF TreeTypeOK
<1>11. ASSUME NEW a \in Attempt, Mirror(a) PROVE TreeTypeOK'
  <2>1. at' \in [Attempt -> Worker]
    BY <1>11, TreeAssumption DEF Mirror, TreeTypeOK, Worker, Stages, Archived, TreeAssumption
  <2>2. archive' \in [Attempt -> Kept]
    <3>1. dir[Cwd(a)].files \in SUBSET Author
      BY CwdIsDir DEF TreeTypeOK, Directory
    <3> QED BY <1>11, <3>1, ArchivedType DEF Mirror
  <2>3. kind' \in Plans /\ mishaps' \in 0..MaxMishaps
        /\ dir' \in [Dir -> Directory] /\ stream' \in [Dir -> SUBSET Author]
    BY <1>11 DEF Mirror, TreeTypeOK, Archived
  <2> QED BY <2>1, <2>2, <2>3 DEF TreeTypeOK
<1>12. ASSUME NEW a \in Attempt, MirrorFails(a) PROVE TreeTypeOK'
  <2>1. at' \in [Attempt -> Worker]
    BY <1>12, TreeAssumption DEF MirrorFails, TreeTypeOK, Worker, Stages, Archived, TreeAssumption
  <2>2. archive' \in [Attempt -> Kept]
    <3>1. dir[Cwd(a)].files \in SUBSET Author
      BY CwdIsDir DEF TreeTypeOK, Directory
    <3> QED BY <1>12, <3>1, ArchivedType DEF MirrorFails
  <2>3. mishaps' \in 0..MaxMishaps
    BY <1>12, MishapType DEF MirrorFails, TreeTypeOK
  <2>4. kind' \in Plans /\ dir' \in [Dir -> Directory]
        /\ stream' \in [Dir -> SUBSET Author]
    BY <1>12 DEF MirrorFails, TreeTypeOK, Archived
  <2> QED BY <2>1, <2>2, <2>3, <2>4 DEF TreeTypeOK
<1>13. ASSUME NEW a \in Attempt, Record(a) PROVE TreeTypeOK'
  <2>1. at' \in [Attempt -> Worker]
    <3> DEFINE w == [at[a] EXCEPT !.stage = "recorded"]
    <3>1. at' = at \/ at' = [at EXCEPT ![a] = w]
      BY <1>13 DEF Record
    <3>2. w \in Worker
      <4>1. at[a] \in Worker /\ "recorded" \in Stages
        BY DEF TreeTypeOK, Stages
      <4> QED BY <4>1 DEF Worker
    <3> HIDE DEF w
    <3> QED BY <3>1, <3>2 DEF TreeTypeOK
  <2>2. archive' \in [Attempt -> Kept]
    <3>1. HasResult(a) \in BOOLEAN
      BY DEF HasResult
    <3>2. at[a].text \in Text \cup {None}
      BY DEF TreeTypeOK, Worker
    <3>3. CASE HasResult(a) /\ ~ archive[a].json
      <4>1. archive' = [archive EXCEPT ![a].json = TRUE]
        BY <1>13, <3>3 DEF Record
      <4> QED BY <4>1 DEF TreeTypeOK, Kept
    <3>4. CASE ~ (HasResult(a) /\ ~ archive[a].json)
      <4> DEFINE h == HasResult(a)
                 k == [archive[a] EXCEPT !.trajectory = h, !.text = at[a].text]
      <4>1. archive' = [archive EXCEPT ![a] = k]
        BY <1>13, <3>4 DEF Record
      <4>2. k \in Kept
        <5>1. archive[a] \in Kept /\ h \in BOOLEAN
          BY <3>1 DEF TreeTypeOK
        <5> HIDE DEF h
        <5> QED BY <5>1, <3>2 DEF Kept
      <4> HIDE DEF k
      <4> QED BY <4>1, <4>2 DEF TreeTypeOK
    <3> QED BY <3>3, <3>4
  <2>3. kind' \in Plans /\ mishaps' \in 0..MaxMishaps
        /\ dir' \in [Dir -> Directory] /\ stream' \in [Dir -> SUBSET Author]
    BY <1>13 DEF Record, TreeTypeOK
  <2> QED BY <2>1, <2>2, <2>3 DEF TreeTypeOK
<1>14. ASSUME NEW a \in Attempt,
              Exhausted(a) \/ Raises(a) \/ WorkerDies(a) \/ KillWorker(a)
       PROVE  TreeTypeOK'
  <2>1. at[a] \in Worker /\ {"failed", "exhausted", "dead"} \subseteq Stages
    BY DEF TreeTypeOK, Stages
  <2>2. \E w \in Worker : at' = [at EXCEPT ![a] = w]
    BY <1>14, <2>1, LeftType, TreeAssumption DEF Exhausted, Raises, WorkerDies, KillWorker
  <2>3. at' \in [Attempt -> Worker]
    BY <2>2 DEF TreeTypeOK
  <2>4. mishaps' \in 0..MaxMishaps
    BY <1>14, MishapType, TreeAssumption
       DEF Exhausted, Raises, WorkerDies, KillWorker, TreeTypeOK
  <2>5. kind' \in Plans /\ dir' \in [Dir -> Directory]
        /\ stream' \in [Dir -> SUBSET Author] /\ archive' \in [Attempt -> Kept]
    BY <1>14 DEF Exhausted, Raises, WorkerDies, KillWorker, TreeTypeOK
  <2> QED BY <2>3, <2>4, <2>5 DEF TreeTypeOK
<1> QED
  BY <1>1, <1>2, <1>3, <1>4, <1>5, <1>6, <1>7, <1>8, <1>9, <1>10, <1>11, <1>12, <1>13, <1>14
     DEF TreeNext

(* What an action leaves alone keeps its type. *)
LEMMA TreeStays == TreeTypeOK /\ UNCHANGED treeVars => TreeTypeOK'
  BY DEF TreeTypeOK, treeVars

LEMMA TreeMishap ==
    ASSUME TreeAssumption, TreeTypeOK, Mishap, UNCHANGED <<kind, at, dir, stream, archive>>
    PROVE  TreeTypeOK'
  BY MishapType DEF TreeTypeOK

PlainTypeOK ==
    /\ runJson \in BOOLEAN /\ beside \in BOOLEAN
    /\ shown \in BOOLEAN /\ limitHit \in BOOLEAN
    /\ version \in {0, 1} /\ model \in {0, 1} /\ clock \in 0..MaxClock /\ edits \in 0..MaxEdits

ReportsTypeOK ==
    /\ published \in Seq(Published)
    /\ reports \subseteq {published[j] : j \in DOMAIN published}

LEMMA TypeParts ==
    TypeOK <=> /\ TreeTypeOK /\ PlainTypeOK /\ ReportsTypeOK
               /\ cache \in File /\ tmp \in File /\ paid \subseteq Inputs
               /\ pass \in [Pass -> Process]
  BY DEF TypeOK, PlainTypeOK, ReportsTypeOK

LEMMA TypePartsNext ==
    TypeOK' <=> /\ TreeTypeOK' /\ PlainTypeOK' /\ ReportsTypeOK'
                /\ cache' \in File /\ tmp' \in File /\ paid' \subseteq Inputs
                /\ pass' \in [Pass -> Process]
  BY DEF TypeOK, PlainTypeOK, ReportsTypeOK

LEMMA OnlyPass ==
    ASSUME TypeOK, NEW p \in Pass, NEW w \in Process, pass' = [pass EXCEPT ![p] = w],
           UNCHANGED <<treeVars, runJson, cache, tmp, reports, settings, clock, edits,
                       published, paid, beside>>,
           limitHit' \in BOOLEAN
    PROVE  TypeOK'
<1>1. TreeTypeOK' /\ PlainTypeOK' /\ ReportsTypeOK'
  BY TypeParts, TreeStays DEF settings, PlainTypeOK, ReportsTypeOK
<1> QED
  BY <1>1, TypeParts, TypePartsNext

LEMMA NoPassType ==
    ASSUME StoreAssumption
    PROVE  /\ NoPass \in Process
           /\ \A c \in {"failed", "closing", "over"} : [NoPass EXCEPT !.pc = c] \in Process
<1>1. NoPass \in Process
  BY DEF StoreAssumption, NoPass, Process
<1> QED
  BY <1>1 DEF Process

(* A process that grades an attempt asks about an input of the model. *)
LEMMA CallType ==
    ASSUME StoreAssumption, TypeOK, NEW p \in Pass, NEW i \in Slot, pass[p].cur # NoAttempt
    PROVE  Call(p, i) \in Inputs
<1>1. pass[p] \in Process
  BY DEF TypeOK
<1>2. /\ pass[p].cur \in Attempt /\ pass[p].shown \in BOOLEAN
      /\ pass[p].version \in {0, 1} /\ pass[p].model \in {0, 1}
  BY <1>1 DEF Process
<1>3. Asserts[i] \in {"judge", "judge_agent"}
  BY DEF StoreAssumption, Slot
<1>4. OutputHash(p, pass[p].cur) \in Text \cup {None}
  BY <1>2 DEF OutputHash, Restored, TypeOK, TreeTypeOK, Worker, Kept
<1>5. CwdHash(pass[p].cur) \in SUBSET Author
  BY <1>2 DEF CwdHash, TypeOK, TreeTypeOK, Kept
<1> QED
  BY <1>2, <1>3, <1>4, <1>5 DEF Call, Inputs

LEMMA CountType ==
    ASSUME StoreAssumption, NEW ts
    PROVE  FreeName(ts) \in Nat
<1> DEFINE N == {n \in 1..(MaxRescores + 1) : \A m \in 1..n : Taken(ts, m)}
<1>1. IsFiniteSet(1..(MaxRescores + 1)) /\ N \subseteq 1..(MaxRescores + 1)
  BY FS_Interval DEF StoreAssumption
<1>2. Cardinality(N) \in Nat
  <2> HIDE DEF N
  <2> QED BY <1>1, FS_Subset, FS_CardinalityType
<1> QED
  BY <1>2 DEF FreeName

LEMMA TargetsType == \A scope : Targets(scope) \in SUBSET Attempt
  BY DEF Targets

LEMMA BeginType ==
    ASSUME TreeAssumption, StoreAssumption, TypeOK, NEW p \in Pass, Begin(p)
    PROVE  TypeOK'
<1>1. TreeTypeOK' /\ PlainTypeOK'
  <2>1. CASE \E q \in Pass : Live(q)
    BY <2>1, TreeMishap, TypeParts DEF Begin, settings, PlainTypeOK
  <2>2. CASE ~ \E q \in Pass : Live(q)
    BY <2>2, TypeParts DEF Begin, settings, PlainTypeOK, TreeTypeOK
  <2> QED BY <2>1, <2>2
<1>2. pass' \in [Pass -> Process]
  <2>1. PICK scope \in Scopes :
           pass' = [pass EXCEPT ![p].pc = IF Targets(scope) = {} THEN "failed" ELSE "grading",
                                ![p].scope = scope, ![p].todo = Targets(scope),
                                ![p].model = model, ![p].mem = Loaded]
    BY DEF Begin
  <2> DEFINE c == IF Targets(scope) = {} THEN "failed" ELSE "grading"
             w == [pass[p] EXCEPT !.pc = c, !.scope = scope, !.todo = Targets(scope),
                                  !.model = model, !.mem = Loaded]
  <2>2. c \in {"failed", "grading"} /\ scope \in SUBSET Task /\ Targets(scope) \in SUBSET Attempt
    BY TargetsType DEF StoreAssumption
  <2>3. pass[p] \in Process /\ model \in {0, 1} /\ Loaded \in SUBSET Inputs
    BY DEF TypeOK, Loaded, File
  <2>4. pass' = [pass EXCEPT ![p] = w]
    BY <2>1
  <2> HIDE DEF c
  <2>5. w \in Process
    BY <2>2, <2>3 DEF Process
  <2> HIDE DEF w
  <2> QED BY <2>4, <2>5 DEF TypeOK
<1>3. ReportsTypeOK' /\ cache' \in File /\ tmp' \in File /\ paid' \subseteq Inputs
  <2>1. UNCHANGED <<cache, tmp, reports, published, paid>>
    BY DEF Begin
  <2> QED BY <2>1, TypeParts DEF ReportsTypeOK
<1> QED
  BY <1>1, <1>2, <1>3, TypePartsNext

LEMMA EntryType ==
    ASSUME NEW a \in Attempt, NEW v \in {"graded", "error"}
    PROVE  Entry(a, v) \in Entries
  BY DEF Entry, Entries

(* What becomes of the run when it takes an outcome, or the score of one.   *)
Entered(a, v) == [pass[0] EXCEPT !.done = @ \cup {Entry(a, v)}]
Drained == [pass[0] EXCEPT !.pc = "draining", !.cur = NoAttempt,
                           !.slot = NoPass.slot, !.ev = NoPass.ev]

LEMMA OutcomeCases ==
    ASSUME TakeOutcome
    PROVE  \E a \in Outcomes :
              \/ /\ pass' = [pass EXCEPT ![0] = Drained] /\ limitHit'
              \/ /\ ErrorVerdict(a) = "error" /\ UNCHANGED limitHit
                 /\ pass' = [pass EXCEPT ![0] = Entered(a, "error")]
              \/ /\ ErrorVerdict(a) = "none" /\ UNCHANGED limitHit
                 /\ pass' = [pass EXCEPT ![0] = [pass[0] EXCEPT !.cur = a]]
<1>1. PICK a \in Outcomes :
          \/ Limited(a) /\ LeavesLoop
          \/ /\ ~ Limited(a) /\ UNCHANGED limitHit
             /\ IF ErrorVerdict(a) = "none" THEN pass' = [pass EXCEPT ![0].cur = a]
                ELSE Entering(a)
  BY DEF TakeOutcome
<1>2. CASE Limited(a) /\ LeavesLoop
  <2>1. pass' = [pass EXCEPT ![0] = Drained] /\ limitHit'
    BY <1>2 DEF LeavesLoop, Drained
  <2> QED BY <1>1, <2>1
<1>3. CASE /\ ~ Limited(a) /\ UNCHANGED limitHit
           /\ IF ErrorVerdict(a) = "none" THEN pass' = [pass EXCEPT ![0].cur = a]
              ELSE Entering(a)
  <2>1. CASE ErrorVerdict(a) = "none"
    BY <1>3, <2>1
  <2>2. CASE ErrorVerdict(a) # "none"
    <3>1. ErrorVerdict(a) = "error" /\ Entering(a)
      BY <1>3, <2>2 DEF ErrorVerdict
    <3>2. pass' = [pass EXCEPT ![0] = Entered(a, "error")]
      BY <3>1 DEF Entering, Entered
    <3> QED BY <1>1, <1>3, <3>1, <3>2
  <2> QED BY <2>1, <2>2
<1> QED
  BY <1>1, <1>2, <1>3

LEMMA DrainedType ==
    ASSUME StoreAssumption, TypeOK
    PROVE  /\ 0 \in Pass /\ Drained \in Process
           /\ Drained.pc = "draining" /\ Drained.cur = NoAttempt
           /\ Drained.slot = [i \in Slot |-> "waiting"] /\ Drained.done = pass[0].done
           /\ Drained.mem = pass[0].mem /\ Drained.ev = [i \in Slot |-> {}]
           /\ Drained.scope = pass[0].scope
<1>1. 0 \in Pass /\ pass[0] \in Process
  BY DEF StoreAssumption, Pass, TypeOK
<1>2. /\ NoPass.slot = [i \in Slot |-> "waiting"] /\ NoPass.ev = [i \in Slot |-> {}]
      /\ NoPass \in Process
  BY NoPassType DEF NoPass
<1> QED
  BY <1>1, <1>2 DEF Drained, Process

LEMMA EnteredType ==
    ASSUME StoreAssumption, TypeOK, NEW a \in Attempt, NEW v \in {"graded", "error"}
    PROVE  Entered(a, v) \in Process
<1> DEFINE e == Entry(a, v)
<1>1. e \in Entries
  BY EntryType
<1>2. pass[0] \in Process
  BY DEF StoreAssumption, Pass, TypeOK
<1> HIDE DEF e
<1>3. [pass[0] EXCEPT !.done = @ \cup {e}] \in Process
  BY <1>1, <1>2 DEF Process
<1> QED
  BY <1>3 DEF Entered, e

LEMMA TakeOutcomeType ==
    ASSUME StoreAssumption, TypeOK, TakeOutcome
    PROVE  TypeOK'
<1>1. PICK a \in Outcomes :
         \/ /\ pass' = [pass EXCEPT ![0] = Drained] /\ limitHit'
         \/ /\ ErrorVerdict(a) = "error" /\ UNCHANGED limitHit
            /\ pass' = [pass EXCEPT ![0] = Entered(a, "error")]
         \/ /\ ErrorVerdict(a) = "none" /\ UNCHANGED limitHit
            /\ pass' = [pass EXCEPT ![0] = [pass[0] EXCEPT !.cur = a]]
  BY OutcomeCases
<1>2. 0 \in Pass /\ a \in Attempt /\ pass[0] \in Process
  BY DEF StoreAssumption, Pass, Outcomes, TypeOK
<1>3. limitHit' \in BOOLEAN
  BY <1>1 DEF TypeOK, TakeOutcome, LeavesLoop
<1>4. [pass[0] EXCEPT !.cur = a] \in Process
  BY <1>2 DEF Process
<1>5. \E w \in Process : pass' = [pass EXCEPT ![0] = w]
  BY <1>1, <1>2, <1>4, DrainedType, EnteredType
<1> QED
  BY <1>2, <1>3, <1>5, OnlyPass DEF TakeOutcome

LEMMA TakeTargetCases ==
    ASSUME NEW p \in Pass, TakeTarget(p)
    PROVE  \E a \in pass[p].todo :
              \/ pass' = [pass EXCEPT ![p] = [pass[p] EXCEPT !.cur = a, !.todo = @ \ {a},
                                                            !.version = version, !.shown = shown]]
              \/ pass' = [pass EXCEPT ![p] = [NoPass EXCEPT !.pc = "failed"]]
<1>1. PICK a \in pass[p].todo :
         IF archive[a].json /\ archive[a].trajectory
         THEN pass' = [pass EXCEPT ![p].cur = a, ![p].todo = @ \ {a},
                                   ![p].version = version, ![p].shown = shown]
         ELSE pass' = [pass EXCEPT ![p] = [NoPass EXCEPT !.pc = "failed"]]
  BY DEF TakeTarget
<1>2. CASE archive[a].json /\ archive[a].trajectory
  BY <1>1, <1>2
<1>3. CASE ~ (archive[a].json /\ archive[a].trajectory)
  BY <1>1, <1>3
<1> QED
  BY <1>2, <1>3

LEMMA TakeTargetType ==
    ASSUME StoreAssumption, TypeOK, NEW p \in Pass, TakeTarget(p)
    PROVE  TypeOK'
<1>0. PICK a \in pass[p].todo :
         IF archive[a].json /\ archive[a].trajectory
         THEN pass' = [pass EXCEPT ![p].cur = a, ![p].todo = @ \ {a},
                                   ![p].version = version, ![p].shown = shown]
         ELSE pass' = [pass EXCEPT ![p] = [NoPass EXCEPT !.pc = "failed"]]
  BY DEF TakeTarget
<1> DEFINE both == archive[a].json /\ archive[a].trajectory
           w == [pass[p] EXCEPT !.cur = a, !.todo = @ \ {a}, !.version = version, !.shown = shown]
           f == [NoPass EXCEPT !.pc = "failed"]
<1>1. pass[p] \in Process /\ version \in {0, 1} /\ shown \in BOOLEAN
      /\ limitHit' \in BOOLEAN
  BY DEF TypeOK, TakeTarget
<1>2. CASE both /\ a \in Attempt
  <2>1. pass' = [pass EXCEPT ![p] = w]
    BY <1>0, <1>2
  <2>2. w \in Process
    BY <1>1, <1>2 DEF Process
  <2> HIDE DEF w
  <2> QED BY <1>1, <2>1, <2>2, OnlyPass DEF TakeTarget
<1>3. CASE ~ both
  <2>1. pass' = [pass EXCEPT ![p] = f]
    BY <1>0, <1>3
  <2>2. f \in Process
    BY NoPassType
  <2> HIDE DEF f
  <2> QED BY <1>1, <2>1, <2>2, OnlyPass DEF TakeTarget
<1>4. a \in Attempt
  BY <1>1 DEF Process
<1> QED
  BY <1>2, <1>3, <1>4

LEMMA ConsultType ==
    ASSUME StoreAssumption, TypeOK, NEW p \in Pass, NEW i \in Slot, Consult(p, i)
    PROVE  TypeOK'
<1> DEFINE hit == Get(pass[p].mem, Call(p, i))
           st == IF hit = {} THEN "asking" ELSE "done"
           w == [pass[p] EXCEPT !.ev[i] = hit, !.slot[i] = st]
<1>1. pass[p] \in Process
  BY DEF TypeOK
<1>2. hit \in SUBSET Inputs
  BY <1>1 DEF Get, Process
<1>3. st \in {"asking", "done"}
  OBVIOUS
<1>4. pass' = [pass EXCEPT ![p] = w]
  BY DEF Consult
<1>5. w \in Process
  <2> HIDE DEF hit, st
  <2> QED BY <1>1, <1>2, <1>3 DEF Process
<1> HIDE DEF w
<1> QED
  BY <1>4, <1>5, OnlyPass DEF Consult, TypeOK

(* An action of a pass on the cache files. *)
LEMMA PassAndFiles ==
    ASSUME TypeOK, cache' \in File, tmp' \in File, paid' \subseteq Inputs,
           pass' \in [Pass -> Process],
           UNCHANGED <<treeVars, runJson, reports, settings, limitHit, clock, edits, published,
                       beside>>
    PROVE  TypeOK'
<1>1. TreeTypeOK' /\ PlainTypeOK' /\ ReportsTypeOK'
  BY TypeParts, TreeStays DEF settings, PlainTypeOK, ReportsTypeOK
<1> QED
  BY <1>1, TypePartsNext

LEMMA AnswerType ==
    ASSUME StoreAssumption, TypeOK, NEW p \in Pass, NEW i \in Slot, Answer(p, i)
    PROVE  TypeOK'
<1> DEFINE c == Call(p, i)
           m == Put(pass[p].mem, c)
           w == [pass[p] EXCEPT !.slot[i] = "open", !.ev[i] = {c}, !.mem = m, !.fd = "tmp"]
<1>1. pass[p] \in Process
  BY DEF TypeOK
<1>2. c \in Inputs
  BY CallType DEF Answer, Grading
<1>3. m \in SUBSET Inputs
  <2> HIDE DEF c
  <2> QED BY <1>1, <1>2 DEF Put, Get, Process
<1>4. pass' = [pass EXCEPT ![p] = w]
  BY DEF Answer
<1>5. w \in Process
  <2> HIDE DEF c, m
  <2> QED BY <1>1, <1>2, <1>3 DEF Process
<1>6. pass' \in [Pass -> Process]
  <2> HIDE DEF w
  <2> QED BY <1>4, <1>5 DEF TypeOK
<1>7. tmp' \in File /\ cache' \in File /\ paid' \subseteq Inputs
  BY DEF Answer, TypeOK, File, Empty
<1> QED
  BY <1>6, <1>7, PassAndFiles DEF Answer

LEMMA OverwritesType ==
    ASSUME NEW file, NEW mem \in SUBSET Inputs
    PROVE  Overwrites(file, mem) \subseteq File
  BY DEF Overwrites, Dump, Torn, File

LEMMA WriteTmpType ==
    ASSUME StoreAssumption, TypeOK, NEW p \in Pass, NEW i \in Slot, WriteTmp(p, i)
    PROVE  TypeOK'
<1> DEFINE w == [pass[p] EXCEPT !.slot[i] = "written", !.fd = "closed"]
<1>1. pass[p] \in Process
  BY DEF TypeOK
<1>2. pass[p].mem \in SUBSET Inputs
  BY <1>1 DEF Process
<1>3. tmp' \in File /\ cache' \in File /\ paid' \subseteq Inputs
  <2>1. Overwrites(tmp, pass[p].mem) \subseteq File /\ Overwrites(cache, pass[p].mem) \subseteq File
    BY <1>2, OverwritesType
  <2> QED BY <2>1 DEF WriteTmp, TypeOK
<1>4. pass' = [pass EXCEPT ![p] = w]
  BY DEF WriteTmp
<1>5. w \in Process
  BY <1>1 DEF Process
<1>6. pass' \in [Pass -> Process]
  <2> HIDE DEF w
  <2> QED BY <1>4, <1>5 DEF TypeOK
<1> QED
  BY <1>3, <1>6, PassAndFiles DEF WriteTmp

LEMMA ReplaceType ==
    ASSUME StoreAssumption, TypeOK, NEW p \in Pass, NEW i \in Slot, Replace(p, i)
    PROVE  TypeOK'
<1>1. \A q \in Pass : pass[q] \in Process
  BY DEF TypeOK
<1>2. CASE tmp = Absent
  <2> DEFINE w == [pass[p] EXCEPT !.slot[i] = "failed", !.fd = "none"]
  <2>1. pass' = [pass EXCEPT ![p] = w] /\ UNCHANGED <<cache, tmp, paid>>
    BY <1>2 DEF Replace
  <2>2. w \in Process
    <3>1. pass[p] \in Process
      BY <1>1
    <3> QED BY <3>1 DEF Process
  <2>3. pass' \in [Pass -> Process]
    <3> HIDE DEF w
    <3> QED BY <2>1, <2>2 DEF TypeOK
  <2> QED BY <2>1, <2>3, PassAndFiles DEF Replace, TypeOK
<1>3. CASE tmp # Absent
  <2> DEFINE w(q) == IF q = p THEN [pass[p] EXCEPT !.slot[i] = "done", !.fd = "none"]
                     ELSE [pass[q] EXCEPT !.fd = Moved(@)]
  <2>1. pass' = [q \in Pass |-> w(q)] /\ cache' = tmp /\ tmp' = Absent /\ paid' = paid \cup tmp.calls
    BY <1>3 DEF Replace
  <2>2. ASSUME NEW q \in Pass PROVE w(q) \in Process
    <3>0. pass[p] \in Process /\ pass[q] \in Process
      BY <1>1
    <3>1. [pass[p] EXCEPT !.slot[i] = "done", !.fd = "none"] \in Process
      BY <3>0 DEF Process
    <3>2. Moved(pass[q].fd) \in {"none", "tmp", "cache", "gone", "closed"}
      BY <3>0 DEF Process, Moved
    <3>3. [pass[q] EXCEPT !.fd = Moved(@)] \in Process
      <4> DEFINE f == Moved(pass[q].fd)
      <4>1. [pass[q] EXCEPT !.fd = f] \in Process
        <5> HIDE DEF f
        <5> f \in {"none", "tmp", "cache", "gone", "closed"}
          BY <3>2 DEF f
        <5> QED BY <3>0 DEF Process
      <4> QED BY <4>1
    <3> QED BY <3>1, <3>3
  <2>3. pass' \in [Pass -> Process]
    <3> HIDE DEF w
    <3> QED BY <2>1, <2>2
  <2>4. cache' \in File /\ tmp' \in File /\ paid' \subseteq Inputs
    BY <2>1 DEF TypeOK, File, Absent
  <2> QED BY <2>3, <2>4, PassAndFiles DEF Replace
<1> QED
  BY <1>2, <1>3

LEMMA JudgeFailsCases ==
    ASSUME NEW p \in Pass, NEW i \in Slot, JudgeFails(p, i)
    PROVE  \E how \in {"failed", "exhausted"} :
              pass' = [pass EXCEPT ![p] = [pass[p] EXCEPT !.slot[i] = how]]
  BY DEF JudgeFails

LEMMA JudgeFailsType ==
    ASSUME TreeAssumption, StoreAssumption, TypeOK, NEW p \in Pass, NEW i \in Slot, JudgeFails(p, i)
    PROVE  TypeOK'
<1>0. PICK how \in {"failed", "exhausted"} :
         pass' = [pass EXCEPT ![p] = [pass[p] EXCEPT !.slot[i] = how]]
  BY JudgeFailsCases
<1> DEFINE w == [pass[p] EXCEPT !.slot[i] = how]
<1>1. TreeTypeOK' /\ PlainTypeOK' /\ ReportsTypeOK'
  BY TreeMishap, TypeParts DEF JudgeFails, PlainTypeOK, ReportsTypeOK
<1>2. pass[p] \in Process
  BY DEF TypeOK
<1>3. w \in Process
  BY <1>2 DEF Process
<1>4. pass' \in [Pass -> Process]
  <2> HIDE DEF w
  <2> QED BY <1>0, <1>3 DEF w, TypeOK
<1> QED
  BY <1>1, <1>4, TypeParts, TypePartsNext DEF JudgeFails

(* What a score makes of its pass. *)
Scored(p, v) == [pass[p] EXCEPT !.cur = NoAttempt, !.slot = NoPass.slot, !.ev = NoPass.ev,
                                !.done = @ \cup {Entry(pass[p].cur, v)}]

LEMMA ScoreCases ==
    ASSUME NEW p \in Pass, Score(p)
    PROVE  \/ /\ p = 0 /\ limitHit' /\ pass' = [pass EXCEPT ![p] = Drained]
           \/ /\ p # 0 /\ UNCHANGED limitHit
              /\ pass' = [pass EXCEPT ![p] = [NoPass EXCEPT !.pc = "failed"]]
           \/ /\ UNCHANGED limitHit
              /\ \E v \in {"graded", "error"} :
                    /\ p = 0 \/ v = "graded"
                    /\ pass' = [pass EXCEPT ![p] = Scored(p, v)]
  BY DEF Score, LeavesLoop, Drained, Scored

LEMMA ScoredType ==
    ASSUME StoreAssumption, TypeOK, NEW p \in Pass, NEW v \in {"graded", "error"},
           pass[p].cur \in Attempt
    PROVE  /\ Scored(p, v) \in Process
           /\ Scored(p, v).pc = pass[p].pc /\ Scored(p, v).cur = NoAttempt
           /\ Scored(p, v).slot = [i \in Slot |-> "waiting"]
           /\ Scored(p, v).ev = [i \in Slot |-> {}]
           /\ Scored(p, v).mem = pass[p].mem /\ Scored(p, v).fd = pass[p].fd
           /\ Scored(p, v).scope = pass[p].scope /\ Scored(p, v).todo = pass[p].todo
           /\ Scored(p, v).done = pass[p].done \cup {Entry(pass[p].cur, v)}
<1> DEFINE e == Entry(pass[p].cur, v)
           w == [pass[p] EXCEPT !.cur = NoAttempt, !.slot = NoPass.slot, !.ev = NoPass.ev,
                                !.done = @ \cup {e}]
<1>1. pass[p] \in Process /\ e \in Entries
  BY EntryType DEF TypeOK
<1>2. /\ NoPass.slot = [i \in Slot |-> "waiting"] /\ NoPass.ev = [i \in Slot |-> {}]
      /\ NoPass \in Process
  BY NoPassType DEF NoPass
<1> HIDE DEF e
<1>3. w \in Process
  BY <1>1, <1>2 DEF Process
<1>4. /\ w.pc = pass[p].pc /\ w.cur = NoAttempt
      /\ w.slot = [i \in Slot |-> "waiting"] /\ w.ev = [i \in Slot |-> {}]
      /\ w.mem = pass[p].mem /\ w.fd = pass[p].fd /\ w.scope = pass[p].scope
      /\ w.todo = pass[p].todo /\ w.done = pass[p].done \cup {e}
  BY <1>1, <1>2 DEF Process
<1>5. Scored(p, v) = w
  BY DEF Scored, e
<1> HIDE DEF w
<1> QED
  BY <1>3, <1>4, <1>5 DEF e

LEMMA ScoreType ==
    ASSUME StoreAssumption, TypeOK, NEW p \in Pass, Score(p)
    PROVE  TypeOK'
<1>1. pass[p].cur \in Attempt
  BY DEF Score, Grading, Process, TypeOK
<1>2. limitHit' \in BOOLEAN
  BY ScoreCases DEF TypeOK, Score, LeavesLoop
<1>3. \E w \in Process : pass' = [pass EXCEPT ![p] = w]
  BY <1>1, ScoreCases, ScoredType, DrainedType, NoPassType
<1> QED
  BY <1>2, <1>3, OnlyPass DEF Score

LEMMA RunCleansType ==
    ASSUME TreeAssumption, StoreAssumption, TypeOK, RunCleans
    PROVE  TypeOK'
<1>1. TreeTypeOK'
  <2>1. [Queued EXCEPT !.stage = "dead"] \in Worker
    <3>1. Queued \in Worker /\ "dead" \in Stages
      BY DEF Queued, Worker, Stages, EndsWith, TreeAssumption
    <3> QED BY <3>1 DEF Worker
  <2>2. at' \in [Attempt -> Worker]
    BY <2>1 DEF RunCleans
  <2>3. dir' \in [Dir -> Directory] /\ stream' \in [Dir -> SUBSET Author]
    BY DEF RunCleans, Directory
  <2>4. kind' \in Plans /\ mishaps' \in 0..MaxMishaps /\ archive' \in [Attempt -> Kept]
    BY DEF RunCleans, TypeOK, TreeTypeOK
  <2> QED BY <2>2, <2>3, <2>4 DEF TreeTypeOK
<1>2. 0 \in Pass /\ pass[0] \in Process
  BY DEF StoreAssumption, Pass, TypeOK
<1>3. pass' \in [Pass -> Process]
  <2>1. [pass[0] EXCEPT !.pc = "naming"] \in Process
    BY <1>2 DEF Process
  <2> QED BY <1>2, <2>1 DEF RunCleans, TypeOK
<1>4. PlainTypeOK' /\ ReportsTypeOK'
  BY TypeParts DEF RunCleans, settings, PlainTypeOK, ReportsTypeOK
<1> QED
  BY <1>1, <1>3, <1>4, TypeParts, TypePartsNext DEF RunCleans

LEMMA AllGradedType ==
    ASSUME StoreAssumption, TypeOK, NEW p \in Pass, AllGraded(p)
    PROVE  TypeOK'
<1>1. [pass[p] EXCEPT !.pc = "naming"] \in Process
  <2>1. pass[p] \in Process
    BY DEF TypeOK
  <2> QED BY <2>1 DEF Process
<1>2. pass' = [pass EXCEPT ![p] = [pass[p] EXCEPT !.pc = "naming"]]
  BY DEF AllGraded
<1> QED
  BY <1>1, <1>2, OnlyPass DEF AllGraded, TypeOK

LEMMA NameReportType ==
    ASSUME StoreAssumption, TypeOK, NEW p \in Pass, NameReport(p)
    PROVE  TypeOK'
<1> DEFINE k == IF p = 0 THEN 1 ELSE FreeName(clock)
           w == [pass[p] EXCEPT !.pc = "writing", !.ts = clock, !.n = k]
<1>1. k \in Nat
  BY CountType
<1>2. pass[p] \in Process /\ clock \in 0..MaxClock
  BY DEF TypeOK
<1>3. w \in Process
  <2> HIDE DEF k
  <2> QED BY <1>1, <1>2 DEF Process
<1>4. pass' = [pass EXCEPT ![p] = w]
  BY DEF NameReport
<1> HIDE DEF w
<1> QED
  BY <1>3, <1>4, OnlyPass DEF NameReport, TypeOK

LEMMA WriteReportType ==
    ASSUME StoreAssumption, TypeOK, NEW p \in Pass, WriteReport(p)
    PROVE  TypeOK'
<1> DEFINE c == IF p = 0 THEN "closing" ELSE "over"
           w == [NoPass EXCEPT !.pc = c]
<1>1. w \in Process
  BY NoPassType
<1>2. pass' \in [Pass -> Process]
  <2>1. pass' = [pass EXCEPT ![p] = w]
    BY DEF WriteReport
  <2> HIDE DEF w
  <2> QED BY <1>1, <2>1 DEF TypeOK
<1>3. Report(p) \in Published
  <2>1. pass[p] \in Process
    BY DEF TypeOK
  <2> QED BY <2>1 DEF Report, Process, Published
<1>4. ReportsTypeOK'
  <2>1. published \in Seq(Published) /\ published' = Append(published, Report(p))
        /\ reports' \subseteq reports \cup {Report(p)}
    BY DEF TypeOK, WriteReport
  <2>2. published' \in Seq(Published)
    BY <1>3, <2>1
  <2>3. ASSUME NEW r \in reports' PROVE \E j \in DOMAIN published' : r = published'[j]
    <3>1. CASE r = Report(p)
      <4>1. Len(published) + 1 \in DOMAIN published' /\ published'[Len(published) + 1] = r
        BY <1>3, <2>1, <3>1
      <4> QED BY <4>1
    <3>2. CASE r \in reports
      <4>1. PICK j \in DOMAIN published : r = published[j]
        BY <3>2 DEF TypeOK
      <4>2. j \in DOMAIN published' /\ published'[j] = published[j]
        BY <1>3, <2>1
      <4> QED BY <4>1, <4>2
    <3> QED BY <2>1, <3>1, <3>2
  <2> QED BY <2>2, <2>3 DEF ReportsTypeOK
<1>5. TreeTypeOK' /\ PlainTypeOK'
  BY TypeParts, TreeStays DEF WriteReport, settings, PlainTypeOK
<1> QED
  BY <1>2, <1>4, <1>5, TypeParts, TypePartsNext DEF WriteReport

LEMMA WriteRunJsonType ==
    ASSUME StoreAssumption, TypeOK, WriteRunJson
    PROVE  TypeOK'
<1>1. 0 \in Pass /\ pass[0] \in Process
  BY DEF StoreAssumption, Pass, TypeOK
<1>2. pass' \in [Pass -> Process]
  <2>1. [pass[0] EXCEPT !.pc = "over"] \in Process
    BY <1>1 DEF Process
  <2> QED BY <1>1, <2>1 DEF WriteRunJson, TypeOK
<1>3. TreeTypeOK' /\ PlainTypeOK' /\ ReportsTypeOK'
  BY TypeParts, TreeStays DEF WriteRunJson, settings, PlainTypeOK, ReportsTypeOK
<1> QED
  BY <1>2, <1>3, TypeParts, TypePartsNext DEF WriteRunJson

LEMMA PassDiesType ==
    ASSUME TreeAssumption, StoreAssumption, TypeOK, NEW p \in Pass, PassDies(p)
    PROVE  TypeOK'
<1>1. TreeTypeOK' /\ PlainTypeOK' /\ ReportsTypeOK'
  BY TreeMishap, TypeParts DEF PassDies, settings, PlainTypeOK, ReportsTypeOK
<1>2. pass' \in [Pass -> Process]
  BY NoPassType DEF PassDies, TypeOK
<1> QED
  BY <1>1, <1>2, TypeParts, TypePartsNext DEF PassDies

LEMMA EditOrTickType ==
    ASSUME StoreAssumption, TypeOK, Edit \/ Tick
    PROVE  TypeOK'
<1>1. PlainTypeOK'
  <2>0. PlainTypeOK
    BY TypeParts
  <2>1. CASE Edit
    <3>1. edits' \in 0..MaxEdits
      BY <2>0, <2>1 DEF Edit, PlainTypeOK, StoreAssumption
    <3>2. version' \in {0, 1} /\ shown' \in BOOLEAN /\ model' \in {0, 1}
      <4>1. 1 - version \in {0, 1} /\ 1 - model \in {0, 1} /\ (~ shown) \in BOOLEAN
        BY <2>0 DEF PlainTypeOK
      <4> QED BY <2>0, <2>1, <4>1 DEF Edit, PlainTypeOK
    <3>3. UNCHANGED <<runJson, beside, limitHit, clock>>
      BY <2>1 DEF Edit
    <3> QED BY <2>0, <3>1, <3>2, <3>3 DEF PlainTypeOK
  <2>2. CASE Tick
    <3>1. clock' \in 0..MaxClock
      BY <2>0, <2>2 DEF Tick, PlainTypeOK, StoreAssumption
    <3>2. UNCHANGED <<runJson, beside, limitHit, edits, version, shown, model>>
      BY <2>2 DEF Tick, settings
    <3> QED BY <2>0, <3>1, <3>2 DEF PlainTypeOK
  <2> QED BY <2>1, <2>2
<1>2. UNCHANGED <<treeVars, cache, tmp, reports, published, pass, paid>>
  BY DEF Edit, Tick
<1>3. TreeTypeOK' /\ ReportsTypeOK'
  BY <1>2, TypeParts, TreeStays DEF ReportsTypeOK
<1> QED
  BY <1>1, <1>2, <1>3, TypeParts, TypePartsNext

LEMMA StoreStays ==
    ASSUME TypeOK, TreeTypeOK', UNCHANGED storeVars
    PROVE  TypeOK'
  BY TypeParts, TypePartsNext DEF storeVars, settings, PlainTypeOK, ReportsTypeOK

LEMMA TypeStep ==
    ASSUME TreeAssumption, StoreAssumption, TypeOK, [Next]_vars
    PROVE  TypeOK'
<1>1. CASE TreeNext /\ UNCHANGED storeVars
  BY <1>1, TypeTree, TypeParts, StoreStays
<1>2. CASE UNCHANGED vars
  BY <1>2, TypeParts, TreeStays, StoreStays DEF vars
<1>3. ASSUME NEW p \in Pass, NEW i \in Slot,
             Consult(p, i) \/ Answer(p, i) \/ WriteTmp(p, i) \/ Replace(p, i) \/ JudgeFails(p, i)
      PROVE  TypeOK'
  BY <1>3, ConsultType, AnswerType, WriteTmpType, ReplaceType, JudgeFailsType
<1>4. ASSUME NEW p \in Pass,
             \/ Begin(p) \/ TakeTarget(p) \/ AllGraded(p) \/ Score(p) \/ NameReport(p)
             \/ WriteReport(p) \/ PassDies(p)
      PROVE  TypeOK'
  BY <1>4, BeginType, TakeTargetType, AllGradedType, ScoreType, NameReportType,
     WriteReportType, PassDiesType
<1>5. CASE TakeOutcome \/ RunCleans \/ WriteRunJson \/ Edit \/ Tick
  BY <1>5, TakeOutcomeType, RunCleansType, WriteRunJsonType, EditOrTickType
<1> QED
  BY <1>1, <1>2, <1>3, <1>4, <1>5 DEF Next

(* In every reachable state the files, the processes and the histories hold *)
(* values of their kind, for any plan, criteria and number of rescores.     *)
THEOREM StoreTypes == Spec => []TypeOK
<1>1. Init => TypeOK
  BY TypeInit, TreeAssumption, StoreAssumption
<1>2. TypeOK /\ [Next]_vars => TypeOK'
  BY TypeStep, TreeAssumption, StoreAssumption
<1> QED
  BY <1>1, <1>2, PTL DEF Spec

----------------------------------------------------------------------------
(* The evidence of an attempt.  Nobody else writes in its directory or in   *)
(* its raw stream, so that the archive takes nothing else from them.        *)
Own ==
    /\ \A a \in Attempt : dir[a].files \subseteq {a, Fixture} /\ stream[a] \subseteq {a}
    /\ EvidenceIsOwn

LEMMA OwnStays ==
    ASSUME Own, UNCHANGED <<kind, dir, stream, archive>>
    PROVE  Own'
  BY DEF Own, EvidenceIsOwn, SharesCwd

LEMMA ArchivedOwn ==
    ASSUME TreeAssumption, TreeTypeOK, Own, UNCHANGED kind,
           NEW a \in Attempt, NEW files \in SUBSET {a, Fixture}, Archived(a, files)
    PROVE  Own'
<1> DEFINE raw == IF HasResult(a) THEN stream[RawPath(a)] ELSE {}
<1>1. archive' = [archive EXCEPT ![a].there = TRUE, ![a].files = files, ![a].raw = raw]
      /\ UNCHANGED <<dir, stream>>
  BY DEF Archived
<1>2. raw \subseteq {a} \/ (Provider = "opencode" /\ SharesCwd(a))
  BY CwdIsDir DEF Own
<1> HIDE DEF raw
<1>3. archive'[a].files = files /\ archive'[a].raw = raw
  BY <1>1 DEF TreeTypeOK, Kept
<1>4. \A b \in Attempt : b # a => archive'[b] = archive[b]
  BY <1>1 DEF TreeTypeOK
<1> QED
  BY <1>1, <1>2, <1>3, <1>4 DEF Own, EvidenceIsOwn, SharesCwd

LEMMA OwnStep ==
    ASSUME TreeAssumption, TypeOK, Own, [Next]_vars
    PROVE  Own'
<1>0. TreeTypeOK
  BY DEF TypeOK
<1>1. ASSUME NEW a \in Attempt, MakeCwd(a) PROVE Own'
  <2>1. \A b \in Attempt : dir'[b].files \subseteq {b, Fixture}
    BY <1>0, <1>1, NamesApart, CwdIsDir DEF MakeCwd, Own, TreeTypeOK, Directory, Dir
  <2> QED BY <1>1, <2>1 DEF MakeCwd, Own, EvidenceIsOwn, SharesCwd
<1>2. ASSUME NEW a \in Attempt, NEW s \in Skill, OpenCopy(a, s) PROVE Own'
  <2>1. \A b \in Attempt : dir'[b].files = dir[b].files
    BY <1>0, <1>2, CwdIsDir DEF OpenCopy, TreeTypeOK, Directory, Dir
  <2> QED BY <1>2, <2>1 DEF OpenCopy, Own, EvidenceIsOwn, SharesCwd
<1>3. ASSUME NEW a \in Attempt, WriteCopy(a) PROVE Own'
  <2>1. \A b \in Attempt : dir'[b].files = dir[b].files
    BY <1>0, <1>3, CwdIsDir DEF WriteCopy, TreeTypeOK, Directory, Dir
  <2> QED BY <1>3, <2>1 DEF WriteCopy, Own, EvidenceIsOwn, SharesCwd
<1>4. ASSUME NEW a \in Attempt, StageMcp(a) PROVE Own'
  <2>1. \A b \in Attempt : dir'[b].files = dir[b].files
    BY <1>0, <1>4, NamesApart DEF StageMcp, TreeTypeOK, Directory, Dir
  <2> QED BY <1>4, <2>1 DEF StageMcp, Own, EvidenceIsOwn, SharesCwd
<1>5. ASSUME NEW a \in Attempt, Start(a) PROVE Own'
  <2>1. \A b \in Attempt : stream'[b] \subseteq {b}
    BY <1>0, <1>5, NamesApart, CwdIsDir DEF Start, Own, TreeTypeOK, Dir
  <2> QED BY <1>5, <2>1 DEF Start, Own, EvidenceIsOwn, SharesCwd
<1>6. ASSUME NEW a \in Attempt, Work(a) PROVE Own'
  <2>1. \A b \in Attempt : stream'[b] \subseteq {b}
    BY <1>0, <1>6, NamesApart, CwdIsDir DEF Work, Own, TreeTypeOK, Dir
  <2>2. \A b \in Attempt : dir'[b].files \subseteq {b, Fixture}
    BY <1>0, <1>6, NamesApart, CwdIsDir DEF Work, Own, TreeTypeOK, Directory, Dir
  <2> QED BY <1>6, <2>1, <2>2 DEF Work, Own, EvidenceIsOwn, SharesCwd
<1>7. ASSUME NEW a \in Attempt, Mirror(a) PROVE Own'
  <2> DEFINE files == IF SharesCwd(a) THEN {} ELSE dir[Cwd(a)].files
  <2>1. files \in SUBSET {a, Fixture}
    BY CwdIsDir DEF Own
  <2>2. Archived(a, files)
    BY <1>7 DEF Mirror
  <2> HIDE DEF files
  <2> QED BY <1>0, <1>7, <2>1, <2>2, ArchivedOwn DEF Mirror, Archived
<1>8. ASSUME NEW a \in Attempt, MirrorFails(a) PROVE Own'
  <2>1. PICK files \in SUBSET dir[Cwd(a)].files : Archived(a, files)
    BY <1>8 DEF MirrorFails
  <2>2. files \in SUBSET {a, Fixture}
    BY <1>8, CwdIsDir DEF Own, MirrorFails
  <2> QED BY <1>0, <2>1, <2>2, ArchivedOwn DEF Archived
<1>9. ASSUME NEW a \in Attempt, Record(a) PROVE Own'
  <2>1. \A b \in Attempt : archive'[b].files = archive[b].files /\ archive'[b].raw = archive[b].raw
    BY <1>0, <1>9 DEF Record, TreeTypeOK, Kept
  <2> QED BY <1>9, <2>1 DEF Record, Own, EvidenceIsOwn, SharesCwd
<1>10. CASE PoolBreaks
  BY <1>10, OwnStays DEF PoolBreaks
<1>11. ASSUME NEW a \in Attempt,
              \/ RateLimited(a) \/ Returns(a) \/ Fails(a)
              \/ Exhausted(a) \/ Raises(a) \/ WorkerDies(a) \/ KillWorker(a)
       PROVE  Own'
  <2>1. UNCHANGED <<kind, dir, stream, archive>>
    BY <1>11 DEF RateLimited, Returns, Fails, Ends, Exhausted, Raises, WorkerDies, KillWorker
  <2> QED BY <2>1, OwnStays
<1>12. CASE RunCleans
  <2>1. \A b \in Attempt : dir'[b].files = {} /\ stream'[b] = {}
    BY <1>12 DEF RunCleans, Dir
  <2> QED BY <1>12, <2>1 DEF RunCleans, Own, EvidenceIsOwn, SharesCwd
<1>13. CASE \/ UNCHANGED vars \/ TakeOutcome \/ WriteRunJson \/ Edit \/ Tick
  BY <1>13, OwnStays DEF vars, treeVars, TakeOutcome, WriteRunJson, Edit, Tick
<1>14. ASSUME NEW p \in Pass,
              \/ Begin(p) \/ TakeTarget(p) \/ AllGraded(p) \/ Score(p) \/ NameReport(p)
              \/ WriteReport(p) \/ PassDies(p)
       PROVE  Own'
  <2>1. UNCHANGED <<kind, dir, stream, archive>>
    BY <1>14 DEF Begin, TakeTarget, AllGraded, Score, NameReport, WriteReport, PassDies, treeVars
  <2> QED BY <2>1, OwnStays
<1>15. ASSUME NEW p \in Pass, NEW i \in Slot,
              Consult(p, i) \/ Answer(p, i) \/ WriteTmp(p, i) \/ Replace(p, i) \/ JudgeFails(p, i)
       PROVE  Own'
  <2>1. UNCHANGED <<kind, dir, stream, archive>>
    BY <1>15 DEF Consult, Answer, WriteTmp, Replace, JudgeFails, treeVars
  <2> QED BY <2>1, OwnStays
<1> QED
  BY <1>1, <1>2, <1>3, <1>4, <1>5, <1>6, <1>7, <1>8, <1>9, <1>10, <1>11, <1>12, <1>13, <1>14, <1>15
     DEF Next, TreeNext

(* The archive of an attempt holds nothing that another attempt wrote, for  *)
(* any number of attempts and harness; only the raw stream of an opencode   *)
(* trigger without a fixture is exempt.                                     *)
THEOREM Evidence == Spec => []EvidenceIsOwn
<1>1. Init => Own
  BY DEF Init, TreeInit, Own, EvidenceIsOwn, Dir
<1>2. TypeOK /\ Own /\ [Next]_vars => Own'
  BY OwnStep, TreeAssumption
<1>3. Own => EvidenceIsOwn
  BY DEF Own
<1> QED
  BY <1>1, <1>2, <1>3, StoreTypes, PTL DEF Spec

----------------------------------------------------------------------------
(* How a worker is done with an attempt without an outcome of its own.      *)
LEMMA GivesUp ==
    ASSUME TreeTypeOK, NEW a \in Attempt,
           Exhausted(a) \/ Raises(a) \/ WorkerDies(a) \/ KillWorker(a)
    PROVE  /\ at'[a].stage \in {"failed", "exhausted", "dead"}
           /\ at'[a].end = "none" /\ at'[a].left = {} /\ at'[a].open = at[a].open
           /\ ~ Over(a) /\ UNCHANGED <<kind, dir, stream, archive>>
           /\ \A b \in Attempt \ {a} : at'[b] = at[b]
<1>1. /\ ~ Over(a) /\ UNCHANGED <<kind, dir, stream, archive>>
  BY DEF Exhausted, Raises, WorkerDies, KillWorker, Over, Begun
<1>2. at[a] \in Worker
  BY DEF TreeTypeOK
<1>3. ASSUME NEW stage
      PROVE  LET w == Left(at[a], stage)
                 v == [w EXCEPT !.agent = FALSE]
             IN  /\ w.stage = stage /\ w.end = "none" /\ w.left = {} /\ w.open = at[a].open
                 /\ v.stage = stage /\ v.end = "none" /\ v.left = {} /\ v.open = at[a].open
  BY <1>2 DEF Left, Worker
<1>4. \E stage \in {"failed", "exhausted", "dead"} :
         \/ at' = [at EXCEPT ![a] = Left(at[a], stage)]
         \/ at' = [at EXCEPT ![a] = [Left(at[a], stage) EXCEPT !.agent = FALSE]]
  BY DEF Exhausted, Raises, WorkerDies, KillWorker
<1> QED
  BY <1>1, <1>3, <1>4 DEF TreeTypeOK

(* What a broken pool does at once. *)
LEMMA BreaksOnly ==
    ASSUME TreeTypeOK, PoolBreaks, NEW a \in Attempt
    PROVE  /\ at'[a].stage = at[a].stage /\ at'[a].end = at[a].end /\ at'[a].text = at[a].text
           /\ at'[a].left = at[a].left /\ at'[a].open = at[a].open
           /\ at'[a].broken = (at[a].broken \/ ~ Answered(a))
<1> DEFINE b == at[a].broken \/ ~ Answered(a)
<1>1. at'[a] = [at[a] EXCEPT !.broken = b]
  BY DEF PoolBreaks
<1>2. at[a] \in Worker
  BY DEF TreeTypeOK
<1> HIDE DEF b
<1>3. /\ at'[a].stage = at[a].stage /\ at'[a].end = at[a].end /\ at'[a].text = at[a].text
      /\ at'[a].left = at[a].left /\ at'[a].open = at[a].open /\ at'[a].broken = b
  BY <1>1, <1>2 DEF Worker
<1> QED
  BY <1>3 DEF b

(* The copies of skills.  A worker that is past the staging of a skill finds *)
(* it whole, or another worker of its directory has it open, if only because *)
(* it failed or died with the file open.                                     *)
Copied(a, s) ==
    dir[Cwd(a)].skills[s] = "whole" \/ \E b \in Attempt : Cwd(b) = Cwd(a) /\ s \in at[b].open

StagedOne(a) ==
    /\ at[a].left \cap Excluded = {} /\ at[a].open \cap Excluded = {}
    /\ at[a].stage = "queued" => at[a].left = Skill \ Excluded
    /\ at[a].stage \in {"queued", "ready", "running"} => at[a].open = {}
    /\ at[a].stage \in {"ready", "running"} => at[a].left = {}
    /\ at[a].stage \in {"staging", "ready", "running"} =>
          \A s \in Skill \ Excluded : s \in at[a].left \/ Copied(a, s)

NotExcluded == \A d \in Dir, s \in Excluded : dir[d].skills[s] = "absent"

Staged == NotExcluded /\ \A a \in Attempt : StagedOne(a)

LEMMA StagedWhole == TreeAssumption /\ Staged => SkillsWhole
<1> SUFFICES ASSUME TreeAssumption, Staged, NEW a \in Attempt, NEW s \in Skill,
                    at[a].stage \in {"ready", "running"}
             PROVE  IF s \in Excluded THEN dir[Cwd(a)].skills[s] = "absent"
                    ELSE \/ dir[Cwd(a)].skills[s] = "whole"
                         \/ \E b \in Attempt \ {a} : Cwd(b) = Cwd(a) /\ s \in at[b].open
  BY DEF SkillsWhole
<1>1. CASE s \in Excluded
  <2>1. dir[Cwd(a)].skills[s] = "absent"
    BY <1>1, CwdIsDir DEF Staged, NotExcluded
  <2> QED BY <1>1, <2>1
<1>2. CASE s \notin Excluded
  <2>1. Copied(a, s) /\ at[a].open = {}
    BY <1>2 DEF Staged, StagedOne
  <2> QED BY <1>2, <2>1 DEF Copied
<1> QED
  BY <1>1, <1>2

(* A worker moves on in a way that does not touch a copy. *)
MovesOn(b) ==
    /\ at'[b].open = at[b].open
    /\ \/ /\ at'[b].left = at[b].left
          /\ \/ at'[b].stage = at[b].stage
             \/ at[b].stage = "queued" /\ at'[b].stage = "staging"
             \/ /\ at[b].stage = "staging" /\ at'[b].stage = "ready"
                /\ at[b].left = {} /\ at[b].open = {}
             \/ at[b].stage \in {"ready", "running"} /\ at'[b].stage \in {"ready", "running"}
       \/ /\ at'[b].left \subseteq at[b].left
          /\ at'[b].stage \notin {"queued", "staging", "ready", "running"}

LEMMA StagedStays ==
    ASSUME Staged, UNCHANGED kind,
           \A d \in Dir : dir'[d].skills = dir[d].skills,
           \A b \in Attempt : MovesOn(b)
    PROVE  Staged'
<1>1. NotExcluded'
  BY DEF Staged, NotExcluded
<1>2. ASSUME NEW a \in Attempt, NEW s \in Skill PROVE Copied(a, s)' <=> Copied(a, s)
  <2>1. \A b \in Attempt : Cwd(b)' = Cwd(b) /\ at'[b].open = at[b].open
    BY DEF Cwd, SharesCwd, MovesOn
  <2>2. dir'[Cwd(a)].skills = dir[Cwd(a)].skills
    BY CwdIsDir
  <2> QED BY <2>1, <2>2 DEF Copied
<1>3. ASSUME NEW a \in Attempt PROVE StagedOne(a)'
  <2>1. StagedOne(a) /\ MovesOn(a)
    BY DEF Staged
  <2> QED BY <1>2, <2>1 DEF StagedOne, MovesOn
<1> QED
  BY <1>1, <1>3 DEF Staged

(* The first half of a copy: only the one who opened it must wait for it.   *)
LEMMA OpenCopyStaged ==
    ASSUME TreeAssumption, TreeTypeOK, Staged, NEW a \in Attempt, NEW s \in Skill, OpenCopy(a, s)
    PROVE  Staged'
<1> DEFINE w == [at[a] EXCEPT !.open = {s}, !.left = @ \ {s}]
<1>1. at' = [at EXCEPT ![a] = w] /\ UNCHANGED kind
  BY DEF OpenCopy
<1>2. at'[a] = w /\ \A b \in Attempt : b # a => at'[b] = at[b]
  BY <1>1 DEF TreeTypeOK
<1>3. w.open = {s} /\ w.left = at[a].left \ {s} /\ w.stage = "staging"
  BY DEF TreeTypeOK, Worker, OpenCopy
<1> HIDE DEF w
<1>4. s \notin Excluded /\ at[a].open = {}
  BY DEF OpenCopy, Staged, StagedOne
<1>5. ASSUME NEW d \in Dir, NEW t \in Skill
      PROVE  dir'[d].skills[t] = IF d = Cwd(a) /\ t = s THEN "cut" ELSE dir[d].skills[t]
  BY CwdIsDir DEF OpenCopy, TreeTypeOK, Directory
<1>6. \A b \in Attempt : Cwd(b)' = Cwd(b)
  BY <1>1 DEF Cwd, SharesCwd
<1>7. NotExcluded'
  BY <1>4, <1>5 DEF Staged, NotExcluded, TreeAssumption
<1>8. ASSUME NEW b \in Attempt, NEW t \in Skill, Copied(b, t) PROVE Copied(b, t)'
  <2>1. CASE Cwd(b) = Cwd(a) /\ t = s
    BY <1>2, <1>3, <1>6, <2>1 DEF Copied
  <2>2. CASE ~ (Cwd(b) = Cwd(a) /\ t = s)
    <3>1. dir'[Cwd(b)].skills[t] = dir[Cwd(b)].skills[t]
      BY <1>5, <2>2, CwdIsDir
    <3> QED BY <1>2, <1>4, <1>6, <1>8, <3>1 DEF Copied
  <2> QED BY <2>1, <2>2
<1>9. ASSUME NEW b \in Attempt PROVE StagedOne(b)'
  <2>1. StagedOne(b)
    BY DEF Staged
  <2>2. CASE b = a
    <3>1. Copied(a, s)'
      BY <1>2, <1>3 DEF Copied
    <3>2. at[a].stage = "staging"
      BY DEF OpenCopy
    <3>3. ASSUME NEW t \in Skill \ Excluded PROVE t \in w.left \/ Copied(a, t)'
      BY <1>3, <1>8, <2>1, <2>2, <3>1, <3>2, <3>3 DEF StagedOne
    <3>4. w.left \cap Excluded = {} /\ w.open \cap Excluded = {}
      BY <1>3, <1>4, <2>1, <2>2 DEF StagedOne
    <3> QED BY <1>2, <1>3, <2>2, <3>3, <3>4 DEF StagedOne
  <2>3. CASE b # a
    BY <1>2, <1>8, <2>1, <2>3 DEF StagedOne
  <2> QED BY <2>2, <2>3
<1> QED
  BY <1>7, <1>9 DEF Staged

(* The second half: what was open is whole for all who share the directory. *)
LEMMA WriteCopyStaged ==
    ASSUME TreeAssumption, TreeTypeOK, Staged, NEW a \in Attempt, WriteCopy(a)
    PROVE  Staged'
<1>1. /\ \A b \in Attempt : at'[b].stage = at[b].stage /\ at'[b].left = at[b].left
      /\ at'[a].open = {} /\ \A b \in Attempt : b # a => at'[b].open = at[b].open
      /\ UNCHANGED kind
  BY DEF WriteCopy, TreeTypeOK, Worker
<1>2. ASSUME NEW d \in Dir, NEW t \in Skill
      PROVE  dir'[d].skills[t] = IF d = Cwd(a) /\ t \in at[a].open THEN "whole" ELSE dir[d].skills[t]
  BY CwdIsDir DEF WriteCopy, TreeTypeOK, Directory
<1>3. at[a].open \cap Excluded = {}
  BY DEF Staged, StagedOne
<1>4. \A b \in Attempt : Cwd(b)' = Cwd(b)
  BY <1>1 DEF Cwd, SharesCwd
<1>5. NotExcluded'
  BY <1>2, <1>3 DEF Staged, NotExcluded, TreeAssumption
<1>6. ASSUME NEW b \in Attempt, NEW t \in Skill, Copied(b, t) PROVE Copied(b, t)'
  <2>1. Cwd(b) \in Dir
    BY CwdIsDir
  <2>2. CASE Cwd(b) = Cwd(a) /\ t \in at[a].open
    BY <1>2, <1>4, <2>1, <2>2 DEF Copied
  <2>3. CASE ~ (Cwd(b) = Cwd(a) /\ t \in at[a].open)
    <3>1. dir'[Cwd(b)].skills[t] = dir[Cwd(b)].skills[t]
      BY <1>2, <2>1, <2>3
    <3> QED BY <1>1, <1>4, <1>6, <2>3, <3>1 DEF Copied
  <2> QED BY <2>2, <2>3
<1>7. ASSUME NEW b \in Attempt PROVE StagedOne(b)'
  <2>1. StagedOne(b)
    BY DEF Staged
  <2> QED BY <1>1, <1>6, <2>1 DEF StagedOne
<1> QED
  BY <1>5, <1>7 DEF Staged

LEMMA CleansStaged ==
    ASSUME TreeAssumption, RunCleans
    PROVE  Staged'
<1>1. NotExcluded'
  BY DEF NotExcluded, RunCleans, TreeAssumption
<1>2. ASSUME NEW a \in Attempt PROVE StagedOne(a)'
  <2>1. at'[a].stage = "dead" /\ at'[a].left = Skill \ Excluded /\ at'[a].open = {}
    BY DEF RunCleans, Queued
  <2> QED BY <2>1 DEF StagedOne
<1> QED
  BY <1>1, <1>2 DEF Staged

LEMMA StagedStep ==
    ASSUME TreeAssumption, TypeOK, Staged, [Next]_vars
    PROVE  Staged'
<1>0. TreeTypeOK
  BY DEF TypeOK
<1> DEFINE Aside == UNCHANGED kind /\ (\A d \in Dir : dir'[d].skills = dir[d].skills)
                    /\ \A b \in Attempt : MovesOn(b)
<1>1. ASSUME NEW a \in Attempt, MakeCwd(a) \/ StageMcp(a) PROVE Aside
  <2>1. UNCHANGED kind /\ \A d \in Dir : dir'[d].skills = dir[d].skills
    <3>1. CASE MakeCwd(a)
      BY <1>0, <3>1, CwdIsDir DEF MakeCwd, TreeTypeOK, Directory
    <3>2. CASE StageMcp(a)
      <4> Root \in Dir BY DEF Dir
      <4> QED BY <1>0, <3>2 DEF StageMcp, TreeTypeOK, Directory
    <3> QED BY <1>1, <3>1, <3>2
  <2>2. ASSUME NEW b \in Attempt PROVE MovesOn(b)
    <3>1. /\ at'[b].open = at[b].open /\ at'[b].left = at[b].left
          /\ b # a => at'[b].stage = at[b].stage
      BY <1>0, <1>1 DEF MakeCwd, StageMcp, TreeTypeOK, Worker
    <3>2. CASE b = a /\ MakeCwd(a)
      BY <1>0, <3>1, <3>2 DEF MakeCwd, TreeTypeOK, Worker, MovesOn
    <3>3. CASE b = a /\ StageMcp(a)
      BY <1>0, <3>1, <3>3 DEF StageMcp, TreeTypeOK, Worker, MovesOn
    <3> QED BY <1>1, <3>1, <3>2, <3>3 DEF MovesOn
  <2> QED BY <2>1, <2>2
(* Past the staging a worker only ever changes its stage. *)
<1> DEFINE Later(a, stages) ==
             /\ \A b \in Attempt : at'[b].open = at[b].open /\ at'[b].left = at[b].left
             /\ \A b \in Attempt \ {a} : at'[b].stage = at[b].stage
             /\ at[a].stage # "staging" /\ at'[a].stage \in stages
<1>2. ASSUME NEW a \in Attempt, Start(a) \/ RateLimited(a) PROVE Aside
  <2>1. Later(a, {"ready", "running"}) /\ at[a].stage \in {"ready", "running"}
    BY <1>0, <1>2 DEF Start, RateLimited, TreeTypeOK, Worker
  <2>2. \A b \in Attempt : MovesOn(b)
    BY <2>1 DEF MovesOn
  <2> QED BY <1>2, <2>2 DEF Start, RateLimited
<1>3. ASSUME NEW a \in Attempt, Work(a) PROVE Aside
  BY <1>0, <1>3, CwdIsDir DEF Work, TreeTypeOK, Directory, MovesOn
<1>4. ASSUME NEW a \in Attempt, Returns(a) \/ Fails(a) PROVE Aside
  <2>1. PICK e \in EndsWith, o \in Text \cup {None} : Ends(a, e, o)
    BY <1>4 DEF Returns, Fails, EndsWith
  <2>2. Later(a, {"ended"})
    BY <1>0, <2>1 DEF Ends, TreeTypeOK, Worker
  <2>3. \A b \in Attempt : MovesOn(b)
    BY <2>2 DEF MovesOn
  <2> QED BY <2>1, <2>3 DEF Ends
<1>5. ASSUME NEW a \in Attempt, Mirror(a) \/ MirrorFails(a) \/ Record(a) PROVE Aside
  <2>1. Later(a, {"mirrored", "recorded"})
    <3>1. CASE Record(a)
      <4>1. CASE UNCHANGED at
        BY <3>1, <4>1 DEF Record
      <4>2. CASE at' = [at EXCEPT ![a].stage = "recorded"]
        BY <1>0, <3>1, <4>2 DEF Record, TreeTypeOK, Worker
      <4> QED BY <3>1, <4>1, <4>2 DEF Record
    <3>2. CASE Mirror(a) \/ MirrorFails(a)
      <4>1. at[a].stage = "ended" /\ at' = [at EXCEPT ![a].stage = "mirrored"]
        BY <3>2 DEF Mirror, MirrorFails, Archived
      <4> QED BY <1>0, <4>1 DEF TreeTypeOK, Worker
    <3> QED BY <1>5, <3>1, <3>2
  <2>2. \A b \in Attempt : MovesOn(b)
    BY <2>1 DEF MovesOn
  <2>3. UNCHANGED <<kind, dir>>
    BY <1>5 DEF Mirror, MirrorFails, Archived, Record
  <2> QED BY <2>2, <2>3
<1>6. UNCHANGED <<kind, dir, at>> => Aside
  BY DEF MovesOn
<1>7. ASSUME UNCHANGED vars \/ TakeOutcome \/ WriteRunJson \/ Edit \/ Tick
      PROVE  Aside
  BY <1>6, <1>7 DEF vars, treeVars, TakeOutcome, WriteRunJson, Edit, Tick
<1>8. ASSUME NEW p \in Pass,
             \/ Begin(p) \/ TakeTarget(p) \/ AllGraded(p) \/ Score(p) \/ NameReport(p)
             \/ WriteReport(p) \/ PassDies(p)
      PROVE  Aside
  <2>1. UNCHANGED <<kind, dir, at>>
    BY <1>8 DEF Begin, TakeTarget, AllGraded, Score, NameReport, WriteReport, PassDies, treeVars
  <2> QED BY <1>6, <2>1
<1>9. ASSUME NEW p \in Pass, NEW i \in Slot,
             Consult(p, i) \/ Answer(p, i) \/ WriteTmp(p, i) \/ Replace(p, i) \/ JudgeFails(p, i)
      PROVE  Aside
  <2>1. UNCHANGED <<kind, dir, at>>
    BY <1>9 DEF Consult, Answer, WriteTmp, Replace, JudgeFails, treeVars
  <2> QED BY <1>6, <2>1
<1>10. ASSUME NEW a \in Attempt,
              Exhausted(a) \/ Raises(a) \/ WorkerDies(a) \/ KillWorker(a)
       PROVE  Aside
  <2>1. /\ at'[a].stage \in {"failed", "exhausted", "dead"}
        /\ at'[a].left = {} /\ at'[a].open = at[a].open /\ UNCHANGED <<kind, dir>>
        /\ \A b \in Attempt \ {a} : at'[b] = at[b]
    BY <1>0, <1>10, GivesUp
  <2>2. \A b \in Attempt : MovesOn(b)
    BY <2>1 DEF MovesOn
  <2> QED BY <2>1, <2>2
<1>11. ASSUME PoolBreaks PROVE Aside
  <2>1. \A b \in Attempt : MovesOn(b)
    BY <1>0, <1>11, BreaksOnly DEF MovesOn
  <2> QED BY <1>11, <2>1 DEF PoolBreaks
<1>12. Aside => Staged'
  BY StagedStays
<1> HIDE DEF Aside
<1> QED
  BY <1>0, <1>1, <1>2, <1>3, <1>4, <1>5, <1>7, <1>8, <1>9, <1>10, <1>11, <1>12,
     OpenCopyStaged, WriteCopyStaged, CleansStaged DEF Next, TreeNext

(* An agent never starts or works beside a missing or cut skill, unless one *)
(* who shares its directory has begun to copy that skill and not finished:  *)
(* for any number of skills and of workers in one directory, whose copying  *)
(* may fail at any file, and who may die one by one or be killed by a pool  *)
(* that broke, while the others go on.                                      *)
THEOREM WholeSkills == Spec => []SkillsWhole
<1>1. Init => Staged
  BY TreeAssumption
     DEF Init, TreeInit, Staged, NotExcluded, StagedOne, Queued, TreeAssumption
<1>2. TypeOK /\ Staged /\ [Next]_vars => Staged'
  BY StagedStep, TreeAssumption
<1>3. Staged => SkillsWhole
  BY StagedWhole, TreeAssumption
<1> QED
  BY <1>1, <1>2, <1>3, StoreTypes, PTL DEF Spec

----------------------------------------------------------------------------
(* Verdicts.  What the judge is asked about does not change while a pass     *)
(* grades it, because a pass takes an attempt only when its worker is over,  *)
(* and a rescore begins only when all workers are.                          *)
Orderly ==
    /\ pass[0].pc \in {"grading", "draining", "naming", "writing", "closing", "over"}
    /\ pass[0].pc \notin {"grading", "draining"} => \A a \in Attempt : at[a].stage = "dead"
    /\ runJson => pass[0].pc = "over"
    /\ \A p \in Rescore : pass[p].pc # "idle" => runJson
    /\ \A a \in Attempt :
          /\ at[a].stage \in {"failed", "exhausted", "dead"} => at[a].end = "none"
          /\ at[a].stage = "recorded" => archive[a].text = at[a].text

(* w is the process of pass p. *)
Holds(p, w) ==
    IF w.cur = NoAttempt
    THEN \A i \in Slot : w.slot[i] = "waiting"
    ELSE w.pc = "grading" /\ Over(w.cur) /\ (p = 0 => at[w.cur].stage = "recorded")

Answers(w, i, c) ==
    /\ c.kind = Asserts[i] /\ c.model = w.model /\ c.crit = <<i, w.version>>
    /\ c.out = archive[w.cur].text
    /\ c.kind = "judge_agent" => c.seen = archive[w.cur].files

Earned(w) ==
    \A i \in Slot : w.slot[i] \in {"open", "written", "done"} => \E c \in w.ev[i] : Answers(w, i, c)

Judging == Orderly /\ \A p \in Pass : Holds(p, pass[p]) /\ Earned(pass[p])

LEMMA JudgingInit == TreeAssumption /\ StoreAssumption /\ Init => Judging
<1> SUFFICES ASSUME TreeAssumption, StoreAssumption, Init PROVE Judging
  OBVIOUS
<1>1. 0 \in Pass /\ \A p \in Rescore : p \in Pass /\ p # 0
  BY DEF StoreAssumption, Pass, Rescore
<1>2. \A p \in Pass : pass[p].cur = NoAttempt /\ \A i \in Slot : pass[p].slot[i] = "waiting"
  BY DEF Init, NoPass
<1>3. pass[0].pc = "grading" /\ \A p \in Rescore : pass[p].pc = "idle"
  BY <1>1 DEF Init, NoPass
<1>4. \A a \in Attempt : at[a].stage = "queued"
  BY DEF Init, TreeInit, Queued
<1>5. Orderly
  BY <1>3, <1>4 DEF Init, Orderly
<1> QED
  BY <1>2, <1>5 DEF Judging, Holds, Earned

(* A worker that is over stays so, and its archive as it is.                *)
Rests(a) ==
    /\ Over(a) => /\ at'[a].stage = at[a].stage /\ at'[a].end = at[a].end
                  /\ at'[a].text = at[a].text /\ archive'[a] = archive[a]
    /\ ~ Over(a) /\ at'[a].stage \in {"failed", "exhausted", "dead"} => at'[a].end = "none"
    /\ ~ Over(a) /\ at'[a].stage = "recorded" => archive'[a].text = at'[a].text

LEMMA OthersRest ==
    ASSUME NEW a \in Attempt, ~ Over(a),
           at'[a].stage \notin {"recorded", "failed", "exhausted", "dead"},
           \A b \in Attempt \ {a} : at'[b] = at[b] /\ archive'[b] = archive[b]
    PROVE  \A b \in Attempt : Rests(b)
  BY DEF Rests, Over

LEMMA TreeRests ==
    ASSUME TreeTypeOK, TreeNext
    PROVE  \A b \in Attempt : Rests(b)
<1>1. CASE PoolBreaks
  <2>1. UNCHANGED archive
    BY <1>1 DEF PoolBreaks
  <2> QED BY <1>1, <2>1, BreaksOnly DEF Rests, Over
<1>2. ASSUME NEW a \in Attempt,
             MakeCwd(a) \/ (\E s \in Skill : OpenCopy(a, s)) \/ WriteCopy(a) \/ StageMcp(a)
      PROVE  \A b \in Attempt : Rests(b)
  <2>1. UNCHANGED archive /\ \A b \in Attempt \ {a} : at'[b] = at[b]
    BY <1>2 DEF MakeCwd, OpenCopy, WriteCopy, StageMcp, TreeTypeOK
  <2>2. CASE MakeCwd(a)
    BY <2>1, <2>2, OthersRest DEF MakeCwd, TreeTypeOK, Worker, Over
  <2>3. ASSUME NEW s \in Skill, OpenCopy(a, s) PROVE \A b \in Attempt : Rests(b)
    BY <2>1, <2>3, OthersRest DEF OpenCopy, TreeTypeOK, Worker, Over
  <2>4. CASE WriteCopy(a)
    <3>1. at'[a].stage = at[a].stage
      BY <2>4 DEF WriteCopy, TreeTypeOK, Worker
    <3>2. at[a].stage = "staging"
      BY <2>4 DEF WriteCopy
    <3> QED BY <2>1, <3>1, <3>2, OthersRest DEF Over
  <2>5. CASE StageMcp(a)
    BY <2>1, <2>5, OthersRest DEF StageMcp, TreeTypeOK, Worker, Over
  <2> QED BY <1>2, <2>2, <2>3, <2>4, <2>5
<1>3. ASSUME NEW a \in Attempt, Start(a) \/ RateLimited(a) PROVE \A b \in Attempt : Rests(b)
  <2>1. UNCHANGED archive /\ \A b \in Attempt \ {a} : at'[b] = at[b]
    BY <1>3 DEF Start, RateLimited, TreeTypeOK
  <2>2. ~ Over(a) /\ at'[a].stage \in {"ready", "running"}
    BY <1>3 DEF Start, RateLimited, TreeTypeOK, Worker, Over
  <2> QED BY <2>1, <2>2, OthersRest
<1>4. ASSUME NEW a \in Attempt, Work(a) PROVE \A b \in Attempt : Rests(b)
  BY <1>4 DEF Work, Rests, Over
<1>5. ASSUME NEW a \in Attempt, Returns(a) \/ Fails(a) PROVE \A b \in Attempt : Rests(b)
  <2>1. PICK e \in EndsWith, o \in Text \cup {None} : Ends(a, e, o)
    BY <1>5 DEF Returns, Fails, EndsWith
  <2>2. UNCHANGED archive /\ \A b \in Attempt \ {a} : at'[b] = at[b]
    BY <2>1 DEF Ends, TreeTypeOK
  <2>3. ~ Over(a) /\ at'[a].stage = "ended"
    BY <2>1 DEF Ends, TreeTypeOK, Worker, Over
  <2> QED BY <2>2, <2>3, OthersRest
<1>6. ASSUME NEW a \in Attempt, NEW files, at[a].stage = "ended", Archived(a, files)
      PROVE  \A b \in Attempt : Rests(b)
  <2>1. \A b \in Attempt \ {a} : at'[b] = at[b] /\ archive'[b] = archive[b]
    BY <1>6 DEF Archived, TreeTypeOK
  <2>2. ~ Over(a) /\ at'[a].stage = "mirrored"
    BY <1>6 DEF Archived, TreeTypeOK, Worker, Over
  <2> QED BY <2>1, <2>2, OthersRest
<1>7. ASSUME NEW a \in Attempt, Record(a) PROVE \A b \in Attempt : Rests(b)
  <2>0. at[a].stage = "mirrored" /\ ~ Over(a)
    BY <1>7 DEF Record, Over
  <2>1. CASE HasResult(a) /\ ~ archive[a].json
    <3>1. UNCHANGED at /\ \A b \in Attempt \ {a} : archive'[b] = archive[b]
      BY <1>7, <2>1 DEF Record, TreeTypeOK
    <3> QED BY <2>0, <3>1, OthersRest
  <2>2. CASE ~ (HasResult(a) /\ ~ archive[a].json)
    <3> DEFINE h == HasResult(a)
    <3>1. /\ archive' = [archive EXCEPT ![a].trajectory = h, ![a].text = at[a].text]
          /\ at' = [at EXCEPT ![a].stage = "recorded"]
      BY <1>7, <2>2 DEF Record
    <3> HIDE DEF h
    <3>2. \A b \in Attempt \ {a} : at'[b] = at[b] /\ archive'[b] = archive[b]
      BY <3>1 DEF TreeTypeOK
    <3>3. archive'[a].text = at[a].text
      BY <3>1 DEF TreeTypeOK, Kept
    <3>4. at'[a].text = at[a].text /\ at'[a].stage = "recorded"
      BY <3>1 DEF TreeTypeOK, Worker
    <3> QED BY <2>0, <3>2, <3>3, <3>4 DEF Rests, Over
  <2> QED BY <2>1, <2>2
<1>8. ASSUME NEW a \in Attempt,
             Exhausted(a) \/ Raises(a) \/ WorkerDies(a) \/ KillWorker(a)
      PROVE  \A b \in Attempt : Rests(b)
  <2>1. /\ at'[a].stage \in {"failed", "exhausted", "dead"} /\ at'[a].end = "none"
        /\ ~ Over(a) /\ UNCHANGED archive
        /\ \A b \in Attempt \ {a} : at'[b] = at[b]
    BY <1>8, GivesUp
  <2>2. Rests(a)
    BY <2>1 DEF Rests
  <2>3. ASSUME NEW b \in Attempt \ {a} PROVE Rests(b)
    BY <2>1, <2>3 DEF Rests, Over
  <2> QED BY <2>2, <2>3
<1> QED
  BY <1>1, <1>2, <1>3, <1>4, <1>5, <1>6, <1>7, <1>8 DEF TreeNext, Mirror, MirrorFails

LEMMA TreeJudging ==
    ASSUME TypeOK, Judging, TreeNext, UNCHANGED storeVars
    PROVE  Judging'
<1>1. \A a \in Attempt : Rests(a)
  BY TreeRests DEF TypeOK
<1>2. UNCHANGED <<pass, runJson>>
  BY DEF storeVars
<1>3. Orderly'
  <2>1. pass[0].pc \notin {"grading", "draining"} => \A a \in Attempt : at'[a].stage = "dead"
    BY <1>1 DEF Judging, Orderly, Rests, Over
  <2>2. \A a \in Attempt :
           /\ at'[a].stage \in {"failed", "exhausted", "dead"} => at'[a].end = "none"
           /\ at'[a].stage = "recorded" => archive'[a].text = at'[a].text
    BY <1>1 DEF Judging, Orderly, Rests
  <2> QED BY <1>2, <2>1, <2>2 DEF Judging, Orderly
<1>4. ASSUME NEW p \in Pass PROVE Holds(p, pass[p])' /\ Earned(pass[p])'
  <2>1. Holds(p, pass[p]) /\ Earned(pass[p])
    BY DEF Judging
  <2>2. pass'[p] = pass[p] /\ pass[p].cur \in Attempt \cup {NoAttempt}
    BY <1>2 DEF TypeOK, Process
  <2>3. CASE pass[p].cur = NoAttempt
    BY <2>1, <2>2, <2>3 DEF Holds, Earned
  <2>4. CASE pass[p].cur # NoAttempt
    <3>1. /\ at'[pass[p].cur].stage = at[pass[p].cur].stage
          /\ archive'[pass[p].cur] = archive[pass[p].cur]
      BY <1>1, <2>1, <2>2, <2>4 DEF Holds, Rests
    <3> QED BY <2>1, <2>2, <2>4, <3>1 DEF Holds, Earned, Answers, Over
  <2> QED BY <2>3, <2>4
<1> QED
  BY <1>2, <1>3, <1>4 DEF Judging

(* A step of pass p, the workers and their archive left alone: what has to  *)
(* be seen is p itself, and that its course stays in order.                 *)
InCourse(p) ==
    \/ pass'[p].pc = pass[p].pc
    \/ p # 0 /\ (pass[p].pc # "idle" \/ runJson)
    \/ p = 0 /\ pass[0].pc = "grading" /\ pass'[0].pc = "draining"
    \/ p = 0 /\ pass[0].pc \in {"naming", "writing"} /\ pass'[0].pc \in {"writing", "closing"}

LEMMA OneJudging ==
    ASSUME StoreAssumption, Judging, UNCHANGED <<at, archive, runJson>>, NEW p \in Pass,
           \A q \in Pass \ {p} : \E f : pass'[q] = [pass[q] EXCEPT !.fd = f],
           pass \in [Pass -> Process], InCourse(p),
           Holds(p, pass'[p]), Earned(pass'[p])
    PROVE  Judging'
<1>1. ASSUME NEW q \in Pass \ {p}
      PROVE  /\ pass'[q].pc = pass[q].pc /\ pass'[q].cur = pass[q].cur
             /\ pass'[q].slot = pass[q].slot /\ pass'[q].ev = pass[q].ev
             /\ pass'[q].version = pass[q].version /\ pass'[q].model = pass[q].model
  <2>1. PICK f : pass'[q] = [pass[q] EXCEPT !.fd = f]
    OBVIOUS
  <2>2. pass[q] \in Process
    OBVIOUS
  <2> QED BY <2>1, <2>2 DEF Process
<1>2. Orderly'
  <2>1. 0 \in Pass /\ \A q \in Rescore : q \in Pass /\ q # 0
    BY DEF StoreAssumption, Pass, Rescore
  <2>2. \/ pass'[0].pc = pass[0].pc
        \/ pass[0].pc = "grading" /\ pass'[0].pc = "draining"
        \/ pass[0].pc \in {"naming", "writing"} /\ pass'[0].pc \in {"writing", "closing"}
    BY <1>1, <2>1 DEF InCourse
  <2>3. \A q \in Rescore : pass'[q].pc # "idle" => runJson
    BY <1>1, <2>1 DEF InCourse, Judging, Orderly
  <2> QED BY <2>2, <2>3 DEF Judging, Orderly
<1>3. ASSUME NEW q \in Pass PROVE Holds(q, pass[q])' /\ Earned(pass[q])'
  <2>1. CASE q = p
    BY <2>1 DEF Holds, Earned, Answers, Over
  <2>2. CASE q # p
    <3>1. Holds(q, pass[q]) /\ Earned(pass[q])
      BY DEF Judging
    <3>2. Holds(q, pass[q])'
      BY <1>1, <2>2, <3>1 DEF Holds, Over
    <3>3. ASSUME NEW i \in Slot, pass'[q].slot[i] \in {"open", "written", "done"}
          PROVE  \E c \in pass'[q].ev[i] : Answers(pass[q], i, c)'
      <4>1. PICK c \in pass[q].ev[i] : Answers(pass[q], i, c)
        BY <1>1, <2>2, <3>1, <3>3 DEF Earned
      <4>2. Answers(pass[q], i, c)'
        BY <1>1, <2>2, <4>1 DEF Answers
      <4> QED BY <1>1, <2>2, <4>1, <4>2
    <3> QED BY <3>2, <3>3 DEF Earned
  <2> QED BY <2>1, <2>2
<1> QED
  BY <1>2, <1>3 DEF Judging

(* A pass that has nothing in hand. *)
LEMMA EmptyHand ==
    ASSUME NEW p \in Pass, NEW w, w.cur = NoAttempt, \A i \in Slot : w.slot[i] = "waiting"
    PROVE  Holds(p, w) /\ Earned(w)
  BY DEF Holds, Earned

LEMMA NoPassHand ==
    ASSUME NEW c
    PROVE  LET w == [NoPass EXCEPT !.pc = c] IN
           w.pc = c /\ w.cur = NoAttempt /\ \A i \in Slot : w.slot[i] = "waiting"
  BY DEF NoPass

(* Same key, same question but for the transcript. *)
LEMMA KeyAnswers ==
    ASSUME NEW c \in Inputs, NEW d \in Inputs, Key(d) = Key(c)
    PROVE  /\ d.kind = c.kind /\ d.crit = c.crit /\ d.out = c.out /\ d.model = c.model
           /\ d.seen = c.seen
<1>1. ASSUME NEW x \in Inputs
      PROVE  /\ Key(x).kind = x.kind /\ Key(x).crit = x.crit /\ Key(x).out = x.out
             /\ Key(x).model = x.model /\ Key(x).seen = x.seen
  BY DEF Key, Inputs
<1> QED
  BY <1>1

(* What a pass asks is what the assertion asks of the archive. *)
LEMMA CallAnswers ==
    ASSUME StoreAssumption, TypeOK, Judging, NEW p \in Pass, NEW i \in Slot, Grading(p)
    PROVE  Call(p, i) \in Inputs /\ Answers(pass[p], i, Call(p, i))
<1>1. Call(p, i) \in Inputs
  BY CallType DEF Grading
<1>2. pass[p].cur \in Attempt
  BY DEF TypeOK, Process, Grading
<1>3. OutputHash(p, pass[p].cur) = archive[pass[p].cur].text
  BY <1>2 DEF OutputHash, Restored, Judging, Holds, Orderly, Grading
<1> QED
  BY <1>1, <1>3 DEF Call, Answers, CwdHash

LEMMA FdStays ==
    ASSUME TypeOK, NEW p \in Pass, \A q \in Pass \ {p} : pass'[q] = pass[q]
    PROVE  \A q \in Pass \ {p} : \E f : pass'[q] = [pass[q] EXCEPT !.fd = f]
<1> SUFFICES ASSUME NEW q \in Pass \ {p} PROVE pass[q] = [pass[q] EXCEPT !.fd = pass[q].fd]
  OBVIOUS
<1>1. pass[q] \in Process
  BY DEF TypeOK
<1> QED
  BY <1>1 DEF Process

LEMMA BeginJudging ==
    ASSUME StoreAssumption, TypeOK, Judging, NEW p \in Pass, Begin(p)
    PROVE  Judging'
<1>1. PICK scope \in Scopes :
         pass' = [pass EXCEPT ![p].pc = IF Targets(scope) = {} THEN "failed" ELSE "grading",
                              ![p].scope = scope, ![p].todo = Targets(scope),
                              ![p].model = model, ![p].mem = Loaded]
  BY DEF Begin
<1>2. /\ pass'[p].cur = pass[p].cur /\ pass'[p].slot = pass[p].slot
      /\ \A q \in Pass \ {p} : pass'[q] = pass[q]
  <2> DEFINE c == IF Targets(scope) = {} THEN "failed" ELSE "grading"
             todo == Targets(scope)
             w == [pass[p] EXCEPT !.pc = c, !.scope = scope, !.todo = todo,
                                  !.model = model, !.mem = Loaded]
  <2>1. pass' = [pass EXCEPT ![p] = w]
    BY <1>1
  <2> HIDE DEF c, todo
  <2>2. w.cur = pass[p].cur /\ w.slot = pass[p].slot
    <3>1. pass[p] \in Process
      BY DEF TypeOK
    <3> QED BY <3>1 DEF Process
  <2> HIDE DEF w
  <2> QED BY <2>1, <2>2 DEF TypeOK
<1>3. pass[p].pc = "idle" /\ runJson /\ UNCHANGED <<at, archive, runJson>>
  BY DEF Begin, MayBegin
<1>4. p # 0
  BY <1>3 DEF Judging, Orderly
<1>5. pass'[p].cur = NoAttempt /\ \A i \in Slot : pass'[p].slot[i] = "waiting"
  BY <1>2, <1>3 DEF Judging, Holds
<1>6. Holds(p, pass'[p]) /\ Earned(pass'[p])
  BY <1>5, EmptyHand
<1>7. \A q \in Pass \ {p} : \E f : pass'[q] = [pass[q] EXCEPT !.fd = f]
  BY <1>2, FdStays
<1> QED
  BY <1>3, <1>4, <1>6, <1>7, OneJudging DEF TypeOK, InCourse

(* A run that leaves the loop has nothing in hand. *)
LEMMA DrainedJudging ==
    ASSUME StoreAssumption, TypeOK, Judging, UNCHANGED <<at, archive, runJson>>,
           pass[0].pc = "grading", pass' = [pass EXCEPT ![0] = Drained]
    PROVE  Judging'
<1>1. 0 \in Pass /\ Drained.pc = "draining" /\ Drained.cur = NoAttempt
      /\ \A i \in Slot : Drained.slot[i] = "waiting"
  BY DrainedType
<1>2. pass'[0] = Drained /\ \A q \in Pass \ {0} : pass'[q] = pass[q]
  BY <1>1 DEF TypeOK
<1>3. Holds(0, pass'[0]) /\ Earned(pass'[0])
  BY <1>1, <1>2, EmptyHand
<1>4. InCourse(0)
  BY <1>1, <1>2 DEF InCourse
<1>5. \A q \in Pass \ {0} : \E f : pass'[q] = [pass[q] EXCEPT !.fd = f]
  BY <1>1, <1>2, FdStays
<1> QED
  BY <1>1, <1>3, <1>4, <1>5, OneJudging DEF TypeOK

LEMMA TakeOutcomeJudging ==
    ASSUME StoreAssumption, TypeOK, Judging, TakeOutcome
    PROVE  Judging'
<1>1. PICK a \in Outcomes :
         \/ /\ pass' = [pass EXCEPT ![0] = Drained] /\ limitHit'
         \/ /\ ErrorVerdict(a) = "error" /\ UNCHANGED limitHit
            /\ pass' = [pass EXCEPT ![0] = Entered(a, "error")]
         \/ /\ ErrorVerdict(a) = "none" /\ UNCHANGED limitHit
            /\ pass' = [pass EXCEPT ![0] = [pass[0] EXCEPT !.cur = a]]
  BY OutcomeCases
<1>2. 0 \in Pass /\ a \in Attempt /\ Answered(a) /\ a # NoAttempt /\ pass[0] \in Process
  BY NamesApart, TreeAssumption DEF StoreAssumption, Pass, Outcomes, TypeOK
<1>3. UNCHANGED <<at, archive, runJson>> /\ pass[0].cur = NoAttempt /\ pass[0].pc = "grading"
  BY DEF TakeOutcome, treeVars
<1>4. \A i \in Slot : pass[0].slot[i] = "waiting"
  BY <1>2, <1>3 DEF Judging, Holds
<1>5. ASSUME NEW w, w.pc = "grading", w.slot = pass[0].slot,
             w.cur = NoAttempt \/ (w.cur = a /\ at[a].stage = "recorded"),
             pass' = [pass EXCEPT ![0] = w]
      PROVE  Judging'
  <2>1. pass'[0] = w /\ \A q \in Pass \ {0} : pass'[q] = pass[q]
    BY <1>2, <1>5 DEF TypeOK
  <2>2. Holds(0, pass'[0]) /\ Earned(pass'[0])
    BY <1>2, <1>4, <1>5, <2>1 DEF Holds, Earned, Over
  <2>3. InCourse(0)
    BY <1>3, <1>5, <2>1 DEF InCourse
  <2> QED BY <1>2, <1>3, <2>1, <2>2, <2>3, FdStays, OneJudging DEF TypeOK
<1>6. CASE pass' = [pass EXCEPT ![0] = Drained]
  BY <1>3, <1>6, DrainedJudging
<1>7. CASE pass' = [pass EXCEPT ![0] = Entered(a, "error")]
  <2>1. LET w == Entered(a, "error") IN
        w.pc = "grading" /\ w.slot = pass[0].slot /\ w.cur = NoAttempt
    BY <1>2, <1>3 DEF Entered, Process
  <2> QED BY <1>5, <1>7, <2>1
<1>8. CASE ErrorVerdict(a) = "none" /\ pass' = [pass EXCEPT ![0] = [pass[0] EXCEPT !.cur = a]]
  <2>1. at[a].stage = "recorded"
    BY <1>2, <1>8 DEF ErrorVerdict, Answered, Judging, Orderly
  <2>2. LET w == [pass[0] EXCEPT !.cur = a] IN
        w.pc = "grading" /\ w.slot = pass[0].slot /\ w.cur = a
    BY <1>2, <1>3 DEF Process
  <2> QED BY <1>5, <1>8, <2>1, <2>2
<1> QED
  BY <1>1, <1>6, <1>7, <1>8

(* A rescore finds every worker over, because the run has ended. *)
LEMMA AllOver ==
    ASSUME Judging, NEW p \in Rescore, pass[p].pc # "idle"
    PROVE  \A a \in Attempt : Over(a)
  BY DEF Judging, Orderly, Over

LEMMA TakeTargetJudging ==
    ASSUME StoreAssumption, TypeOK, Judging, NEW p \in Pass, TakeTarget(p)
    PROVE  Judging'
<1>1. PICK a \in pass[p].todo :
         IF archive[a].json /\ archive[a].trajectory
         THEN pass' = [pass EXCEPT ![p].cur = a, ![p].todo = @ \ {a},
                                   ![p].version = version, ![p].shown = shown]
         ELSE pass' = [pass EXCEPT ![p] = [NoPass EXCEPT !.pc = "failed"]]
  BY DEF TakeTarget
<1>2. p # 0 /\ pass[p].pc = "grading" /\ pass[p].cur = NoAttempt /\ UNCHANGED <<at, archive, runJson>>
  BY DEF TakeTarget, Between, treeVars
<1>3. a \in Attempt /\ Over(a) /\ a # NoAttempt
  BY <1>2, AllOver, NamesApart, TreeAssumption DEF TypeOK, Process, Rescore
<1>4. \A i \in Slot : pass[p].slot[i] = "waiting"
  BY <1>2 DEF Judging, Holds
<1>5. /\ Holds(p, pass'[p]) /\ Earned(pass'[p])
      /\ \A q \in Pass \ {p} : pass'[q] = pass[q]
  <2>1. CASE archive[a].json /\ archive[a].trajectory
    <3>1. /\ pass'[p].pc = "grading" /\ pass'[p].slot = pass[p].slot /\ pass'[p].cur = a
          /\ \A q \in Pass \ {p} : pass'[q] = pass[q]
      BY <1>1, <1>2, <2>1 DEF TypeOK, Process
    <3> QED BY <1>2, <1>3, <1>4, <3>1 DEF Holds, Earned
  <2>2. CASE ~ (archive[a].json /\ archive[a].trajectory)
    <3> DEFINE w == [NoPass EXCEPT !.pc = "failed"]
    <3>1. pass'[p] = w /\ \A q \in Pass \ {p} : pass'[q] = pass[q]
      BY <1>1, <2>2 DEF TypeOK
    <3>2. w.cur = NoAttempt /\ \A i \in Slot : w.slot[i] = "waiting"
      BY NoPassHand
    <3> HIDE DEF w
    <3> QED BY <3>1, <3>2, EmptyHand
  <2> QED BY <2>1, <2>2
<1>6. \A q \in Pass \ {p} : \E f : pass'[q] = [pass[q] EXCEPT !.fd = f]
  BY <1>5, FdStays
<1> QED
  BY <1>2, <1>5, <1>6, OneJudging DEF TypeOK, InCourse

(* An assertion whose slot moves has an answer by then; the other slots and *)
(* what they hold stay.                                                     *)
LEMMA SlotMoves ==
    ASSUME StoreAssumption, TypeOK, Judging, UNCHANGED <<at, archive, runJson>>,
           NEW p \in Pass, NEW i \in Slot, Grading(p),
           /\ pass'[p].pc = pass[p].pc /\ pass'[p].cur = pass[p].cur
           /\ pass'[p].version = pass[p].version /\ pass'[p].model = pass[p].model
           /\ \A j \in Slot \ {i} : /\ pass'[p].slot[j] = pass[p].slot[j]
                                    /\ pass'[p].ev[j] = pass[p].ev[j],
           pass'[p].slot[i] \in {"open", "written", "done"} =>
               \E c \in pass'[p].ev[i] : Answers(pass[p], i, c),
           \A q \in Pass \ {p} : \E f : pass'[q] = [pass[q] EXCEPT !.fd = f]
    PROVE  Judging'
<1>1. Holds(p, pass[p]) /\ Earned(pass[p]) /\ pass[p].cur # NoAttempt
  BY DEF Judging, Grading
<1>2. Holds(p, pass'[p])
  BY <1>1 DEF Holds
<1>3. Earned(pass'[p])
  <2>1. SUFFICES ASSUME NEW j \in Slot, pass'[p].slot[j] \in {"open", "written", "done"}
                 PROVE  \E c \in pass'[p].ev[j] : Answers(pass'[p], j, c)
    BY DEF Earned
  <2>2. PICK c \in pass'[p].ev[j] : Answers(pass[p], j, c)
    <3>1. CASE j = i
      BY <2>1, <3>1
    <3>2. CASE j # i
      BY <1>1, <2>1, <3>2 DEF Earned
    <3> QED BY <3>1, <3>2
  <2>3. Answers(pass'[p], j, c)
    BY <2>2 DEF Answers
  <2> QED BY <2>3
<1> QED
  BY <1>2, <1>3, OneJudging DEF TypeOK, InCourse

(* What a hit answers is the question asked, by the key alone. *)
LEMMA ConsultJudging ==
    ASSUME StoreAssumption, TypeOK, Judging, NEW p \in Pass, NEW i \in Slot, Consult(p, i)
    PROVE  Judging'
<1> DEFINE hit == Get(pass[p].mem, Call(p, i))
           st == IF hit = {} THEN "asking" ELSE "done"
           w == [pass[p] EXCEPT !.ev[i] = hit, !.slot[i] = st]
<1>1. pass' = [pass EXCEPT ![p] = w] /\ Grading(p) /\ UNCHANGED <<at, archive, runJson>>
  BY DEF Consult, treeVars
<1>2. pass[p] \in Process
  BY DEF TypeOK
<1>3. \A c \in hit : Answers(pass[p], i, c)
  <2> SUFFICES ASSUME NEW c \in hit PROVE Answers(pass[p], i, c)
    OBVIOUS
  <2>1. c \in Inputs /\ Key(c) = Key(Call(p, i))
    BY <1>2 DEF Get, Process
  <2>2. Call(p, i) \in Inputs /\ Answers(pass[p], i, Call(p, i))
    BY <1>1, CallAnswers
  <2>3. /\ c.kind = Call(p, i).kind /\ c.crit = Call(p, i).crit /\ c.out = Call(p, i).out
        /\ c.model = Call(p, i).model
        /\ c.seen = Call(p, i).seen
    BY <2>1, <2>2, KeyAnswers
  <2> QED BY <2>2, <2>3 DEF Answers
<1>4. st \in {"asking", "done"} /\ (st = "done" => hit # {})
  OBVIOUS
<1> HIDE DEF hit, st
<1>0. /\ w.pc = pass[p].pc /\ w.cur = pass[p].cur
      /\ w.version = pass[p].version /\ w.model = pass[p].model
      /\ w.slot[i] = st /\ w.ev[i] = hit
      /\ \A j \in Slot \ {i} : w.slot[j] = pass[p].slot[j] /\ w.ev[j] = pass[p].ev[j]
  BY <1>2 DEF Process
<1> HIDE DEF w
<1>5. /\ pass'[p].pc = pass[p].pc /\ pass'[p].cur = pass[p].cur
      /\ pass'[p].version = pass[p].version /\ pass'[p].model = pass[p].model
      /\ pass'[p].slot[i] = st /\ pass'[p].ev[i] = hit
      /\ \A j \in Slot \ {i} : /\ pass'[p].slot[j] = pass[p].slot[j]
                               /\ pass'[p].ev[j] = pass[p].ev[j]
      /\ \A q \in Pass \ {p} : pass'[q] = pass[q]
  <2>1. pass \in [Pass -> Process]
    BY DEF TypeOK
  <2>2. pass'[p] = w /\ \A q \in Pass \ {p} : pass'[q] = pass[q]
    BY <1>1, <2>1
  <2> QED BY <1>0, <2>2
<1>6. \A q \in Pass \ {p} : \E f : pass'[q] = [pass[q] EXCEPT !.fd = f]
  BY <1>5, FdStays
<1> QED
  BY <1>1, <1>3, <1>4, <1>5, <1>6, SlotMoves

LEMMA AnswerJudging ==
    ASSUME StoreAssumption, TypeOK, Judging, NEW p \in Pass, NEW i \in Slot, Answer(p, i)
    PROVE  Judging'
<1> DEFINE c == Call(p, i)
           m == Put(pass[p].mem, c)
           w == [pass[p] EXCEPT !.slot[i] = "open", !.ev[i] = {c}, !.mem = m, !.fd = "tmp"]
<1>1. pass' = [pass EXCEPT ![p] = w] /\ Grading(p) /\ UNCHANGED <<at, archive, runJson>>
  BY DEF Answer, treeVars
<1>2. pass[p] \in Process
  BY DEF TypeOK
<1>3. Answers(pass[p], i, c)
  BY <1>1, CallAnswers
<1> HIDE DEF c, m
<1>0. /\ w.pc = pass[p].pc /\ w.cur = pass[p].cur
      /\ w.version = pass[p].version /\ w.model = pass[p].model /\ w.ev[i] = {c}
      /\ \A j \in Slot \ {i} : w.slot[j] = pass[p].slot[j] /\ w.ev[j] = pass[p].ev[j]
  BY <1>2 DEF Process
<1> HIDE DEF w
<1>4. /\ pass'[p].pc = pass[p].pc /\ pass'[p].cur = pass[p].cur
      /\ pass'[p].version = pass[p].version /\ pass'[p].model = pass[p].model
      /\ pass'[p].ev[i] = {c}
      /\ \A j \in Slot \ {i} : /\ pass'[p].slot[j] = pass[p].slot[j]
                               /\ pass'[p].ev[j] = pass[p].ev[j]
      /\ \A q \in Pass \ {p} : pass'[q] = pass[q]
  <2>1. pass \in [Pass -> Process]
    BY DEF TypeOK
  <2>2. pass'[p] = w /\ \A q \in Pass \ {p} : pass'[q] = pass[q]
    BY <1>1, <2>1
  <2> QED BY <1>0, <2>2
<1>5. \A q \in Pass \ {p} : \E f : pass'[q] = [pass[q] EXCEPT !.fd = f]
  BY <1>4, FdStays
<1> QED
  BY <1>1, <1>3, <1>4, <1>5, SlotMoves

LEMMA FlushJudging ==
    ASSUME StoreAssumption, TypeOK, Judging, NEW p \in Pass, NEW i \in Slot,
           WriteTmp(p, i) \/ Replace(p, i) \/ JudgeFails(p, i)
    PROVE  Judging'
<1>1. pass[p].cur # NoAttempt /\ Grading(p) /\ UNCHANGED <<at, archive, runJson>>
  <2>1. pass[p].slot[i] # "waiting" /\ pass[p].pc = "grading" /\ UNCHANGED <<at, archive, runJson>>
    BY DEF WriteTmp, Replace, JudgeFails, Grading, treeVars
  <2> QED BY <2>1 DEF Judging, Holds, Grading
<1>2. pass[p] \in Process /\ pass \in [Pass -> Process]
  BY DEF TypeOK
<1> DEFINE Slotted(st) ==
             /\ pass'[p].pc = pass[p].pc /\ pass'[p].cur = pass[p].cur
             /\ pass'[p].version = pass[p].version /\ pass'[p].model = pass[p].model
             /\ pass'[p].slot[i] = st /\ pass'[p].ev = pass[p].ev
             /\ \A j \in Slot \ {i} : pass'[p].slot[j] = pass[p].slot[j]
<1>3. ASSUME NEW st, NEW f, \/ pass'[p] = [pass[p] EXCEPT !.slot[i] = st, !.fd = f]
                            \/ pass'[p] = [pass[p] EXCEPT !.slot[i] = st]
      PROVE  Slotted(st)
  <2>1. CASE pass'[p] = [pass[p] EXCEPT !.slot[i] = st, !.fd = f]
    BY <1>2, <2>1 DEF Process
  <2>2. CASE pass'[p] = [pass[p] EXCEPT !.slot[i] = st]
    BY <1>2, <2>2 DEF Process
  <2> QED BY <1>3, <2>1, <2>2
<1>4. PICK st : Slotted(st) /\ st # "open"
                /\ (st \in {"written", "done"} => pass[p].slot[i] \in {"open", "written"})
  <2> HIDE DEF Slotted
  <2>1. CASE WriteTmp(p, i)
    <3>1. pass'[p] = [pass[p] EXCEPT !.slot[i] = "written", !.fd = "closed"]
      BY <1>2, <2>1 DEF WriteTmp
    <3>2. pass[p].slot[i] = "open"
      BY <2>1 DEF WriteTmp
    <3> QED BY <1>3, <3>1, <3>2
  <2>2. CASE Replace(p, i)
    <3>1. \/ pass'[p] = [pass[p] EXCEPT !.slot[i] = "failed", !.fd = "none"]
          \/ pass'[p] = [pass[p] EXCEPT !.slot[i] = "done", !.fd = "none"]
      BY <1>2, <2>2 DEF Replace
    <3>2. pass[p].slot[i] = "written"
      BY <2>2 DEF Replace
    <3> QED BY <1>3, <3>1, <3>2
  <2>3. CASE JudgeFails(p, i)
    <3>1. PICK how \in {"failed", "exhausted"} : pass'[p] = [pass[p] EXCEPT !.slot[i] = how]
      BY <1>2, <2>3, JudgeFailsCases
    <3> QED BY <1>3, <3>1
  <2> QED BY <2>1, <2>2, <2>3
<1>5. st \in {"open", "written", "done"} => \E c \in pass[p].ev[i] : Answers(pass[p], i, c)
  BY <1>4 DEF Judging, Earned
<1>6. \A q \in Pass \ {p} : \E f1 : pass'[q] = [pass[q] EXCEPT !.fd = f1]
  <2>2. CASE Replace(p, i) /\ tmp # Absent
    BY <2>2 DEF Replace
  <2>3. CASE WriteTmp(p, i) \/ JudgeFails(p, i) \/ (Replace(p, i) /\ tmp = Absent)
    <3>1. \A q \in Pass \ {p} : pass'[q] = pass[q]
      BY <2>3 DEF WriteTmp, JudgeFails, Replace, TypeOK
    <3> QED BY <3>1, FdStays
  <2> QED BY <2>2, <2>3
<1> QED
  BY <1>1, <1>4, <1>5, <1>6, SlotMoves

(* A pass with nothing in hand goes on. *)
LEMMA EmptyMoves ==
    ASSUME StoreAssumption, TypeOK, Judging, NEW p \in Pass, NEW w,
           UNCHANGED <<at, archive, runJson>>, pass' = [pass EXCEPT ![p] = w], InCourse(p),
           w.cur = NoAttempt, \A i \in Slot : w.slot[i] = "waiting"
    PROVE  Judging'
<1>1. pass'[p] = w /\ \A q \in Pass \ {p} : pass'[q] = pass[q]
  BY DEF TypeOK
<1>2. Holds(p, pass'[p]) /\ Earned(pass'[p])
  BY <1>1, EmptyHand
<1> QED
  BY <1>1, <1>2, FdStays, OneJudging DEF TypeOK

LEMMA ScoreJudging ==
    ASSUME StoreAssumption, TypeOK, Judging, NEW p \in Pass, Score(p)
    PROVE  Judging'
<1>1. pass[p].pc = "grading" /\ pass[p].cur \in Attempt /\ UNCHANGED <<at, archive, runJson>>
  BY DEF Score, Grading, treeVars, TypeOK, Process
<1>2. CASE p = 0 /\ pass' = [pass EXCEPT ![p] = Drained]
  BY <1>1, <1>2, DrainedJudging
<1>3. CASE p # 0 /\ pass' = [pass EXCEPT ![p] = [NoPass EXCEPT !.pc = "failed"]]
  <2> DEFINE w == [NoPass EXCEPT !.pc = "failed"]
  <2>1. w.cur = NoAttempt /\ \A i \in Slot : w.slot[i] = "waiting"
    BY NoPassHand
  <2> HIDE DEF w
  <2>2. InCourse(p)
    BY <1>1, <1>3 DEF InCourse
  <2> QED BY <1>1, <1>3, <2>1, <2>2, EmptyMoves DEF w
<1>4. ASSUME NEW v \in {"graded", "error"}, pass' = [pass EXCEPT ![p] = Scored(p, v)]
      PROVE  Judging'
  <2>1. /\ Scored(p, v).cur = NoAttempt /\ Scored(p, v).pc = "grading"
        /\ \A i \in Slot : Scored(p, v).slot[i] = "waiting"
    BY <1>1, ScoredType
  <2>2. pass'[p].pc = pass[p].pc
    BY <1>1, <1>4, <2>1 DEF TypeOK
  <2>3. InCourse(p)
    BY <2>2 DEF InCourse
  <2> QED BY <1>1, <1>4, <2>1, <2>3, EmptyMoves
<1> QED
  BY <1>2, <1>3, <1>4, ScoreCases

LEMMA ReportJudging ==
    ASSUME StoreAssumption, TypeOK, Judging, NEW p \in Pass,
           AllGraded(p) \/ NameReport(p) \/ WriteReport(p) \/ PassDies(p)
    PROVE  Judging'
<1>1. pass[p] \in Process /\ UNCHANGED <<at, archive, runJson>>
  BY DEF TypeOK, AllGraded, NameReport, WriteReport, PassDies, treeVars
<1>2. pass[p].pc # "grading" => pass[p].cur = NoAttempt
  BY DEF Judging, Holds
<1>3. pass[p].cur = NoAttempt => \A i \in Slot : pass[p].slot[i] = "waiting"
  BY DEF Judging, Holds
<1>4. pass \in [Pass -> Process]
  BY DEF TypeOK
<1>5. CASE AllGraded(p)
  <2> DEFINE w == [pass[p] EXCEPT !.pc = "naming"]
  <2>1. pass' = [pass EXCEPT ![p] = w] /\ p # 0 /\ pass[p].cur = NoAttempt /\ pass[p].pc = "grading"
    BY <1>5 DEF AllGraded, Between
  <2>2. w.cur = pass[p].cur /\ w.slot = pass[p].slot
    BY <1>1 DEF Process
  <2> HIDE DEF w
  <2>3. InCourse(p)
    BY <2>1 DEF InCourse
  <2> QED BY <1>1, <1>3, <2>1, <2>2, <2>3, EmptyMoves
<1>6. CASE NameReport(p)
  <2> DEFINE k == IF p = 0 THEN 1 ELSE FreeName(clock)
             w == [pass[p] EXCEPT !.pc = "writing", !.ts = clock, !.n = k]
  <2>1. pass' = [pass EXCEPT ![p] = w] /\ pass[p].pc = "naming"
    BY <1>6 DEF NameReport
  <2> HIDE DEF k
  <2>2. w.pc = "writing" /\ w.cur = pass[p].cur /\ w.slot = pass[p].slot
    BY <1>1 DEF Process
  <2> HIDE DEF w
  <2>3. pass'[p].pc = "writing"
    BY <1>4, <2>1, <2>2
  <2>4. InCourse(p)
    BY <2>1, <2>3 DEF InCourse
  <2> QED BY <1>1, <1>2, <1>3, <2>1, <2>2, <2>4, EmptyMoves
<1>7. CASE WriteReport(p)
  <2> DEFINE c == IF p = 0 THEN "closing" ELSE "over"
             w == [NoPass EXCEPT !.pc = c]
  <2>1. pass' = [pass EXCEPT ![p] = w] /\ pass[p].pc = "writing"
    BY <1>7 DEF WriteReport
  <2>2. w.pc = c /\ w.cur = NoAttempt /\ \A i \in Slot : w.slot[i] = "waiting"
    <3> HIDE DEF c
    <3> QED BY NoPassHand
  <2> HIDE DEF w
  <2>3. pass'[p].pc = c
    BY <1>4, <2>1, <2>2
  <2>4. InCourse(p)
    BY <2>1, <2>3 DEF InCourse
  <2> QED BY <1>1, <2>1, <2>2, <2>4, EmptyMoves
<1>8. CASE PassDies(p)
  <2> DEFINE w == [NoPass EXCEPT !.pc = "failed"]
  <2>1. pass' = [pass EXCEPT ![p] = w] /\ p # 0 /\ pass[p].pc # "idle"
    BY <1>8 DEF PassDies, Live
  <2>2. w.cur = NoAttempt /\ \A i \in Slot : w.slot[i] = "waiting"
    BY NoPassHand
  <2> HIDE DEF w
  <2>3. InCourse(p)
    BY <2>1 DEF InCourse
  <2> QED BY <1>1, <2>1, <2>2, <2>3, EmptyMoves
<1> QED
  BY <1>5, <1>6, <1>7, <1>8

(* The end of the run, at which workers and temporary files are gone. *)
LEMMA RunEndsJudging ==
    ASSUME StoreAssumption, TypeOK, Judging, RunCleans \/ WriteRunJson
    PROVE  Judging'
<1>0. /\ 0 \in Pass /\ pass \in [Pass -> Process] /\ pass[0] \in Process
      /\ \A p \in Rescore : p \in Pass /\ p # 0
  BY DEF StoreAssumption, Pass, Rescore, TypeOK
<1>1. PICK c : /\ pass' = [pass EXCEPT ![0].pc = c]
               /\ (RunCleans => c = "naming") /\ (WriteRunJson => c = "over")
  <2>1. CASE RunCleans
    BY <2>1 DEF RunCleans, WriteRunJson
  <2>2. CASE WriteRunJson
    BY <2>2 DEF RunCleans, WriteRunJson
  <2> QED BY <2>1, <2>2
<1>2. /\ pass'[0].pc = c /\ pass'[0].cur = pass[0].cur /\ pass'[0].slot = pass[0].slot
      /\ \A q \in Pass \ {0} : pass'[q] = pass[q]
  BY <1>0, <1>1 DEF Process
<1>3. pass[0].cur = NoAttempt /\ \A i \in Slot : pass[0].slot[i] = "waiting"
  <2>1. pass[0].cur = NoAttempt
    BY <1>0 DEF RunCleans, WriteRunJson, Judging, Holds
  <2> QED BY <1>0, <2>1 DEF Judging, Holds
<1>4. UNCHANGED archive /\ \A a \in Attempt : at'[a].stage = "dead" /\ at'[a].end = "none"
  <2>1. CASE RunCleans
    BY <2>1 DEF RunCleans, Queued
  <2>2. CASE WriteRunJson
    BY <2>2 DEF WriteRunJson, treeVars, Judging, Orderly
  <2> QED BY <2>1, <2>2
<1>5. Orderly'
  <2>1. CASE RunCleans
    <3>1. ~ runJson /\ ~ runJson'
      BY <1>0, <2>1 DEF RunCleans, Judging, Orderly
    <3> QED BY <1>0, <1>1, <1>2, <1>4, <2>1, <3>1 DEF Judging, Orderly
  <2>2. CASE WriteRunJson
    <3>1. runJson'
      BY <2>2 DEF WriteRunJson
    <3> QED BY <1>1, <1>2, <1>4, <2>2, <3>1 DEF Orderly
  <2> QED BY <2>1, <2>2
<1>6. ASSUME NEW q \in Pass PROVE Holds(q, pass[q])' /\ Earned(pass[q])'
  <2>1. CASE q = 0
    BY <1>2, <1>3, <2>1 DEF Holds, Earned
  <2>2. CASE q # 0
    <3>1. Holds(q, pass[q]) /\ Earned(pass[q]) /\ pass'[q] = pass[q]
      BY <1>2, <2>2 DEF Judging
    <3>2. pass[q].cur \in Attempt \cup {NoAttempt}
      BY <1>0 DEF Process
    <3>3. Holds(q, pass[q])'
      BY <1>4, <2>2, <3>1, <3>2 DEF Holds, Over
    <3>4. Earned(pass[q])'
      <4>1. SUFFICES ASSUME NEW i \in Slot, pass[q].slot[i] \in {"open", "written", "done"}
                     PROVE  \E c1 \in pass[q].ev[i] : Answers(pass[q], i, c1)'
        BY <3>1 DEF Earned
      <4>2. PICK c1 \in pass[q].ev[i] : Answers(pass[q], i, c1)
        BY <3>1, <4>1 DEF Earned
      <4>3. Answers(pass[q], i, c1)'
        BY <1>4, <3>1, <4>2 DEF Answers
      <4> QED BY <4>2, <4>3
    <3> QED BY <3>3, <3>4
  <2> QED BY <2>1, <2>2
<1> QED
  BY <1>5, <1>6 DEF Judging

LEMMA JudgingStays ==
    ASSUME Judging, UNCHANGED <<at, archive, runJson, pass>>
    PROVE  Judging'
  BY DEF Judging, Orderly, Holds, Earned, Answers, Over

LEMMA JudgingStep ==
    ASSUME StoreAssumption, TypeOK, Judging, [Next]_vars
    PROVE  Judging'
<1>1. CASE TreeNext /\ UNCHANGED storeVars
  BY <1>1, TreeJudging
<1>2. CASE UNCHANGED vars \/ Edit \/ Tick
  BY <1>2, JudgingStays DEF vars, treeVars, storeVars, Edit, Tick
<1>3. CASE TakeOutcome \/ RunCleans \/ WriteRunJson
  BY <1>3, TakeOutcomeJudging, RunEndsJudging
<1>4. ASSUME NEW p \in Pass,
             \/ Begin(p) \/ TakeTarget(p) \/ AllGraded(p) \/ Score(p) \/ NameReport(p)
             \/ WriteReport(p) \/ PassDies(p)
      PROVE  Judging'
  BY <1>4, BeginJudging, TakeTargetJudging, ScoreJudging, ReportJudging
<1>5. ASSUME NEW p \in Pass, NEW i \in Slot,
             Consult(p, i) \/ Answer(p, i) \/ WriteTmp(p, i) \/ Replace(p, i) \/ JudgeFails(p, i)
      PROVE  Judging'
  BY <1>5, ConsultJudging, AnswerJudging, FlushJudging
<1> QED
  BY <1>1, <1>2, <1>3, <1>4, <1>5 DEF Next

(* Whatever a judge was shown beside its question, wherever its verdict is   *)
(* kept by now, was the record of an attempt that was over.                 *)
OnFile(c) ==
    \/ c \in cache.calls \/ c \in tmp.calls
    \/ \E p \in Pass : c \in pass[p].mem \/ \E i \in Slot : c \in pass[p].ev[i]

Told(c) == c.traj # NoAttempt => Over(c.traj) /\ Alike(c)

Telling == \A c \in Inputs : OnFile(c) => Told(c)

LEMMA TellingInit == Init => Telling
  BY DEF Init, Telling, OnFile, Absent, NoPass

(* The archive of an attempt that is over does not change any more. *)
LEMMA ToldStays ==
    ASSUME TypeOK, [Next]_vars, NEW c \in Inputs, Told(c)
    PROVE  Told(c)'
<1> SUFFICES ASSUME c.traj # NoAttempt PROVE Over(c.traj)' /\ Alike(c)'
  BY DEF Told
<1>1. Over(c.traj) /\ Alike(c) /\ c.traj \in Attempt
  BY DEF Told, Inputs
<1>2. Over(c.traj)' /\ archive'[c.traj] = archive[c.traj]
  <2>1. CASE TreeNext
    BY <1>1, <2>1, TreeRests DEF Rests, Over, TypeOK
  <2>2. CASE RunCleans
    BY <1>1, <2>2 DEF RunCleans, Over
  <2>3. CASE UNCHANGED <<at, archive>>
    BY <1>1, <2>3 DEF Over
  <2>4. UNCHANGED <<at, archive>> \/ TreeNext \/ RunCleans
    <3>1. CASE \/ UNCHANGED vars \/ TakeOutcome \/ WriteRunJson \/ Edit \/ Tick
      BY <3>1 DEF vars, treeVars, TakeOutcome, WriteRunJson, Edit, Tick
    <3>2. ASSUME NEW p \in Pass,
                 \/ Begin(p) \/ TakeTarget(p) \/ AllGraded(p) \/ Score(p) \/ NameReport(p)
                 \/ WriteReport(p) \/ PassDies(p)
          PROVE  UNCHANGED <<at, archive>>
      BY <3>2 DEF Begin, TakeTarget, AllGraded, Score, NameReport, WriteReport, PassDies, treeVars
    <3>3. ASSUME NEW p \in Pass, NEW i \in Slot,
                 Consult(p, i) \/ Answer(p, i) \/ WriteTmp(p, i) \/ Replace(p, i) \/ JudgeFails(p, i)
          PROVE  UNCHANGED <<at, archive>>
      BY <3>3 DEF Consult, Answer, WriteTmp, Replace, JudgeFails, treeVars
    <3> QED BY <3>1, <3>2, <3>3 DEF Next
  <2> QED BY <2>1, <2>2, <2>3, <2>4
<1> QED
  BY <1>1, <1>2 DEF Alike

(* What a pass asks tells of the attempt that it grades. *)
LEMMA CallTold ==
    ASSUME StoreAssumption, TypeOK, Judging, NEW p \in Pass, NEW i \in Slot, Grading(p)
    PROVE  Call(p, i) \in Inputs /\ Told(Call(p, i))
<1>1. Call(p, i) \in Inputs /\ Answers(pass[p], i, Call(p, i))
  BY CallAnswers
<1>2. Call(p, i).traj \in {pass[p].cur, NoAttempt}
  BY DEF Call
<1>3. Over(pass[p].cur)
  BY DEF Judging, Holds, Grading
<1> QED
  BY <1>1, <1>2, <1>3 DEF Told, Alike, Answers

(* Every call that is on file after a step was so before it, or is asked in  *)
(* the step.                                                                *)
Sourced(c) == OnFile(c) \/ \E p \in Pass, i \in Slot : Grading(p) /\ c = Call(p, i)

FilesSourced ==
    /\ \A c \in cache'.calls : Sourced(c)
    /\ \A c \in tmp'.calls : Sourced(c)

HandSourced(w) ==
    /\ \A c \in w.mem : Sourced(c)
    /\ \A i \in Slot : \A c \in w.ev[i] : Sourced(c)

LEMMA OldSourced ==
    /\ \A p \in Pass : HandSourced(pass[p])
    /\ \A c \in cache.calls : Sourced(c)
    /\ \A c \in tmp.calls : Sourced(c)
  BY DEF HandSourced, Sourced, OnFile

LEMMA NoPassSourced == \A c : HandSourced([NoPass EXCEPT !.pc = c])
  BY DEF HandSourced, NoPass

(* One process moves. *)
LEMMA OneSourced ==
    ASSUME TypeOK, FilesSourced, NEW p \in Pass, NEW w, HandSourced(w),
           pass' = [pass EXCEPT ![p] = w], NEW c, OnFile(c)'
    PROVE  Sourced(c)
<1>1. pass'[p] = w /\ \A q \in Pass \ {p} : pass'[q] = pass[q]
  BY DEF TypeOK
<1>2. \A q \in Pass : HandSourced(pass'[q])
  BY <1>1, OldSourced
<1> QED
  BY <1>2 DEF OnFile, FilesSourced, HandSourced

LEMMA RunSourced ==
    ASSUME StoreAssumption, TypeOK, TakeOutcome \/ RunCleans \/ WriteRunJson, NEW c, OnFile(c)'
    PROVE  Sourced(c)
<1>1. 0 \in Pass /\ pass[0] \in Process
  BY DEF StoreAssumption, Pass, TypeOK
<1>2. FilesSourced
  BY OldSourced DEF TakeOutcome, RunCleans, WriteRunJson, FilesSourced
<1>3. HandSourced(Drained)
  BY <1>1, OldSourced, DrainedType DEF HandSourced
<1>4. ASSUME NEW w, w.mem = pass[0].mem, w.ev = pass[0].ev, pass' = [pass EXCEPT ![0] = w]
      PROVE  Sourced(c)
  <2>1. HandSourced(w)
    BY <1>1, <1>4, OldSourced DEF HandSourced
  <2> QED BY <1>1, <1>2, <1>4, <2>1, OneSourced
<1>5. CASE TakeOutcome
  <2>1. PICK a \in Outcomes :
           \/ pass' = [pass EXCEPT ![0] = Drained]
           \/ pass' = [pass EXCEPT ![0] = Entered(a, "error")]
           \/ pass' = [pass EXCEPT ![0] = [pass[0] EXCEPT !.cur = a]]
    BY <1>5, OutcomeCases
  <2>2. /\ Entered(a, "error").mem = pass[0].mem /\ Entered(a, "error").ev = pass[0].ev
        /\ [pass[0] EXCEPT !.cur = a].mem = pass[0].mem
        /\ [pass[0] EXCEPT !.cur = a].ev = pass[0].ev
    BY <1>1 DEF Entered, Process
  <2>3. CASE pass' = [pass EXCEPT ![0] = Drained]
    BY <1>1, <1>2, <1>3, <2>3, OneSourced
  <2> QED BY <1>4, <2>1, <2>2, <2>3
<1>6. CASE RunCleans \/ WriteRunJson
  <2>1. PICK k : pass' = [pass EXCEPT ![0] = [pass[0] EXCEPT !.pc = k]]
    BY <1>6 DEF RunCleans, WriteRunJson
  <2>2. [pass[0] EXCEPT !.pc = k].mem = pass[0].mem /\ [pass[0] EXCEPT !.pc = k].ev = pass[0].ev
    BY <1>1 DEF Process
  <2> QED BY <1>4, <2>1, <2>2
<1> QED
  BY <1>5, <1>6

LEMMA PassSourced ==
    ASSUME StoreAssumption, TypeOK, NEW p \in Pass,
           \/ Begin(p) \/ TakeTarget(p) \/ AllGraded(p) \/ Score(p) \/ NameReport(p)
           \/ WriteReport(p) \/ PassDies(p),
           NEW c, OnFile(c)'
    PROVE  Sourced(c)
<1>1. pass[p] \in Process /\ HandSourced(pass[p])
  BY OldSourced DEF TypeOK
<1>2. FilesSourced
  BY OldSourced
     DEF Begin, TakeTarget, AllGraded, Score, NameReport, WriteReport, PassDies, FilesSourced
<1>3. ASSUME NEW w, w.mem = pass[p].mem, w.ev = pass[p].ev, pass' = [pass EXCEPT ![p] = w]
      PROVE  Sourced(c)
  <2>1. HandSourced(w)
    BY <1>1, <1>3 DEF HandSourced
  <2> QED BY <1>2, <1>3, <2>1, OneSourced
<1>4. ASSUME NEW k, pass' = [pass EXCEPT ![p] = [NoPass EXCEPT !.pc = k]]
      PROVE  Sourced(c)
  BY <1>2, <1>4, NoPassSourced, OneSourced
<1>5. CASE Begin(p)
  <2>1. PICK scope \in Scopes :
           pass' = [pass EXCEPT ![p].pc = IF Targets(scope) = {} THEN "failed" ELSE "grading",
                                ![p].scope = scope, ![p].todo = Targets(scope),
                                ![p].model = model, ![p].mem = Loaded]
    BY <1>5 DEF Begin
  <2> DEFINE k == IF Targets(scope) = {} THEN "failed" ELSE "grading"
             todo == Targets(scope)
             w == [pass[p] EXCEPT !.pc = k, !.scope = scope, !.todo = todo,
                                  !.model = model, !.mem = Loaded]
  <2>2. pass' = [pass EXCEPT ![p] = w]
    BY <2>1
  <2> HIDE DEF k, todo
  <2>3. w.mem = cache.calls /\ w.ev = pass[p].ev
    BY <1>1 DEF Process, Loaded
  <2> HIDE DEF w
  <2>4. HandSourced(w)
    BY <1>1, <2>3, OldSourced DEF HandSourced
  <2> QED BY <1>2, <2>2, <2>4, OneSourced
<1>6. CASE TakeTarget(p)
  <2>1. PICK a \in pass[p].todo :
           \/ pass' = [pass EXCEPT ![p] = [pass[p] EXCEPT !.cur = a, !.todo = @ \ {a},
                                                         !.version = version, !.shown = shown]]
           \/ pass' = [pass EXCEPT ![p] = [NoPass EXCEPT !.pc = "failed"]]
    BY <1>6, TakeTargetCases
  <2> DEFINE w == [pass[p] EXCEPT !.cur = a, !.todo = @ \ {a},
                                  !.version = version, !.shown = shown]
  <2>2. w.mem = pass[p].mem /\ w.ev = pass[p].ev
    BY <1>1 DEF Process
  <2>3. pass' = [pass EXCEPT ![p] = w] \/ pass' = [pass EXCEPT ![p] = [NoPass EXCEPT !.pc = "failed"]]
    BY <2>1
  <2> HIDE DEF w
  <2> QED BY <1>3, <1>4, <2>2, <2>3
<1>7. CASE AllGraded(p)
  <2>1. [pass[p] EXCEPT !.pc = "naming"].mem = pass[p].mem
        /\ [pass[p] EXCEPT !.pc = "naming"].ev = pass[p].ev
    BY <1>1 DEF Process
  <2>2. pass' = [pass EXCEPT ![p] = [pass[p] EXCEPT !.pc = "naming"]]
    BY <1>7 DEF AllGraded
  <2> QED BY <1>3, <2>1, <2>2
<1>8. CASE Score(p)
  <2>1. pass[p].cur \in Attempt
    BY <1>1, <1>8 DEF Score, Grading, Process
  <2>2. \A v \in {"graded", "error"} : HandSourced(Scored(p, v))
    BY <1>1, <2>1, ScoredType DEF HandSourced
  <2>3. p = 0 => HandSourced(Drained)
    BY <1>1, DrainedType DEF HandSourced
  <2>4. \E w : pass' = [pass EXCEPT ![p] = w] /\ HandSourced(w)
    BY <1>8, <2>2, <2>3, NoPassSourced, ScoreCases
  <2> QED BY <1>2, <2>4, OneSourced
<1>9. CASE NameReport(p)
  <2> DEFINE k == IF p = 0 THEN 1 ELSE FreeName(clock)
             w == [pass[p] EXCEPT !.pc = "writing", !.ts = clock, !.n = k]
  <2>1. pass' = [pass EXCEPT ![p] = w]
    BY <1>9 DEF NameReport
  <2> HIDE DEF k
  <2>2. w.mem = pass[p].mem /\ w.ev = pass[p].ev
    BY <1>1 DEF Process
  <2> HIDE DEF w
  <2> QED BY <1>3, <2>1, <2>2
<1>10. CASE WriteReport(p) \/ PassDies(p)
  <2>1. PICK k : pass' = [pass EXCEPT ![p] = [NoPass EXCEPT !.pc = k]]
    BY <1>10 DEF WriteReport, PassDies
  <2> QED BY <1>4, <2>1
<1> QED
  BY <1>5, <1>6, <1>7, <1>8, <1>9, <1>10

LEMMA SlotSourced ==
    ASSUME StoreAssumption, TypeOK, NEW p \in Pass, NEW i \in Slot,
           Consult(p, i) \/ Answer(p, i) \/ WriteTmp(p, i) \/ Replace(p, i) \/ JudgeFails(p, i),
           NEW c, OnFile(c)'
    PROVE  Sourced(c)
<1>1. pass[p] \in Process /\ HandSourced(pass[p]) /\ pass \in [Pass -> Process]
  BY OldSourced DEF TypeOK
<1>2. ASSUME NEW w, w.mem = pass[p].mem, w.ev = pass[p].ev,
             pass' = [pass EXCEPT ![p] = w], FilesSourced
      PROVE  Sourced(c)
  <2>1. HandSourced(w)
    BY <1>1, <1>2 DEF HandSourced
  <2> QED BY <1>2, <2>1, OneSourced
<1>3. CASE Consult(p, i)
  <2> DEFINE hit == Get(pass[p].mem, Call(p, i))
             st == IF hit = {} THEN "asking" ELSE "done"
             w == [pass[p] EXCEPT !.ev[i] = hit, !.slot[i] = st]
  <2>1. pass' = [pass EXCEPT ![p] = w] /\ FilesSourced
    BY <1>3, OldSourced DEF Consult, FilesSourced
  <2>2. hit \subseteq pass[p].mem
    BY DEF Get
  <2> HIDE DEF hit, st
  <2>3. /\ w.mem = pass[p].mem /\ w.ev[i] = hit
        /\ \A j \in Slot \ {i} : w.ev[j] = pass[p].ev[j]
    BY <1>1 DEF Process
  <2> HIDE DEF w
  <2>4. HandSourced(w)
    BY <1>1, <2>2, <2>3 DEF HandSourced
  <2> QED BY <2>1, <2>4, OneSourced
<1>4. CASE Answer(p, i)
  <2> DEFINE d == Call(p, i)
             m == Put(pass[p].mem, d)
             w == [pass[p] EXCEPT !.slot[i] = "open", !.ev[i] = {d}, !.mem = m, !.fd = "tmp"]
  <2>1. pass' = [pass EXCEPT ![p] = w]
    BY <1>4 DEF Answer
  <2>2. FilesSourced
    <3>1. cache' = cache /\ tmp'.calls = {}
      BY <1>4 DEF Answer, Empty
    <3> QED BY <3>1, OldSourced DEF FilesSourced
  <2>3. Sourced(d)
    BY <1>4 DEF Sourced, Answer
  <2>4. m \subseteq pass[p].mem \cup {d}
    BY DEF Put
  <2> HIDE DEF d, m
  <2>5. /\ w.mem = m /\ w.ev[i] = {d}
        /\ \A j \in Slot \ {i} : w.ev[j] = pass[p].ev[j]
    BY <1>1 DEF Process
  <2> HIDE DEF w
  <2>6. HandSourced(w)
    BY <1>1, <2>3, <2>4, <2>5 DEF HandSourced
  <2> QED BY <2>1, <2>2, <2>6, OneSourced
<1>5. CASE WriteTmp(p, i)
  <2> DEFINE w == [pass[p] EXCEPT !.slot[i] = "written", !.fd = "closed"]
  <2>1. pass' = [pass EXCEPT ![p] = w]
    BY <1>5 DEF WriteTmp
  <2>2. \A file : \A f \in Overwrites(file, pass[p].mem) : f.calls \subseteq pass[p].mem
    BY DEF Overwrites, Dump, Torn
  <2>3. cache'.calls \subseteq cache.calls \cup pass[p].mem
        /\ tmp'.calls \subseteq tmp.calls \cup pass[p].mem
    BY <1>5, <2>2 DEF WriteTmp
  <2>4. FilesSourced
    BY <1>1, <2>3, OldSourced DEF FilesSourced, HandSourced
  <2>5. w.mem = pass[p].mem /\ w.ev = pass[p].ev
    BY <1>1 DEF Process
  <2> HIDE DEF w
  <2> QED BY <1>2, <2>1, <2>4, <2>5
<1>6. CASE Replace(p, i)
  <2>1. FilesSourced
    <3>1. CASE tmp = Absent
      BY <1>6, <3>1, OldSourced DEF Replace, FilesSourced
    <3>2. CASE tmp # Absent
      <4>1. cache' = tmp /\ tmp'.calls = {}
        BY <1>6, <3>2 DEF Replace, Absent
      <4> QED BY <4>1, OldSourced DEF FilesSourced
    <3> QED BY <3>1, <3>2
  <2>2. ASSUME NEW q \in Pass PROVE pass'[q].mem = pass[q].mem /\ pass'[q].ev = pass[q].ev
    <3>1. pass[q] \in Process
      BY <1>1
    <3>2. CASE tmp = Absent /\ q # p
      BY <1>1, <1>6, <3>2 DEF Replace
    <3>3. CASE tmp # Absent /\ q # p
      <4>1. pass'[q] = [pass[q] EXCEPT !.fd = Moved(pass[q].fd)]
        BY <1>6, <3>3 DEF Replace
      <4> QED BY <3>1, <4>1 DEF Process
    <3>4. CASE q = p
      <4>1. PICK st \in {"failed", "done"} : pass'[p] = [pass[p] EXCEPT !.slot[i] = st, !.fd = "none"]
        BY <1>1, <1>6 DEF Replace
      <4> QED BY <3>1, <3>4, <4>1 DEF Process
    <3> QED BY <3>2, <3>3, <3>4
  <2>3. \A q \in Pass : HandSourced(pass'[q])
    BY <2>2, OldSourced DEF HandSourced
  <2> QED BY <2>1, <2>3 DEF OnFile, FilesSourced, HandSourced
<1>7. CASE JudgeFails(p, i)
  <2>1. PICK how \in {"failed", "exhausted"} :
           pass' = [pass EXCEPT ![p] = [pass[p] EXCEPT !.slot[i] = how]]
    BY <1>7, JudgeFailsCases
  <2> DEFINE w == [pass[p] EXCEPT !.slot[i] = how]
  <2>2. w.mem = pass[p].mem /\ w.ev = pass[p].ev
    BY <1>1 DEF Process
  <2>3. pass' = [pass EXCEPT ![p] = w] /\ FilesSourced
    BY <1>7, <2>1, OldSourced DEF JudgeFails, FilesSourced
  <2> HIDE DEF w
  <2> QED BY <1>2, <2>2, <2>3
<1> QED
  BY <1>3, <1>4, <1>5, <1>6, <1>7

LEMMA NothingNew ==
    ASSUME StoreAssumption, TypeOK, [Next]_vars, NEW c, OnFile(c)'
    PROVE  Sourced(c)
<1>1. CASE (TreeNext /\ UNCHANGED storeVars) \/ UNCHANGED vars \/ Edit \/ Tick
  BY <1>1 DEF vars, storeVars, Edit, Tick, Sourced, OnFile
<1>2. CASE TakeOutcome \/ RunCleans \/ WriteRunJson
  BY <1>2, RunSourced
<1>3. ASSUME NEW p \in Pass,
             \/ Begin(p) \/ TakeTarget(p) \/ AllGraded(p) \/ Score(p) \/ NameReport(p)
             \/ WriteReport(p) \/ PassDies(p)
      PROVE  Sourced(c)
  BY <1>3, PassSourced
<1>4. ASSUME NEW p \in Pass, NEW i \in Slot,
             Consult(p, i) \/ Answer(p, i) \/ WriteTmp(p, i) \/ Replace(p, i) \/ JudgeFails(p, i)
      PROVE  Sourced(c)
  BY <1>4, SlotSourced
<1> QED
  BY <1>1, <1>2, <1>3, <1>4 DEF Next

LEMMA TellingStep ==
    ASSUME StoreAssumption, TypeOK, Judging, Telling, [Next]_vars
    PROVE  Telling'
<1> SUFFICES ASSUME NEW c \in Inputs, OnFile(c)' PROVE Told(c)'
  BY DEF Telling, Inputs
<1>1. Sourced(c)
  BY NothingNew
<1>2. Told(c)
  <2>1. CASE OnFile(c)
    BY <2>1 DEF Telling
  <2>2. ASSUME NEW p \in Pass, NEW i \in Slot, Grading(p), c = Call(p, i) PROVE Told(c)
    BY <2>2, CallTold
  <2> QED BY <1>1, <2>1, <2>2 DEF Sourced
<1> QED
  BY <1>2, ToldStays

LEMMA JudgingEarns ==
    ASSUME TypeOK, Judging, Telling
    PROVE  VerdictsEarned
<1> SUFFICES ASSUME NEW p \in Pass, NEW i \in Slot, pass[p].slot[i] = "done"
             PROVE  \E c \in pass[p].ev[i] :
                       /\ c.kind = Asserts[i] /\ c.model = pass[p].model
                       /\ c.crit = <<i, pass[p].version>>
                       /\ c.out = archive[pass[p].cur].text
                       /\ c.kind = "judge_agent" => c.seen = archive[pass[p].cur].files
                       /\ Alike(c)
  BY DEF VerdictsEarned
<1>1. PICK c \in pass[p].ev[i] : Answers(pass[p], i, c)
  BY DEF Judging, Earned
<1>2. c \in Inputs
  BY DEF TypeOK, Process
<1>3. Told(c)
  BY <1>2 DEF Telling, OnFile
<1>4. Alike(c)
  BY <1>3 DEF Told, Alike
<1> QED
  BY <1>1, <1>4 DEF Answers

(* No assertion is ever given a verdict on another criterion, message, model *)
(* or set of archived files than its own, nor one of a judge that had read   *)
(* the transcript of an attempt with another message or other files: for any *)
(* criteria, attempts and configurations, however many passes share the      *)
(* cache, torn, lost and overwritten entries included.                       *)
THEOREM EarnedVerdicts == Spec => []VerdictsEarned
<1>1. Init => Judging /\ Telling
  BY JudgingInit, TellingInit, TreeAssumption, StoreAssumption
<1>2. TypeOK /\ Judging /\ Telling /\ [Next]_vars => Judging' /\ Telling'
  BY JudgingStep, TellingStep, TreeAssumption, StoreAssumption
<1>3. TypeOK /\ Judging /\ Telling => VerdictsEarned
  BY JudgingEarns
<1> QED
  BY <1>1, <1>2, <1>3, StoreTypes, PTL DEF Spec

----------------------------------------------------------------------------
(* What is paid for.  Unless two passes have run at once, the pass that      *)
(* grades knows every flushed call, the temporary file is its own, and the   *)
(* file that a dead pass left open is truncated before it is renamed.        *)
Known(mem) == \A c \in paid : \E d \in mem : Key(d) = Key(c)

Flushing(w) ==
    /\ Known(w.mem)
    /\ \A i \in Slot : w.slot[i] = "open" => w.fd = "tmp" /\ tmp = Empty
    /\ \A i \in Slot : w.slot[i] = "written" => w.fd = "closed" /\ tmp = Dump(w.mem)
    /\ \A i, j \in Slot : w.slot[i] \in {"open", "written"} /\ w.slot[j] \in {"open", "written"} => i = j

Paying ==
    /\ \A p \in Pass : pass[p].pc = "idle" => pass[p].fd = "none"
    /\ ~ beside => /\ \A p, q \in Pass : Live(p) /\ Live(q) => p = q
                   /\ Known(cache.calls)
                   /\ \A p \in Pass : pass[p].pc = "grading" => Flushing(pass[p])

LEMMA PayingInit == StoreAssumption /\ Init => Paying
<1> SUFFICES ASSUME StoreAssumption, Init PROVE Paying
  OBVIOUS
<1>1. 0 \in Pass /\ paid = {}
  BY DEF StoreAssumption, Pass, Init
<1>2. /\ \A p \in Pass : pass[p].fd = "none" /\ \A i \in Slot : pass[p].slot[i] = "waiting"
      /\ \A p \in Pass : p # 0 => pass[p].pc = "idle"
  BY <1>1 DEF Init, NoPass
<1> QED
  BY <1>1, <1>2 DEF Paying, Live, Known, Flushing

LEMMA PayingStays ==
    ASSUME Paying, UNCHANGED <<pass, cache, tmp, paid, beside>>
    PROVE  Paying'
  BY DEF Paying, Live, Known, Flushing

(* A step of a pass at work. *)
LEMMA LivePays ==
    ASSUME Paying, NEW p \in Pass, Live(p), beside' = beside,
           \A q \in Pass \ {p} : /\ pass'[q].pc = pass[q].pc
                                 /\ pass[q].fd = "none" => pass'[q].fd = "none",
           pass'[p].pc # "idle",
           ~ beside => Known(cache.calls)' /\ (pass'[p].pc = "grading" => Flushing(pass[p])')
    PROVE  Paying'
<1>1. ASSUME NEW q \in Pass, Live(q)' PROVE Live(q)
  BY <1>1 DEF Live
<1>2. ASSUME ~ beside', NEW q \in Pass, pass'[q].pc = "grading" PROVE Flushing(pass[q])'
  <2>1. Live(q)
    BY <1>1, <1>2 DEF Live
  <2>2. q = p
    BY <1>2, <2>1 DEF Paying
  <2> QED BY <1>2, <2>2
<1>3. \A q \in Pass : pass'[q].pc = "idle" => pass'[q].fd = "none"
  BY DEF Paying
<1> QED
  BY <1>1, <1>2, <1>3 DEF Paying

LEMMA BeginPays ==
    ASSUME StoreAssumption, TypeOK, Judging, Paying, NEW p \in Pass, Begin(p)
    PROVE  Paying'
<1>1. PICK scope \in Scopes :
         pass' = [pass EXCEPT ![p].pc = IF Targets(scope) = {} THEN "failed" ELSE "grading",
                              ![p].scope = scope, ![p].todo = Targets(scope),
                              ![p].model = model, ![p].mem = Loaded]
  BY DEF Begin
<1>2. ~ beside' => ~ beside /\ \A q \in Pass : ~ Live(q)
  BY DEF Begin
<1>3. pass[p].pc = "idle" /\ UNCHANGED <<cache, tmp, paid>>
  BY DEF Begin, MayBegin
<1>4. \A i \in Slot : pass[p].slot[i] = "waiting"
  BY <1>3 DEF Judging, Holds
<1>5. /\ pass'[p].pc # "idle" /\ pass'[p].slot = pass[p].slot /\ pass'[p].mem = cache.calls
      /\ \A q \in Pass \ {p} : pass'[q] = pass[q]
  <2> DEFINE c == IF Targets(scope) = {} THEN "failed" ELSE "grading"
             todo == Targets(scope)
             w == [pass[p] EXCEPT !.pc = c, !.scope = scope, !.todo = todo,
                                  !.model = model, !.mem = Loaded]
  <2>1. pass' = [pass EXCEPT ![p] = w] /\ c # "idle"
    BY <1>1
  <2> HIDE DEF c, todo
  <2>2. w.pc = c /\ w.slot = pass[p].slot /\ w.mem = cache.calls
    <3>1. pass[p] \in Process
      BY DEF TypeOK
    <3> QED BY <3>1 DEF Process, Loaded
  <2> HIDE DEF w
  <2> QED BY <2>1, <2>2 DEF TypeOK
<1>6. ASSUME ~ beside'
      PROVE  /\ \A q, r \in Pass : Live(q)' /\ Live(r)' => q = r
             /\ Known(cache.calls)'
             /\ \A q \in Pass : pass'[q].pc = "grading" => Flushing(pass[q])'
  <2>1. ~ beside /\ \A q \in Pass : ~ Live(q)
    BY <1>2, <1>3, <1>6
  <2>2. Known(cache.calls)'
    BY <1>3, <2>1 DEF Paying, Known
  <2>3. \A q \in Pass \ {p} : ~ Live(q)'
    BY <1>5, <2>1 DEF Live
  <2>4. Flushing(pass[p])'
    BY <1>3, <1>4, <1>5, <2>2 DEF Flushing, Known
  <2> QED BY <2>2, <2>3, <2>4 DEF Live
<1> QED
  BY <1>5, <1>6 DEF Paying

(* The temporary file is opened by one pass and for one entry at a time. *)
LEMMA AnswerPays ==
    ASSUME StoreAssumption, TypeOK, Paying, NEW p \in Pass, NEW i \in Slot, Answer(p, i)
    PROVE  Paying'
<1> DEFINE c == Call(p, i)
           m == Put(pass[p].mem, c)
           w == [pass[p] EXCEPT !.slot[i] = "open", !.ev[i] = {c}, !.mem = m, !.fd = "tmp"]
<1>1. /\ pass' = [pass EXCEPT ![p] = w] /\ pass[p].fd = "none" /\ pass[p].pc = "grading"
      /\ tmp' = Empty /\ UNCHANGED <<cache, paid, beside>>
  BY DEF Answer, Grading
<1>2. pass[p] \in Process /\ pass \in [Pass -> Process]
  BY DEF TypeOK
<1>3. Known(pass[p].mem) => Known(m)
  BY DEF Known, Put, Get
<1> HIDE DEF c, m
<1>4. /\ w.pc = "grading" /\ w.slot[i] = "open" /\ w.mem = m /\ w.fd = "tmp"
      /\ \A j \in Slot \ {i} : w.slot[j] = pass[p].slot[j]
  BY <1>1, <1>2 DEF Process
<1> HIDE DEF w
<1>5. pass'[p] = w /\ \A q \in Pass \ {p} : pass'[q] = pass[q]
  BY <1>1, <1>2
<1>6. ASSUME ~ beside PROVE Known(cache.calls)' /\ Flushing(pass[p])'
  <2>1. Flushing(pass[p]) /\ Known(cache.calls)
    BY <1>1, <1>6 DEF Paying
  <2>2. \A j \in Slot : pass[p].slot[j] \notin {"open", "written"}
    BY <1>1, <2>1 DEF Flushing
  <2>3. Known(cache.calls)'
    BY <1>1, <2>1 DEF Known
  <2>4. Known(pass[p].mem)'
    <3>1. Known(m) /\ pass'[p].mem = m /\ paid' = paid
      BY <1>1, <1>3, <1>4, <1>5, <2>1 DEF Flushing
    <3> QED BY <3>1 DEF Known
  <2> QED BY <1>1, <1>4, <1>5, <2>2, <2>3, <2>4 DEF Flushing
<1> QED
  BY <1>1, <1>4, <1>5, <1>6, LivePays DEF Live

LEMMA WriteTmpPays ==
    ASSUME StoreAssumption, TypeOK, Paying, NEW p \in Pass, NEW i \in Slot, WriteTmp(p, i)
    PROVE  Paying'
<1> DEFINE w == [pass[p] EXCEPT !.slot[i] = "written", !.fd = "closed"]
<1>1. /\ pass' = [pass EXCEPT ![p] = w] /\ pass[p].pc = "grading" /\ pass[p].slot[i] = "open"
      /\ UNCHANGED <<paid, beside>>
  BY DEF WriteTmp
<1>2. pass[p] \in Process /\ pass \in [Pass -> Process]
  BY DEF TypeOK
<1>3. /\ w.pc = "grading" /\ w.slot[i] = "written" /\ w.mem = pass[p].mem /\ w.fd = "closed"
      /\ \A j \in Slot \ {i} : w.slot[j] = pass[p].slot[j]
  BY <1>1, <1>2 DEF Process
<1> HIDE DEF w
<1>4. pass'[p] = w /\ \A q \in Pass \ {p} : pass'[q] = pass[q]
  BY <1>1, <1>2
<1>5. ASSUME ~ beside PROVE Known(cache.calls)' /\ Flushing(pass[p])'
  <2>1. Flushing(pass[p]) /\ Known(cache.calls)
    BY <1>1, <1>5 DEF Paying
  <2>2. pass[p].fd = "tmp" /\ tmp = Empty
    BY <1>1, <2>1 DEF Flushing
  <2>3. tmp' = Dump(pass[p].mem) /\ UNCHANGED cache
    BY <2>2 DEF WriteTmp, Overwrites, Empty
  <2>4. \A j \in Slot \ {i} : pass[p].slot[j] \notin {"open", "written"}
    BY <1>1, <2>1 DEF Flushing
  <2>5. Known(cache.calls)' /\ Known(pass[p].mem)'
    BY <1>1, <1>3, <1>4, <2>1, <2>3 DEF Flushing, Known
  <2> QED BY <1>3, <1>4, <2>3, <2>4, <2>5 DEF Flushing
<1> QED
  BY <1>1, <1>3, <1>4, <1>5, LivePays DEF Live

LEMMA ReplacePays ==
    ASSUME StoreAssumption, TypeOK, Paying, NEW p \in Pass, NEW i \in Slot, Replace(p, i)
    PROVE  Paying'
<1>1. pass[p].pc = "grading" /\ pass[p].slot[i] = "written" /\ beside' = beside
  BY DEF Replace
<1>2. pass[p] \in Process /\ pass \in [Pass -> Process]
  BY DEF TypeOK
<1>3. PICK st \in {"failed", "done"} : pass'[p] = [pass[p] EXCEPT !.slot[i] = st, !.fd = "none"]
  BY <1>2 DEF Replace
<1>4. /\ pass'[p].pc = "grading" /\ pass'[p].slot[i] = st /\ pass'[p].mem = pass[p].mem
      /\ \A j \in Slot \ {i} : pass'[p].slot[j] = pass[p].slot[j]
  BY <1>1, <1>2, <1>3 DEF Process
<1>5. ASSUME NEW q \in Pass \ {p}
      PROVE  pass'[q].pc = pass[q].pc /\ (pass[q].fd = "none" => pass'[q].fd = "none")
  <2>1. pass[q] \in Process
    BY <1>2
  <2>2. CASE tmp = Absent
    BY <1>2, <2>2 DEF Replace
  <2>3. CASE tmp # Absent
    <3>1. pass'[q] = [pass[q] EXCEPT !.fd = Moved(pass[q].fd)]
      BY <2>3 DEF Replace
    <3>2. pass'[q].pc = pass[q].pc /\ pass'[q].fd = Moved(pass[q].fd)
      BY <2>1, <3>1 DEF Process
    <3> QED BY <3>2 DEF Moved
  <2> QED BY <2>2, <2>3
<1>6. ASSUME ~ beside PROVE Known(cache.calls)' /\ Flushing(pass[p])'
  <2>1. Flushing(pass[p])
    BY <1>1, <1>6 DEF Paying
  <2>2. tmp = Dump(pass[p].mem)
    BY <1>1, <2>1 DEF Flushing
  <2>3. cache' = tmp /\ paid' = paid \cup pass[p].mem /\ cache'.calls = pass[p].mem
    <3>1. tmp.is = "dump" /\ Absent.is = "absent" /\ tmp.calls = pass[p].mem
      BY <2>2 DEF Dump, Absent
    <3> QED BY <3>1 DEF Replace
  <2>4. \A j \in Slot \ {i} : pass[p].slot[j] \notin {"open", "written"}
    BY <1>1, <2>1 DEF Flushing
  <2>5. Known(cache.calls)' /\ Known(pass[p].mem)'
    BY <1>4, <2>1, <2>3 DEF Flushing, Known
  <2> QED BY <1>4, <2>4, <2>5 DEF Flushing
<1> QED
  BY <1>1, <1>4, <1>5, <1>6, LivePays DEF Live

(* The other steps of a pass at work leave the files alone, and open none.  *)
Passive == {"waiting", "asking", "done", "failed", "exhausted"}

LEMMA OtherPays ==
    ASSUME Paying, NEW p \in Pass, Live(p), UNCHANGED <<cache, tmp, paid, beside>>,
           \A q \in Pass \ {p} : pass'[q] = pass[q], pass'[p].pc # "idle",
           pass'[p].pc = "grading" =>
              /\ pass[p].pc = "grading" /\ pass'[p].mem = pass[p].mem /\ pass'[p].fd = pass[p].fd
              /\ \A i \in Slot : pass'[p].slot[i] = pass[p].slot[i]
                                 \/ pass'[p].slot[i] \in Passive
    PROVE  Paying'
<1>1. ASSUME ~ beside PROVE Known(cache.calls)'
  BY <1>1 DEF Paying, Known
<1>2. ASSUME ~ beside, pass'[p].pc = "grading" PROVE Flushing(pass[p])'
  <2>1. Flushing(pass[p])
    BY <1>2 DEF Paying
  <2>2. Known(pass[p].mem)'
    BY <1>2, <2>1 DEF Flushing, Known
  <2> QED BY <1>2, <2>1, <2>2 DEF Flushing, Passive
<1> QED
  BY <1>1, <1>2, LivePays

LEMMA GradingPays ==
    ASSUME StoreAssumption, TypeOK, Paying, NEW p \in Pass,
           \/ TakeTarget(p) \/ Score(p)
           \/ \E i \in Slot : Consult(p, i) \/ JudgeFails(p, i)
    PROVE  Paying'
<1>0. pass[p] \in Process /\ pass \in [Pass -> Process]
  BY DEF TypeOK
<1>1. Live(p) /\ UNCHANGED <<cache, tmp, paid, beside>> /\ pass[p].pc = "grading"
  BY DEF TakeTarget, Between, Score, Consult, JudgeFails, Grading, Live
<1> DEFINE Goes(w) == w.pc = "grading" =>
              /\ w.mem = pass[p].mem /\ w.fd = pass[p].fd
              /\ \A i \in Slot : w.slot[i] = pass[p].slot[i]
                                 \/ w.slot[i] \in Passive
<1>2. ASSUME NEW w, pass' = [pass EXCEPT ![p] = w], w.pc # "idle", Goes(w) PROVE Paying'
  <2> HIDE DEF Goes
  <2>1. pass'[p] = w /\ \A q \in Pass \ {p} : pass'[q] = pass[q]
    BY <1>0, <1>2
  <2>2. pass'[p].pc = "grading" =>
           /\ pass[p].pc = "grading" /\ pass'[p].mem = pass[p].mem /\ pass'[p].fd = pass[p].fd
           /\ \A i \in Slot : pass'[p].slot[i] = pass[p].slot[i]
                              \/ pass'[p].slot[i] \in Passive
    BY <1>1, <1>2, <2>1 DEF Goes
  <2> QED BY <1>1, <1>2, <2>1, <2>2, OtherPays
<1>3. [NoPass EXCEPT !.pc = "failed"].pc = "failed"
  BY NoPassHand
<1>4. CASE TakeTarget(p)
  <2>1. PICK a \in pass[p].todo :
           \/ pass' = [pass EXCEPT ![p] = [pass[p] EXCEPT !.cur = a, !.todo = @ \ {a},
                                                         !.version = version, !.shown = shown]]
           \/ pass' = [pass EXCEPT ![p] = [NoPass EXCEPT !.pc = "failed"]]
    BY <1>4, TakeTargetCases
  <2> DEFINE w == [pass[p] EXCEPT !.cur = a, !.todo = @ \ {a},
                                  !.version = version, !.shown = shown]
             f == [NoPass EXCEPT !.pc = "failed"]
  <2>2. w.pc = pass[p].pc /\ w.mem = pass[p].mem /\ w.fd = pass[p].fd /\ w.slot = pass[p].slot
    BY <1>0 DEF Process
  <2> HIDE DEF w, f
  <2>3. Goes(w) /\ Goes(f) /\ w.pc # "idle" /\ f.pc # "idle"
    BY <1>1, <1>3, <2>2 DEF f
  <2> QED BY <1>2, <2>1, <2>3 DEF w, f
<1>5. CASE Score(p)
  <2>1. pass[p].cur \in Attempt
    BY <1>0, <1>5 DEF Score, Grading, Process
  <2>2. ASSUME NEW v \in {"graded", "error"}
        PROVE  Goes(Scored(p, v)) /\ Scored(p, v).pc # "idle"
    BY <1>1, <2>1, ScoredType DEF Passive
  <2>3. LET f == [NoPass EXCEPT !.pc = "failed"] IN Goes(f) /\ f.pc # "idle"
    BY <1>3
  <2>4. Goes(Drained) /\ Drained.pc # "idle"
    BY DrainedType
  <2> HIDE DEF Goes
  <2>5. \E w : pass' = [pass EXCEPT ![p] = w] /\ Goes(w) /\ w.pc # "idle"
    BY <1>5, <2>2, <2>3, <2>4, ScoreCases
  <2> QED BY <1>2, <2>5
<1>6. ASSUME NEW i \in Slot, Consult(p, i) PROVE Paying'
  <2> DEFINE hit == Get(pass[p].mem, Call(p, i))
             st == IF hit = {} THEN "asking" ELSE "done"
             w == [pass[p] EXCEPT !.ev[i] = hit, !.slot[i] = st]
  <2>1. pass' = [pass EXCEPT ![p] = w]
    BY <1>6 DEF Consult
  <2>2. st \in {"asking", "done"}
    OBVIOUS
  <2> HIDE DEF hit, st
  <2>3. /\ w.pc = pass[p].pc /\ w.mem = pass[p].mem /\ w.fd = pass[p].fd
        /\ w.slot[i] = st /\ \A j \in Slot \ {i} : w.slot[j] = pass[p].slot[j]
    BY <1>0 DEF Process
  <2> HIDE DEF w
  <2>4. Goes(w) /\ w.pc # "idle"
    BY <1>1, <2>2, <2>3 DEF Passive
  <2> QED BY <1>2, <2>1, <2>4
<1>7. ASSUME NEW i \in Slot, JudgeFails(p, i) PROVE Paying'
  <2>0. PICK how \in {"failed", "exhausted"} :
           pass' = [pass EXCEPT ![p] = [pass[p] EXCEPT !.slot[i] = how]]
    BY <1>7, JudgeFailsCases
  <2> DEFINE w == [pass[p] EXCEPT !.slot[i] = how]
  <2>1. pass' = [pass EXCEPT ![p] = w]
    BY <2>0
  <2>2. /\ w.pc = pass[p].pc /\ w.mem = pass[p].mem /\ w.fd = pass[p].fd
        /\ w.slot[i] = how /\ \A j \in Slot \ {i} : w.slot[j] = pass[p].slot[j]
    BY <1>0 DEF Process
  <2> HIDE DEF w
  <2>3. Goes(w) /\ w.pc # "idle"
    BY <1>1, <2>2 DEF Passive
  <2> QED BY <1>2, <2>1, <2>3
<1> QED
  BY <1>4, <1>5, <1>6, <1>7

(* Past the grading nothing is asked any more. *)
LEMMA LaterPays ==
    ASSUME StoreAssumption, TypeOK, Paying, NEW p \in Pass, NEW c,
           c \notin {"idle", "grading"}, Live(p), UNCHANGED <<cache, tmp, paid, beside>>,
           pass'[p].pc = c, \A q \in Pass \ {p} : pass'[q] = pass[q]
    PROVE  Paying'
  BY OtherPays

LEMMA PassPays ==
    ASSUME StoreAssumption, TypeOK, Paying, NEW p \in Pass,
           AllGraded(p) \/ NameReport(p) \/ WriteReport(p) \/ PassDies(p)
    PROVE  Paying'
<1>1. pass[p] \in Process /\ pass \in [Pass -> Process]
  BY DEF TypeOK
<1>2. Live(p) /\ UNCHANGED <<cache, tmp, paid, beside>>
  BY DEF AllGraded, Between, NameReport, WriteReport, PassDies, Live
<1>3. \A q \in Pass \ {p} : pass'[q] = pass[q]
  BY <1>1 DEF AllGraded, NameReport, WriteReport, PassDies
<1>4. pass'[p].pc \notin {"idle", "grading"}
  <2>1. CASE AllGraded(p)
    BY <1>1, <2>1 DEF AllGraded, Process
  <2>2. CASE NameReport(p)
    <3> DEFINE k == IF p = 0 THEN 1 ELSE FreeName(clock)
    <3>1. pass' = [pass EXCEPT ![p].pc = "writing", ![p].ts = clock, ![p].n = k]
      BY <2>2 DEF NameReport
    <3> HIDE DEF k
    <3> QED BY <1>1, <3>1 DEF Process
  <2>3. CASE WriteReport(p)
    <3> DEFINE c == IF p = 0 THEN "closing" ELSE "over"
    <3>1. pass' = [pass EXCEPT ![p] = [NoPass EXCEPT !.pc = c]]
      BY <2>3 DEF WriteReport
    <3>2. [NoPass EXCEPT !.pc = c].pc = c
      BY NoPassHand
    <3> QED BY <1>1, <3>1, <3>2
  <2>4. CASE PassDies(p)
    <3>1. pass' = [pass EXCEPT ![p] = [NoPass EXCEPT !.pc = "failed"]]
      BY <2>4 DEF PassDies
    <3>2. [NoPass EXCEPT !.pc = "failed"].pc = "failed"
      BY NoPassHand
    <3> QED BY <1>1, <3>1, <3>2
  <2> QED BY <2>1, <2>2, <2>3, <2>4
<1> QED
  BY <1>2, <1>3, <1>4, LaterPays

LEMMA RunPays ==
    ASSUME StoreAssumption, TypeOK, Paying, TakeOutcome \/ RunCleans \/ WriteRunJson
    PROVE  Paying'
<1>1. 0 \in Pass /\ pass[0] \in Process /\ pass \in [Pass -> Process]
  BY DEF StoreAssumption, Pass, TypeOK
<1>2. Live(0) /\ UNCHANGED <<cache, tmp, paid, beside>>
  BY DEF TakeOutcome, RunCleans, WriteRunJson, Live
<1>3. CASE TakeOutcome
  <2>1. PICK a \in Outcomes :
           \/ pass' = [pass EXCEPT ![0] = Drained]
           \/ pass' = [pass EXCEPT ![0] = Entered(a, "error")]
           \/ pass' = [pass EXCEPT ![0] = [pass[0] EXCEPT !.cur = a]]
    BY <1>3, OutcomeCases
  <2>2. pass[0].pc = "grading"
    BY <1>3 DEF TakeOutcome
  <2>3. ASSUME NEW w, w.pc = pass[0].pc, w.mem = pass[0].mem, w.fd = pass[0].fd,
               w.slot = pass[0].slot, pass' = [pass EXCEPT ![0] = w]
        PROVE  Paying'
    <3>1. pass'[0] = w /\ \A q \in Pass \ {0} : pass'[q] = pass[q]
      BY <1>1, <2>3
    <3> QED BY <1>1, <1>2, <2>2, <2>3, <3>1, OtherPays
  <2>4. CASE pass' = [pass EXCEPT ![0] = Drained]
    <3>1. pass'[0].pc = "draining" /\ \A q \in Pass \ {0} : pass'[q] = pass[q]
      BY <1>1, <2>4, DrainedType
    <3> QED BY <1>1, <1>2, <3>1, LaterPays
  <2>5. LET w == Entered(a, "error") IN
        w.pc = pass[0].pc /\ w.mem = pass[0].mem /\ w.fd = pass[0].fd /\ w.slot = pass[0].slot
    BY <1>1 DEF Entered, Process
  <2>6. LET w == [pass[0] EXCEPT !.cur = a] IN
        w.pc = pass[0].pc /\ w.mem = pass[0].mem /\ w.fd = pass[0].fd /\ w.slot = pass[0].slot
    BY <1>1 DEF Process
  <2> QED BY <2>1, <2>3, <2>4, <2>5, <2>6
<1>4. CASE RunCleans \/ WriteRunJson
  <2>1. pass'[0].pc \in {"naming", "over"} /\ \A q \in Pass \ {0} : pass'[q] = pass[q]
    BY <1>1, <1>4 DEF RunCleans, WriteRunJson, Process
  <2> QED BY <1>1, <1>2, <2>1, LaterPays
<1> QED
  BY <1>3, <1>4

LEMMA PayingStep ==
    ASSUME StoreAssumption, TypeOK, Judging, Paying, [Next]_vars
    PROVE  Paying'
<1>1. CASE TreeNext /\ UNCHANGED storeVars
  BY <1>1, PayingStays DEF storeVars
<1>2. CASE UNCHANGED vars \/ Edit \/ Tick
  BY <1>2, PayingStays DEF vars, storeVars, Edit, Tick
<1>3. CASE TakeOutcome \/ RunCleans \/ WriteRunJson
  BY <1>3, RunPays
<1>4. ASSUME NEW p \in Pass,
             \/ Begin(p) \/ TakeTarget(p) \/ AllGraded(p) \/ Score(p) \/ NameReport(p)
             \/ WriteReport(p) \/ PassDies(p)
      PROVE  Paying'
  BY <1>4, BeginPays, GradingPays, PassPays
<1>5. ASSUME NEW p \in Pass, NEW i \in Slot,
             Consult(p, i) \/ Answer(p, i) \/ WriteTmp(p, i) \/ Replace(p, i) \/ JudgeFails(p, i)
      PROVE  Paying'
  BY <1>5, GradingPays, AnswerPays, WriteTmpPays, ReplacePays
<1> QED
  BY <1>1, <1>2, <1>3, <1>4, <1>5 DEF Next

(* Nothing but a consultation starts to ask. *)
Quiet(p, i) == pass'[p].slot[i] = pass[p].slot[i] \/ pass'[p].slot[i] # "asking"

LEMMA QuietPass ==
    ASSUME TypeOK, NEW q \in Pass, NEW w, pass' = [pass EXCEPT ![q] = w],
           \A i \in Slot : w.slot[i] = pass[q].slot[i] \/ w.slot[i] # "asking"
    PROVE  \A p \in Pass, i \in Slot : Quiet(p, i)
<1>1. pass'[q] = w /\ \A p \in Pass \ {q} : pass'[p] = pass[p]
  BY DEF TypeOK
<1> QED
  BY <1>1 DEF Quiet

LEMMA QuietGrading ==
    ASSUME StoreAssumption, TypeOK, NEW q \in Pass, NEW j \in Slot,
           Answer(q, j) \/ WriteTmp(q, j) \/ Replace(q, j) \/ JudgeFails(q, j)
    PROVE  \A p \in Pass, i \in Slot : Quiet(p, i)
<1>1. pass \in [Pass -> Process] /\ \A p \in Pass : pass[p] \in Process
  BY DEF TypeOK
<1>2. CASE Answer(q, j)
  <2> DEFINE c == Call(q, j)
             m == Put(pass[q].mem, c)
             w == [pass[q] EXCEPT !.slot[j] = "open", !.ev[j] = {c}, !.mem = m, !.fd = "tmp"]
  <2>1. pass' = [pass EXCEPT ![q] = w]
    BY <1>2 DEF Answer
  <2> HIDE DEF c, m
  <2>2. w.slot[j] = "open" /\ \A i \in Slot \ {j} : w.slot[i] = pass[q].slot[i]
    <3>1. pass[q] \in Process
      BY <1>1
    <3> QED BY <3>1 DEF Process
  <2> HIDE DEF w
  <2>3. \A i \in Slot : w.slot[i] = pass[q].slot[i] \/ w.slot[i] # "asking"
    BY <2>2
  <2>4. pass'[q] = w /\ \A p \in Pass \ {q} : pass'[p] = pass[p]
    BY <1>1, <2>1
  <2> QED BY <2>3, <2>4 DEF Quiet
<1>3. CASE WriteTmp(q, j) \/ JudgeFails(q, j) \/ (Replace(q, j) /\ tmp = Absent)
  <2>0. PICK how \in {"failed", "exhausted"} :
           JudgeFails(q, j) => pass' = [pass EXCEPT ![q] = [pass[q] EXCEPT !.slot[j] = how]]
    BY JudgeFailsCases
  <2>1. \/ pass' = [pass EXCEPT ![q] = [pass[q] EXCEPT !.slot[j] = "written", !.fd = "closed"]]
        \/ pass' = [pass EXCEPT ![q] = [pass[q] EXCEPT !.slot[j] = "failed", !.fd = "none"]]
        \/ pass' = [pass EXCEPT ![q] = [pass[q] EXCEPT !.slot[j] = how]]
    BY <1>3, <2>0 DEF WriteTmp, Replace
  <2> DEFINE a == [pass[q] EXCEPT !.slot[j] = "written", !.fd = "closed"]
             b == [pass[q] EXCEPT !.slot[j] = "failed", !.fd = "none"]
             c == [pass[q] EXCEPT !.slot[j] = how]
  <2>4. /\ \A i \in Slot : a.slot[i] = pass[q].slot[i] \/ a.slot[i] # "asking"
        /\ \A i \in Slot : b.slot[i] = pass[q].slot[i] \/ b.slot[i] # "asking"
        /\ \A i \in Slot : c.slot[i] = pass[q].slot[i] \/ c.slot[i] # "asking"
    <3>1. /\ a.slot[j] = "written" /\ b.slot[j] = "failed" /\ c.slot[j] = how
          /\ \A i \in Slot \ {j} : a.slot[i] = pass[q].slot[i] /\ b.slot[i] = pass[q].slot[i]
                                   /\ c.slot[i] = pass[q].slot[i]
      <4>1. pass[q] \in Process
        BY <1>1
      <4> QED BY <4>1 DEF Process
    <3> HIDE DEF a, b, c
    <3> QED BY <3>1
  <2>5. pass' = [pass EXCEPT ![q] = a] \/ pass' = [pass EXCEPT ![q] = b]
        \/ pass' = [pass EXCEPT ![q] = c]
    BY <2>1
  <2> HIDE DEF a, b, c
  <2> QED BY <2>4, <2>5, QuietPass
<1>4. CASE Replace(q, j) /\ tmp # Absent
  <2>1. ASSUME NEW p \in Pass, NEW i \in Slot PROVE Quiet(p, i)
    <3>1. CASE p = q
      <4>1. pass'[q] = [pass[q] EXCEPT !.slot[j] = "done", !.fd = "none"]
        BY <1>4 DEF Replace
      <4>2. i # j => pass'[q].slot[i] = pass[q].slot[i]
        BY <1>1, <4>1 DEF Process
      <4>3. i = j => pass'[q].slot[i] = "done"
        BY <1>1, <4>1 DEF Process
      <4> QED BY <3>1, <4>2, <4>3 DEF Quiet
    <3>2. CASE p # q
      <4>1. pass'[p] = [pass[p] EXCEPT !.fd = Moved(pass[p].fd)]
        BY <1>4, <3>2 DEF Replace
      <4>2. pass'[p].slot = pass[p].slot
        BY <1>1, <4>1 DEF Process
      <4> QED BY <4>2 DEF Quiet
    <3> QED BY <3>1, <3>2
  <2> QED BY <2>1
<1> QED
  BY <1>2, <1>3, <1>4

LEMMA QuietRest ==
    ASSUME StoreAssumption, TypeOK, NEW q \in Pass,
           \/ Begin(q) \/ TakeTarget(q) \/ AllGraded(q) \/ Score(q) \/ NameReport(q)
           \/ WriteReport(q) \/ PassDies(q)
           \/ q = 0 /\ (TakeOutcome \/ RunCleans \/ WriteRunJson)
    PROVE  \A p \in Pass, i \in Slot : Quiet(p, i)
<1>1. pass[q] \in Process /\ pass \in [Pass -> Process]
  BY DEF TypeOK
<1> DEFINE Same(w) == \A i \in Slot : w.slot[i] = pass[q].slot[i] \/ w.slot[i] # "asking"
<1>2. ASSUME NEW w, pass' = [pass EXCEPT ![q] = w], Same(w)
      PROVE  \A p \in Pass, i \in Slot : Quiet(p, i)
  <2>1. \A i \in Slot : w.slot[i] = pass[q].slot[i] \/ w.slot[i] # "asking"
    BY <1>2
  <2>2. pass'[q] = w /\ \A p \in Pass \ {q} : pass'[p] = pass[p]
    BY <1>1, <1>2
  <2> QED BY <2>1, <2>2 DEF Quiet
<1>3. \A c : Same([NoPass EXCEPT !.pc = c])
  BY NoPassHand
<1>4. CASE Begin(q)
  <2>1. PICK scope \in Scopes :
           pass' = [pass EXCEPT ![q].pc = IF Targets(scope) = {} THEN "failed" ELSE "grading",
                                ![q].scope = scope, ![q].todo = Targets(scope),
                                ![q].model = model, ![q].mem = Loaded]
    BY <1>4 DEF Begin
  <2> DEFINE c == IF Targets(scope) = {} THEN "failed" ELSE "grading"
             todo == Targets(scope)
             w == [pass[q] EXCEPT !.pc = c, !.scope = scope, !.todo = todo,
                                  !.model = model, !.mem = Loaded]
  <2>2. pass' = [pass EXCEPT ![q] = w]
    BY <2>1
  <2> HIDE DEF c, todo
  <2>3. w.slot = pass[q].slot
    BY <1>1 DEF Process
  <2>4. Same(w)
    BY <2>3
  <2> HIDE DEF w, Same
  <2> QED BY <1>2, <2>2, <2>4
<1>5. CASE TakeTarget(q)
  <2>1. PICK a \in pass[q].todo :
           \/ pass' = [pass EXCEPT ![q] = [pass[q] EXCEPT !.cur = a, !.todo = @ \ {a},
                                                         !.version = version, !.shown = shown]]
           \/ pass' = [pass EXCEPT ![q] = [NoPass EXCEPT !.pc = "failed"]]
    BY <1>5, TakeTargetCases
  <2>2. Same([pass[q] EXCEPT !.cur = a, !.todo = @ \ {a}, !.version = version, !.shown = shown])
    BY <1>1 DEF Process
  <2> HIDE DEF Same
  <2> QED BY <1>2, <1>3, <2>1, <2>2
<1>6. CASE Score(q)
  <2>1. pass[q].cur \in Attempt
    BY <1>1, <1>6 DEF Score, Grading, Process
  <2>2. \A v \in {"graded", "error"} : Same(Scored(q, v))
    BY <2>1, ScoredType
  <2>3. Same(Drained)
    BY DrainedType
  <2>4. \E w : pass' = [pass EXCEPT ![q] = w] /\ Same(w)
    <3> HIDE DEF Same
    <3> QED BY <1>3, <1>6, <2>2, <2>3, ScoreCases
  <2> HIDE DEF Same
  <2> QED BY <1>2, <2>4
<1>7. CASE AllGraded(q) \/ (q = 0 /\ (RunCleans \/ WriteRunJson))
  <2>1. PICK c : pass' = [pass EXCEPT ![q] = [pass[q] EXCEPT !.pc = c]]
    BY <1>7 DEF AllGraded, RunCleans, WriteRunJson
  <2>2. Same([pass[q] EXCEPT !.pc = c])
    BY <1>1 DEF Process
  <2> HIDE DEF Same
  <2> QED BY <1>2, <2>1, <2>2
<1>8. CASE NameReport(q)
  <2> DEFINE k == IF q = 0 THEN 1 ELSE FreeName(clock)
             w == [pass[q] EXCEPT !.pc = "writing", !.ts = clock, !.n = k]
  <2>1. pass' = [pass EXCEPT ![q] = w]
    BY <1>8 DEF NameReport
  <2> HIDE DEF k
  <2>2. Same(w)
    BY <1>1 DEF Process
  <2> HIDE DEF w, Same
  <2> QED BY <1>2, <2>1, <2>2
<1>9. CASE WriteReport(q) \/ PassDies(q)
  <2>1. PICK c : pass' = [pass EXCEPT ![q] = [NoPass EXCEPT !.pc = c]]
    BY <1>9 DEF WriteReport, PassDies
  <2> HIDE DEF Same
  <2> QED BY <1>2, <1>3, <2>1
<1>10. CASE q = 0 /\ TakeOutcome
  <2>1. PICK a \in Outcomes :
           \/ pass' = [pass EXCEPT ![q] = Drained]
           \/ pass' = [pass EXCEPT ![q] = Entered(a, "error")]
           \/ pass' = [pass EXCEPT ![q] = [pass[q] EXCEPT !.cur = a]]
    BY <1>10, OutcomeCases
  <2>2. Same([pass[q] EXCEPT !.cur = a])
    BY <1>1 DEF Process
  <2>3. Same(Entered(a, "error"))
    BY <1>1, <1>10 DEF Entered, Process
  <2>4. Same(Drained)
    BY DrainedType
  <2> HIDE DEF Same
  <2> QED BY <1>2, <2>1, <2>2, <2>3, <2>4
<1> QED
  BY <1>4, <1>5, <1>6, <1>7, <1>8, <1>9, <1>10

(* A call that is asked is one that the pass knows no answer to. *)
LEMMA ConsultUnknown ==
    ASSUME TypeOK, Paying, ~ beside, NEW q \in Pass, NEW j \in Slot, Consult(q, j),
           NEW p \in Pass, NEW i \in Slot,
           pass[p].slot[i] = "waiting", pass'[p].slot[i] = "asking"
    PROVE  \A c \in paid : Key(c) # Key(Call(p, i))
<1> DEFINE hit == Get(pass[q].mem, Call(q, j))
           st == IF hit = {} THEN "asking" ELSE "done"
           w == [pass[q] EXCEPT !.ev[j] = hit, !.slot[j] = st]
<1>1. pass[q] \in Process /\ pass \in [Pass -> Process]
  BY DEF TypeOK
<1>2. pass' = [pass EXCEPT ![q] = w] /\ pass[q].pc = "grading"
  BY DEF Consult, Grading
<1>3. st = "asking" => hit = {}
  OBVIOUS
<1> HIDE DEF hit, st
<1>4. w.slot[j] = st /\ \A k \in Slot \ {j} : w.slot[k] = pass[q].slot[k]
  BY <1>1 DEF Process
<1> HIDE DEF w
<1>5. pass'[q] = w /\ \A r \in Pass \ {q} : pass'[r] = pass[r]
  BY <1>1, <1>2
<1>6. p = q /\ i = j /\ st = "asking"
  BY <1>4, <1>5
<1>7. Known(pass[q].mem)
  BY <1>2 DEF Paying, Flushing
<1> QED
  BY <1>3, <1>6, <1>7 DEF hit, Get, Known

LEMMA AskingUnknown ==
    ASSUME StoreAssumption, TypeOK, Paying, [Next]_vars, NEW p \in Pass, NEW i \in Slot,
           pass[p].slot[i] = "waiting", pass'[p].slot[i] = "asking"
    PROVE  beside \/ \A c \in paid : Key(c) # Key(Call(p, i))
<1>1. ~ Quiet(p, i)
  BY DEF Quiet
<1>2. PICK q \in Pass, j \in Slot : Consult(q, j)
  <2>1. CASE (TreeNext /\ UNCHANGED storeVars) \/ UNCHANGED vars \/ Edit \/ Tick
    BY <2>1 DEF vars, storeVars, Edit, Tick
  <2>2. ASSUME NEW q \in Pass, NEW j \in Slot,
               Answer(q, j) \/ WriteTmp(q, j) \/ Replace(q, j) \/ JudgeFails(q, j)
        PROVE  FALSE
    BY <1>1, <2>2, QuietGrading
  <2>3. ASSUME NEW q \in Pass,
               \/ Begin(q) \/ TakeTarget(q) \/ AllGraded(q) \/ Score(q) \/ NameReport(q)
               \/ WriteReport(q) \/ PassDies(q)
               \/ q = 0 /\ (TakeOutcome \/ RunCleans \/ WriteRunJson)
        PROVE  FALSE
    BY <1>1, <2>3, QuietRest
  <2>4. 0 \in Pass
    BY DEF StoreAssumption, Pass
  <2> QED BY <2>1, <2>2, <2>3, <2>4 DEF Next
<1> QED
  BY <1>2, ConsultUnknown

(* A verdict that was flushed is never paid for again under its key, through *)
(* crashes of a pass at any point of a flush and through any edits of the    *)
(* criteria, as long as no two passes run at once.                           *)
THEOREM PaidOnlyOnce == Spec => PaidOnce
<1>1. Init => Judging /\ Paying
  BY JudgingInit, PayingInit, TreeAssumption, StoreAssumption
<1>2. TypeOK /\ Judging /\ Paying /\ [Next]_vars => Judging' /\ Paying'
  BY JudgingStep, PayingStep, TreeAssumption, StoreAssumption
<1>3. TypeOK /\ Paying /\ [Next]_vars =>
        [\A p \in Pass, i \in Slot :
            pass[p].slot[i] = "waiting" /\ pass'[p].slot[i] = "asking" =>
                beside \/ \A c \in paid : Key(c) # Key(Call(p, i))]_vars
  BY AskingUnknown, StoreAssumption
<1> QED
  BY <1>1, <1>2, <1>3, StoreTypes, PTL DEF Spec, PaidOnce
=============================================================================
