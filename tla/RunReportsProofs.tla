-------------------------- MODULE RunReportsProofs --------------------------
(***************************************************************************)
(* Theorems about the reports of RunStore, for any number of tasks,        *)
(* attempts, rescores, edits and mishaps: a report once written stays, and *)
(* lacks none of the attempts of its scope unless a rate limit ended the   *)
(* run; and who reads the store finds the one written last.                *)
(***************************************************************************)
EXTENDS RunStoreProofs, WellFoundedInduction

----------------------------------------------------------------------------
(* A pass enters each attempt of its scope once.  w is the process of pass p. *)
Graded(w) == {e.attempt : e \in w.done}
OncePer(d) == IsFiniteSet(d) /\ \A e, f \in d : e.attempt = f.attempt => e = f

Accounts(p, w) ==
    /\ OncePer(w.done) /\ w.cur \notin Graded(w)
    /\ p # 0 => w.pc \notin {"closing", "draining"}
    /\ w.pc \notin {"grading", "draining", "naming", "writing"} => w.done = {}
    /\ p = 0 /\ w.pc = "draining" => limitHit
    /\ p = 0 /\ w.pc \in {"naming", "writing"} => Graded(w) = Attempt \/ limitHit
    /\ p # 0 /\ w.pc \in {"grading", "naming", "writing"} =>
          /\ Graded(w) \cup w.todo \cup ({w.cur} \ {NoAttempt}) = Targets(w.scope)
          /\ w.todo \cap (Graded(w) \cup {w.cur}) = {}
          /\ w.pc # "grading" => w.todo = {}

(* The name it found free is free while nobody runs beside it.              *)
Named(w) == w.pc = "writing" => beside \/ ~ Taken(w.ts, w.n)

Complete(r) ==
    /\ OncePer(r.attempts)
    /\ IF r.by = 0 THEN Graded([done |-> r.attempts]) = Attempt \/ limitHit
       ELSE Graded([done |-> r.attempts]) = {a \in Attempt : a[1] \in r.scope /\ archive[a].there}

Stands(j) ==
    \/ published[j] \in reports
    \/ beside /\ \E k \in DOMAIN published : k # j /\ SameName(published[j], published[k])

Reporting ==
    /\ \A p \in Pass : Accounts(p, pass[p]) /\ Named(pass[p])
    /\ \A r, s \in reports : r.by = s.by => r = s
    /\ \A j \in DOMAIN published :
          /\ pass[published[j].by].pc \in {"closing", "over"}
          /\ Complete(published[j]) /\ Stands(j)

LEMMA OnceCounts ==
    ASSUME NEW d, OncePer(d)
    PROVE  Cardinality(d) = Cardinality({e.attempt : e \in d})
<1> DEFINE T == {e.attempt : e \in d}
           f == [e \in d |-> e.attempt]
<1>1. f \in [d -> T] /\ (\A x, y \in d : f[x] = f[y] => x = y) /\ \A t \in T : \E x \in d : f[x] = t
  BY DEF OncePer
<1>2. f \in Bijection(d, T)
  BY <1>1 DEF Bijection, Injection, IsInjective, Surjection
<1>3. ExistsBijection(d, T)
  BY <1>2 DEF ExistsBijection
<1> QED
  BY <1>3, FS_Bijection DEF OncePer

LEMMA OnceAdds ==
    ASSUME NEW d, OncePer(d), NEW e, e.attempt \notin {f.attempt : f \in d}
    PROVE  OncePer(d \cup {e})
  BY FS_AddElement DEF OncePer

LEMMA ReportingHolds == Reporting => ReportsStay
<1> SUFFICES ASSUME Reporting, NEW j \in DOMAIN published
             PROVE  LET r == published[j]
                        entered == {e.attempt : e \in r.attempts}
                    IN
                    /\ r \in reports
                        \/ (beside /\ \E k \in DOMAIN published : k # j /\ SameName(r, published[k]))
                    /\ Cardinality(r.attempts) = Cardinality(entered)
                    /\ IF r.by = 0 THEN entered = Attempt \/ limitHit
                       ELSE entered = {a \in Attempt : a[1] \in r.scope /\ archive[a].there}
  BY DEF ReportsStay
<1>1. Complete(published[j]) /\ Stands(j)
  BY DEF Reporting
<1> QED
  BY <1>1, OnceCounts DEF Complete, Stands, Graded

LEMMA ReportingInit == StoreAssumption /\ Init => Reporting
<1> SUFFICES ASSUME StoreAssumption, Init PROVE Reporting
  OBVIOUS
<1>1. /\ 0 \in Pass /\ published = <<>> /\ reports = {}
  BY DEF StoreAssumption, Pass, Init
<1>2. /\ \A p \in Pass : pass[p].done = {}
      /\ pass[0].pc = "grading" /\ pass[0].scope = Task
      /\ \A p \in Pass : p # 0 => pass[p].pc = "idle"
  BY <1>1 DEF Init, NoPass
<1>3. OncePer({})
  BY FS_EmptySet DEF OncePer
<1>4. ASSUME NEW p \in Pass PROVE Accounts(p, pass[p]) /\ Named(pass[p])
  BY <1>2, <1>3 DEF Accounts, Named, Graded
<1> QED
  BY <1>1, <1>4 DEF Reporting

(* Once a rescore may run, the archive is closed.                            *)
LEMMA ArchiveClosed ==
    ASSUME StoreAssumption, TypeOK, Judging, NEW p \in Pass, p # 0, pass[p].pc # "idle"
    PROVE  pass[0].pc = "over" /\ \A a \in Attempt : Over(a)
<1>1. runJson
  BY DEF Judging, Orderly, Rescore
<1> QED
  BY <1>1 DEF Judging, Orderly, Over

(* What an entry says stays true while the archive of its attempt does.      *)
SameArchive(p) == p # 0 => \A a \in Attempt : archive'[a].there = archive[a].there

LEMMA AccountsStay ==
    ASSUME NEW p \in Pass, NEW v, NEW w, Accounts(p, v), w.pc = v.pc, w.done = v.done,
           w.cur = v.cur, w.scope = v.scope, w.todo = v.todo, limitHit => limitHit',
           v.pc \in {"grading", "naming", "writing"} => SameArchive(p)
    PROVE  Accounts(p, w)'
<1>1. p # 0 /\ v.pc \in {"grading", "naming", "writing"} => Targets(w.scope)' = Targets(v.scope)
  BY DEF Targets, SameArchive
<1> QED
  BY <1>1 DEF Accounts, Graded

(* Steps that write no report. *)
LEMMA NothingWritten ==
    ASSUME StoreAssumption, TypeOK, Judging, Reporting, UNCHANGED <<reports, published>>,
           beside => beside', limitHit => limitHit',
           \A a \in Attempt : Over(a) => archive'[a] = archive[a],
           \A p \in Pass : pass[p].pc \in {"closing", "over"} => pass'[p].pc \in {"closing", "over"},
           \A p \in Pass : Accounts(p, pass[p])' /\ Named(pass[p])'
    PROVE  Reporting'
<1>1. ASSUME NEW j \in DOMAIN published
      PROVE  /\ pass'[published[j].by].pc \in {"closing", "over"}
             /\ Complete(published[j])' /\ Stands(j)'
  <2>1. published[j] \in Published
    BY DEF TypeOK
  <2>2. published[j].by \in Pass
    BY <2>1 DEF Published
  <2>3. pass[published[j].by].pc \in {"closing", "over"} /\ Complete(published[j]) /\ Stands(j)
    BY DEF Reporting
  <2>4. published[j].by # 0 => \A a \in Attempt : archive'[a] = archive[a]
    BY <2>2, <2>3, ArchiveClosed
  <2>5. Complete(published[j])'
    BY <2>3, <2>4 DEF Complete
  <2>6. Stands(j)'
    BY <2>3 DEF Stands
  <2> QED BY <2>2, <2>3, <2>5, <2>6
<1> QED
  BY <1>1 DEF Reporting

(* A step of pass p that writes no report and leaves the archive alone.      *)
LEMMA OneReporting ==
    ASSUME StoreAssumption, TypeOK, Judging, Reporting, NEW p \in Pass,
           UNCHANGED <<reports, published, archive>>, beside => beside', limitHit => limitHit',
           \A q \in Pass \ {p} : \E f : pass'[q] = [pass[q] EXCEPT !.fd = f],
           pass[p].pc \in {"closing", "over"} => pass'[p].pc \in {"closing", "over"},
           Accounts(p, pass[p])' /\ Named(pass[p])'
    PROVE  Reporting'
<1>1. ASSUME NEW q \in Pass \ {p}
      PROVE  Accounts(q, pass[q])' /\ Named(pass[q])' /\ pass'[q].pc = pass[q].pc
  <2>1. PICK f : pass'[q] = [pass[q] EXCEPT !.fd = f]
    OBVIOUS
  <2>2. pass[q] \in Process
    BY DEF TypeOK
  <2>3. /\ pass'[q].pc = pass[q].pc /\ pass'[q].done = pass[q].done /\ pass'[q].cur = pass[q].cur
        /\ pass'[q].scope = pass[q].scope /\ pass'[q].todo = pass[q].todo
        /\ pass'[q].ts = pass[q].ts /\ pass'[q].n = pass[q].n
    BY <2>1, <2>2 DEF Process
  <2>4. Accounts(q, pass[q]) /\ Named(pass[q])
    BY DEF Reporting
  <2>5. ASSUME NEW w, w = pass'[q] PROVE Accounts(q, w)'
    BY <2>3, <2>4, <2>5, AccountsStay DEF SameArchive
  <2>6. Accounts(q, pass[q])'
    BY <2>5 DEF Accounts, Graded, Targets
  <2> QED BY <2>3, <2>4, <2>6 DEF Named, Taken
<1>2. \A q \in Pass : Accounts(q, pass[q])' /\ Named(pass[q])'
  BY <1>1
<1>3. \A q \in Pass : pass[q].pc \in {"closing", "over"} => pass'[q].pc \in {"closing", "over"}
  BY <1>1
<1> QED
  BY <1>2, <1>3, NothingWritten

LEMMA TreeReporting ==
    ASSUME StoreAssumption, TypeOK, Judging, Reporting, TreeNext, UNCHANGED storeVars
    PROVE  Reporting'
<1>1. UNCHANGED <<pass, reports, published, beside, limitHit>>
  BY DEF storeVars
<1>2. \A a \in Attempt : Over(a) => archive'[a] = archive[a]
  BY TreeRests DEF TypeOK, Rests
<1>3. ASSUME NEW p \in Pass PROVE Accounts(p, pass[p])' /\ Named(pass[p])'
  <2>1. Accounts(p, pass[p]) /\ Named(pass[p])
    BY DEF Reporting
  <2>2. pass[p].pc \in {"grading", "naming", "writing"} => SameArchive(p)
    BY <1>2, ArchiveClosed DEF SameArchive
  <2>3. Accounts(p, pass[p])'
    BY <1>1, <2>1, <2>2, AccountsStay
  <2> QED BY <1>1, <2>1, <2>3 DEF Named, Taken
<1> QED
  BY <1>1, <1>2, <1>3, NothingWritten

LEMMA ReportingStays ==
    ASSUME Reporting, UNCHANGED <<pass, reports, published, archive, beside, limitHit>>
    PROVE  Reporting'
  BY DEF Reporting, Accounts, Named, Complete, Stands, Graded, Taken, Targets

LEMMA PassMoves ==
    ASSUME StoreAssumption, TypeOK, Judging, Reporting, NEW p \in Pass, NEW w,
           pass' = [pass EXCEPT ![p] = w],
           UNCHANGED <<reports, published, archive>>, beside => beside', limitHit => limitHit',
           pass[p].pc \in {"closing", "over"} => w.pc \in {"closing", "over"},
           Accounts(p, w) \/ Accounts(p, w)', Named(w)
    PROVE  Reporting'
<1>1. pass'[p] = w /\ \A q \in Pass \ {p} : pass'[q] = pass[q]
  BY DEF TypeOK
<1>2. Accounts(p, w)'
  BY AccountsStay DEF SameArchive
<1>3. Accounts(p, pass[p])' /\ Named(pass[p])'
  BY <1>1, <1>2 DEF Accounts, Graded, Targets, Named, Taken
<1> QED
  BY <1>1, <1>3, FdStays, OneReporting

LEMMA NoPassAccounts ==
    ASSUME NEW p \in Pass, NEW c, c \notin {"grading", "draining", "naming", "writing"},
           p = 0 \/ c # "closing"
    PROVE  LET w == [NoPass EXCEPT !.pc = c] IN
           w.pc = c /\ w.done = {} /\ Accounts(p, w) /\ Named(w)
<1>1. OncePer({})
  BY FS_EmptySet DEF OncePer
<1> QED
  BY <1>1 DEF NoPass, Accounts, Named, Graded

LEMMA AddsEntry ==
    ASSUME NEW v, OncePer(v.done), NEW e, e.attempt \notin Graded(v),
           NEW d, d = v.done \cup {e}
    PROVE  OncePer(d) /\ {f.attempt : f \in d} = Graded(v) \cup {e.attempt}
<1>1. e.attempt \notin {f.attempt : f \in v.done}
  BY DEF Graded
<1>2. OncePer(v.done \cup {e})
  BY <1>1, OnceAdds
<1> QED
  BY <1>2 DEF Graded

(* The loop is left only with the limit hit.                                 *)
LEMMA DrainedReporting ==
    ASSUME StoreAssumption, TypeOK, Judging, Reporting, pass[0].pc = "grading",
           pass' = [pass EXCEPT ![0] = Drained], limitHit',
           UNCHANGED <<reports, published, archive, beside>>
    PROVE  Reporting'
<1>1. PICK w : w = Drained
  OBVIOUS
<1>2. /\ 0 \in Pass /\ pass' = [pass EXCEPT ![0] = w]
      /\ w.pc = "draining" /\ w.cur = NoAttempt /\ w.done = pass[0].done
  BY <1>1, DrainedType
<1>3. Accounts(0, pass[0]) /\ pass[0] \in Process
  BY <1>2 DEF Reporting, TypeOK
<1>4. NoAttempt \notin Graded(pass[0])
  BY <1>3, NamesApart, TreeAssumption DEF Process, Graded, Entries
<1>5. Accounts(0, w)' /\ Named(w)
  BY <1>2, <1>3, <1>4 DEF Accounts, Graded, Named
<1> QED
  BY <1>2, <1>5, PassMoves

LEMMA TakeOutcomeReporting ==
    ASSUME StoreAssumption, TypeOK, Judging, Reporting, TakeOutcome
    PROVE  Reporting'
<1>0. /\ 0 \in Pass /\ pass[0] \in Process
      /\ pass[0].cur = NoAttempt /\ pass[0].pc = "grading" /\ Accounts(0, pass[0])
      /\ UNCHANGED <<reports, published, archive, beside>>
  BY DEF StoreAssumption, Pass, TypeOK, TakeOutcome, Reporting, treeVars
<1>1. PICK a \in Outcomes :
         \/ pass' = [pass EXCEPT ![0] = Drained] /\ limitHit'
         \/ UNCHANGED limitHit /\ pass' = [pass EXCEPT ![0] = Entered(a, "error")]
         \/ UNCHANGED limitHit /\ pass' = [pass EXCEPT ![0] = [pass[0] EXCEPT !.cur = a]]
  BY OutcomeCases
<1>2. a \in Attempt /\ a # NoAttempt /\ a \notin Graded(pass[0])
  BY NamesApart, TreeAssumption DEF Outcomes, Graded
<1>3. ASSUME NEW w, w = [pass[0] EXCEPT !.cur = a], pass' = [pass EXCEPT ![0] = w],
             UNCHANGED limitHit
      PROVE  Reporting'
  <2>1. /\ w.pc = "grading" /\ w.cur = a /\ w.done = pass[0].done
    BY <1>0, <1>3 DEF Process
  <2>2. Accounts(0, w) /\ Named(w)
    BY <1>0, <1>2, <2>1 DEF Accounts, Graded, Named
  <2> QED BY <1>0, <1>3, <2>1, <2>2, PassMoves
<1>4. ASSUME NEW w, w = Entered(a, "error"), pass' = [pass EXCEPT ![0] = w], UNCHANGED limitHit
      PROVE  Reporting'
  <2>1. /\ w.pc = "grading" /\ w.cur = NoAttempt
        /\ w.done = pass[0].done \cup {Entry(a, "error")}
    BY <1>0, <1>4 DEF Process, Entered
  <2>2. OncePer(w.done) /\ Graded(w) = Graded(pass[0]) \cup {a}
    <3>1. OncePer(pass[0].done)
      BY <1>0 DEF Accounts
    <3>2. Entry(a, "error").attempt = a
      BY DEF Entry
    <3> QED BY <1>2, <2>1, <3>1, <3>2, AddsEntry DEF Graded
  <2>3. Accounts(0, w) /\ Named(w)
    BY <1>0, <1>2, <2>1, <2>2 DEF Accounts, Named
  <2> QED BY <1>0, <1>4, <2>1, <2>3, PassMoves
<1> QED
  BY <1>0, <1>1, <1>3, <1>4, DrainedReporting

LEMMA BeginReporting ==
    ASSUME StoreAssumption, TypeOK, Judging, Reporting, NEW p \in Pass, Begin(p)
    PROVE  Reporting'
<1>0. /\ pass[p] \in Process /\ pass[p].pc = "idle" /\ pass[p].cur = NoAttempt
      /\ pass[p].done = {} /\ p # 0
      /\ UNCHANGED <<reports, published, archive, limitHit>>
  BY DEF TypeOK, Begin, MayBegin, Reporting, Accounts, Judging, Holds, Orderly
<1>1. beside => beside'
  BY DEF Begin
<1>2. PICK scope \in Scopes :
         pass' = [pass EXCEPT ![p].pc = IF Targets(scope) = {} THEN "failed" ELSE "grading",
                              ![p].scope = scope, ![p].todo = Targets(scope),
                              ![p].model = model, ![p].mem = Loaded]
  BY DEF Begin
<1>3. PICK c, todo : /\ todo = Targets(scope)
                     /\ c = IF Targets(scope) = {} THEN "failed" ELSE "grading"
  OBVIOUS
<1>4. PICK w : w = [pass[p] EXCEPT !.pc = c, !.scope = scope, !.todo = todo,
                                   !.model = model, !.mem = Loaded]
  OBVIOUS
<1>5. pass' = [pass EXCEPT ![p] = w]
  BY <1>2, <1>3, <1>4
<1>6. w.pc = c /\ w.scope = scope /\ w.todo = todo /\ w.cur = NoAttempt /\ w.done = {}
  BY <1>0, <1>4 DEF Process
<1>7. OncePer({}) /\ NoAttempt \notin todo
  BY <1>3, FS_EmptySet, NamesApart, TreeAssumption DEF OncePer, Targets
<1>8. Accounts(p, w) /\ Named(w)
  BY <1>0, <1>3, <1>6, <1>7 DEF Accounts, Graded, Named
<1> QED
  BY <1>0, <1>1, <1>5, <1>6, <1>8, PassMoves

LEMMA TakeTargetReporting ==
    ASSUME StoreAssumption, TypeOK, Judging, Reporting, NEW p \in Pass, TakeTarget(p)
    PROVE  Reporting'
<1>0. /\ pass[p] \in Process /\ pass[p].pc = "grading" /\ pass[p].cur = NoAttempt /\ p # 0
      /\ Accounts(p, pass[p])
      /\ UNCHANGED <<reports, published, archive, beside, limitHit>>
  BY DEF TypeOK, TakeTarget, Between, Reporting, treeVars
<1>1. PICK a \in pass[p].todo :
         \/ pass' = [pass EXCEPT ![p] = [pass[p] EXCEPT !.cur = a, !.todo = @ \ {a},
                                                       !.version = version, !.shown = shown]]
         \/ pass' = [pass EXCEPT ![p] = [NoPass EXCEPT !.pc = "failed"]]
  BY TakeTargetCases
<1>2. a # NoAttempt
  BY <1>0, NamesApart, TreeAssumption DEF Process
<1>3. ASSUME NEW w, w = [pass[p] EXCEPT !.cur = a, !.todo = @ \ {a}, !.version = version,
                                        !.shown = shown],
             pass' = [pass EXCEPT ![p] = w]
      PROVE  Reporting'
  <2>1. /\ w.pc = "grading" /\ w.cur = a /\ w.done = pass[p].done /\ w.scope = pass[p].scope
        /\ w.todo = pass[p].todo \ {a}
    BY <1>0, <1>3 DEF Process
  <2>2. Accounts(p, w) /\ Named(w)
    BY <1>0, <1>2, <2>1 DEF Accounts, Graded, Named
  <2> QED BY <1>0, <1>3, <2>1, <2>2, PassMoves
<1>4. ASSUME NEW w, w = [NoPass EXCEPT !.pc = "failed"], pass' = [pass EXCEPT ![p] = w]
      PROVE  Reporting'
  BY <1>0, <1>4, NoPassAccounts, PassMoves
<1> QED
  BY <1>1, <1>3, <1>4

LEMMA ScoreReporting ==
    ASSUME StoreAssumption, TypeOK, Judging, Reporting, NEW p \in Pass, Score(p)
    PROVE  Reporting'
<1>0. /\ pass[p] \in Process /\ pass[p].pc = "grading" /\ pass[p].cur \in Attempt
      /\ Accounts(p, pass[p])
      /\ UNCHANGED <<reports, published, archive, beside>>
  BY DEF TypeOK, Score, Grading, Reporting, treeVars, Process
<1>1. \/ p = 0 /\ limitHit' /\ pass' = [pass EXCEPT ![p] = Drained]
      \/ /\ p # 0 /\ UNCHANGED limitHit
         /\ pass' = [pass EXCEPT ![p] = [NoPass EXCEPT !.pc = "failed"]]
      \/ /\ UNCHANGED limitHit
         /\ \E v \in {"graded", "error"} : pass' = [pass EXCEPT ![p] = Scored(p, v)]
  BY ScoreCases
<1>2. ASSUME NEW v \in {"graded", "error"}, NEW w, w = Scored(p, v),
             pass' = [pass EXCEPT ![p] = w], UNCHANGED limitHit
      PROVE  Reporting'
  <2>1. /\ w.pc = "grading" /\ w.cur = NoAttempt /\ w.scope = pass[p].scope
        /\ w.todo = pass[p].todo /\ w.done = pass[p].done \cup {Entry(pass[p].cur, v)}
    BY <1>0, <1>2, ScoredType
  <2>2. OncePer(w.done) /\ Graded(w) = Graded(pass[p]) \cup {pass[p].cur}
    <3>1. OncePer(pass[p].done) /\ pass[p].cur \notin Graded(pass[p])
      BY <1>0 DEF Accounts
    <3>2. Entry(pass[p].cur, v).attempt = pass[p].cur
      BY DEF Entry
    <3> QED BY <2>1, <3>1, <3>2, AddsEntry DEF Graded
  <2>3. NoAttempt \notin Graded(pass[p]) /\ NoAttempt \notin pass[p].todo
    BY <1>0, NamesApart, TreeAssumption DEF Process, Graded, Entries
  <2>4. Accounts(p, w) /\ Named(w)
    BY <1>0, <2>1, <2>2, <2>3, NamesApart, TreeAssumption DEF Accounts, Named
  <2> QED BY <1>0, <1>2, <2>1, <2>4, PassMoves
<1>3. ASSUME NEW w, w = [NoPass EXCEPT !.pc = "failed"], pass' = [pass EXCEPT ![p] = w],
             UNCHANGED limitHit
      PROVE  Reporting'
  BY <1>0, <1>3, NoPassAccounts, PassMoves
<1> QED
  BY <1>0, <1>1, <1>2, <1>3, DrainedReporting

----------------------------------------------------------------------------
(* Names.  Every report has a writer of its own, which has ended, so that    *)
(* one who looks for a name finds fewer names taken than there are passes.   *)

LEMMA LeastNatural ==
    ASSUME NEW T, T \subseteq Nat, T # {}
    PROVE  \E i \in T : \A j \in T : i <= j
<1> DEFINE Less == {ij \in Nat \X Nat : ij[1] < ij[2]}
<1>1. IsWellFoundedOn(Less, Nat)
  BY NatLessThanWellFounded DEF OpToRel
<1>2. \A i, j \in Nat : j < i => <<j, i>> \in Less
  OBVIOUS
<1> HIDE DEF Less
<1>3. PICK i \in T : \A j \in T : ~ (<<j, i>> \in Less)
  BY <1>1, WFMin
<1>4. \A j \in T : i \in Nat /\ j \in Nat /\ ~ (j < i)
  BY <1>2, <1>3
<1> QED BY <1>4

LEMMA WritersApart ==
    ASSUME TypeOK, Reporting
    PROVE  /\ \A r \in reports : r.by \in Pass /\ pass[r.by].pc \in {"closing", "over"}
           /\ \A r, s \in reports : r.by = s.by => r = s
<1>1. ASSUME NEW r \in reports PROVE r.by \in Pass /\ pass[r.by].pc \in {"closing", "over"}
  <2>1. PICK j \in DOMAIN published : r = published[j]
    BY DEF TypeOK
  <2>2. published[j] \in Published
    BY DEF TypeOK
  <2> QED BY <2>1, <2>2 DEF Reporting, Published
<1> QED
  BY <1>1 DEF Reporting

LEMMA SomeNameFree ==
    ASSUME StoreAssumption, TypeOK, Reporting, NEW p \in Pass, pass[p].pc = "naming", NEW ts
    PROVE  \E n \in 1..(MaxRescores + 1) : ~ Taken(ts, n)
<1> DEFINE N == 1..(MaxRescores + 1)
           Q == Pass \ {p}
<1>1. /\ IsFiniteSet(N) /\ Cardinality(N) = MaxRescores + 1
      /\ IsFiniteSet(Pass) /\ Cardinality(Pass) = MaxRescores + 1
  <2>1. MaxRescores \in Nat
    BY DEF StoreAssumption
  <2>2. IsFiniteSet(N) /\ Cardinality(N) = IF 1 > MaxRescores + 1 THEN 0 ELSE (MaxRescores + 1) - 1 + 1
    BY <2>1, FS_Interval
  <2>3. /\ IsFiniteSet(0..MaxRescores)
        /\ Cardinality(0..MaxRescores) = IF 0 > MaxRescores THEN 0 ELSE MaxRescores - 0 + 1
    BY <2>1, FS_Interval
  <2> QED BY <2>1, <2>2, <2>3 DEF Pass
<1>2. IsFiniteSet(Q) /\ Cardinality(Q) = MaxRescores
  <2>1. IsFiniteSet(Q) /\ Cardinality(Q) = Cardinality(Pass) - 1
    BY <1>1, FS_RemoveElement
  <2> QED BY <1>1, <2>1 DEF StoreAssumption
<1>3. SUFFICES ASSUME \A n \in N : Taken(ts, n) PROVE FALSE
  OBVIOUS
<1>4. \A n \in N : \E r \in reports : r.ts = ts /\ r.n = n
  BY <1>3 DEF Taken
<1> DEFINE named(n) == CHOOSE r \in reports : r.ts = ts /\ r.n = n
           by == [n \in N |-> named(n).by]
<1>5. \A n \in N : named(n) \in reports /\ named(n).n = n
  BY <1>4
<1> HIDE DEF named
<1>6. by \in [N -> Q]
  BY <1>5, WritersApart
<1>7. Cardinality(Q) < Cardinality(N)
  BY <1>1, <1>2 DEF StoreAssumption
<1>8. \A x, y \in N : by[x] = by[y] => x = y
  BY <1>5, WritersApart
<1> HIDE DEF N, Q, by
<1>9. \E x, y \in N : x # y /\ by[x] = by[y]
  BY <1>1, <1>2, <1>6, <1>7, FS_PigeonHole
<1> QED
  BY <1>8, <1>9

LEMMA FreeNameFree ==
    ASSUME StoreAssumption, TypeOK, Reporting, NEW p \in Pass, pass[p].pc = "naming", NEW ts
    PROVE  FreeName(ts) \in 1..(MaxRescores + 1) /\ ~ Taken(ts, FreeName(ts))
<1> DEFINE N == 1..(MaxRescores + 1)
           Free == {n \in N : ~ Taken(ts, n)}
<1>1. Free # {} /\ Free \subseteq Nat
  <2>1. \E n \in N : ~ Taken(ts, n)
    BY SomeNameFree
  <2>2. N \subseteq Nat
    BY DEF StoreAssumption
  <2> QED BY <2>1, <2>2
<1>2. PICK u \in Free : \A n \in Free : u <= n
  <2> HIDE DEF Free
  <2> QED BY <1>1, LeastNatural
<1>3. u \in N /\ ~ Taken(ts, u) /\ \A m \in 1..(u - 1) : Taken(ts, m)
  BY <1>2 DEF StoreAssumption
<1>4. {n \in N : \A m \in 1..n : Taken(ts, m)} = 1..(u - 1)
  <2>1. ASSUME NEW n \in N, \A m \in 1..n : Taken(ts, m) PROVE n \in 1..(u - 1)
    <3>1. ~ (u \in 1..n)
      BY <1>3, <2>1
    <3> QED BY <1>3, <2>1, <3>1 DEF StoreAssumption
  <2>2. ASSUME NEW n \in 1..(u - 1) PROVE n \in N /\ \A m \in 1..n : Taken(ts, m)
    BY <1>3, <2>2 DEF StoreAssumption
  <2> QED BY <2>1, <2>2
<1>5. Cardinality(1..(u - 1)) = u - 1
  <2>1. u \in Nat /\ u >= 1
    BY <1>3 DEF StoreAssumption
  <2>2. Cardinality(1..(u - 1)) = IF 1 > u - 1 THEN 0 ELSE (u - 1) - 1 + 1
    BY <2>1, FS_Interval
  <2> QED BY <2>1, <2>2
<1>6. FreeName(ts) = u
  <2>1. FreeName(ts) = 1 + Cardinality({n \in N : \A m \in 1..n : Taken(ts, m)})
    BY DEF FreeName
  <2>2. FreeName(ts) = 1 + Cardinality(1..(u - 1))
    BY <1>4, <2>1
  <2>3. u \in Int
    BY <1>3 DEF StoreAssumption
  <2> QED BY <1>5, <2>2, <2>3
<1> QED
  BY <1>3, <1>6

(* The run finds no report, since nobody rescores what has no run.json.      *)
LEMMA NoneBeforeRun ==
    ASSUME StoreAssumption, TypeOK, Judging, Reporting, pass[0].pc \notin {"closing", "over"}
    PROVE  reports = {}
<1> SUFFICES ASSUME NEW r \in reports PROVE FALSE
  OBVIOUS
<1>1. r.by \in Pass /\ pass[r.by].pc \in {"closing", "over"}
  BY WritersApart
<1>2. r.by # 0
  BY <1>1
<1> QED
  BY <1>1, <1>2, ArchiveClosed

LEMMA NameReporting ==
    ASSUME StoreAssumption, TypeOK, Judging, Reporting, NEW p \in Pass, NameReport(p)
    PROVE  Reporting'
<1>0. /\ pass[p] \in Process /\ pass[p].pc = "naming" /\ Accounts(p, pass[p])
      /\ UNCHANGED <<reports, published, archive, beside, limitHit>>
  BY DEF TypeOK, NameReport, Reporting, treeVars
<1>1. PICK k : k = IF p = 0 THEN 1 ELSE FreeName(clock)
  OBVIOUS
<1>2. PICK w : w = [pass[p] EXCEPT !.pc = "writing", !.ts = clock, !.n = k]
  OBVIOUS
<1>3. pass' = [pass EXCEPT ![p] = w]
  BY <1>1, <1>2 DEF NameReport
<1>4. /\ w.pc = "writing" /\ w.ts = clock /\ w.n = k /\ w.done = pass[p].done
      /\ w.cur = pass[p].cur /\ w.scope = pass[p].scope /\ w.todo = pass[p].todo
  BY <1>0, <1>2 DEF Process
<1>5. ~ Taken(clock, k)
  <2>1. CASE p = 0
    BY <1>0, <2>1, NoneBeforeRun DEF Taken
  <2>2. CASE p # 0
    BY <1>0, <1>1, <2>2, FreeNameFree
  <2> QED BY <2>1, <2>2
<1>6. Accounts(p, w) /\ Named(w)
  BY <1>0, <1>4, <1>5 DEF Accounts, Graded, Named
<1> QED
  BY <1>0, <1>3, <1>6, PassMoves

----------------------------------------------------------------------------
(* The other steps. *)

(* What a judge is asked, answers and flushes moves no pass on.              *)
LEMMA JudgeMoves ==
    ASSUME TypeOK, NEW p \in Pass, NEW i \in Slot,
           Consult(p, i) \/ Answer(p, i) \/ WriteTmp(p, i) \/ Replace(p, i) \/ JudgeFails(p, i)
    PROVE  /\ pass[p].pc = "grading"
           /\ UNCHANGED <<reports, published, archive, beside, clock, limitHit>>
           /\ pass'[p].pc = pass[p].pc /\ pass'[p].done = pass[p].done
           /\ pass'[p].cur = pass[p].cur /\ pass'[p].scope = pass[p].scope
           /\ pass'[p].todo = pass[p].todo
           /\ \A q \in Pass \ {p} : \E f : pass'[q] = [pass[q] EXCEPT !.fd = f]
<1>0. /\ pass[p] \in Process /\ pass \in [Pass -> Process] /\ pass[p].pc = "grading"
      /\ UNCHANGED <<reports, published, archive, beside, clock, limitHit>>
  BY DEF TypeOK, Consult, Answer, WriteTmp, Replace, JudgeFails, Grading, treeVars
<1> DEFINE Same(w) == /\ w.pc = pass[p].pc /\ w.done = pass[p].done /\ w.cur = pass[p].cur
                      /\ w.scope = pass[p].scope /\ w.todo = pass[p].todo
<1>1. ASSUME NEW st, NEW f, NEW v, NEW m,
             \/ pass'[p] = [pass[p] EXCEPT !.ev[i] = v, !.slot[i] = st]
             \/ pass'[p] = [pass[p] EXCEPT !.slot[i] = st, !.ev[i] = v, !.mem = m, !.fd = f]
             \/ pass'[p] = [pass[p] EXCEPT !.slot[i] = st, !.fd = f]
             \/ pass'[p] = [pass[p] EXCEPT !.slot[i] = st]
      PROVE  Same(pass'[p])
  BY <1>0, <1>1 DEF Process
<1> SUFFICES Same(pass'[p]) /\ \A q \in Pass \ {p} : \E f : pass'[q] = [pass[q] EXCEPT !.fd = f]
  BY <1>0
<1> HIDE DEF Same
<1>2. CASE Consult(p, i)
  <2> DEFINE hit == Get(pass[p].mem, Call(p, i))
             st == IF hit = {} THEN "asking" ELSE "done"
  <2>1. pass' = [pass EXCEPT ![p] = [pass[p] EXCEPT !.ev[i] = hit, !.slot[i] = st]]
    BY <1>2 DEF Consult
  <2> HIDE DEF hit, st
  <2>2. pass'[p] = [pass[p] EXCEPT !.ev[i] = hit, !.slot[i] = st]
        /\ \A q \in Pass \ {p} : pass'[q] = pass[q]
    BY <1>0, <2>1
  <2>3. Same(pass'[p])
    BY <1>1, <2>2
  <2> QED BY <2>2, <2>3, FdStays
<1>3. CASE Answer(p, i)
  <2> DEFINE v == {Call(p, i)}
             m == Put(pass[p].mem, Call(p, i))
             w == [pass[p] EXCEPT !.slot[i] = "open", !.ev[i] = v, !.mem = m, !.fd = "tmp"]
  <2>1. pass' = [pass EXCEPT ![p] = w]
    BY <1>0, <1>3 DEF Answer
  <2> HIDE DEF v, m
  <2>2. pass'[p] = [pass[p] EXCEPT !.slot[i] = "open", !.ev[i] = v, !.mem = m, !.fd = "tmp"]
        /\ \A q \in Pass \ {p} : pass'[q] = pass[q]
    BY <1>0, <2>1
  <2>3. Same(pass'[p])
    BY <1>0, <2>2 DEF Process, Same
  <2> QED BY <2>2, <2>3, FdStays
<1>4. CASE WriteTmp(p, i) \/ JudgeFails(p, i) \/ (Replace(p, i) /\ tmp = Absent)
  <2>1. /\ \/ pass'[p] = [pass[p] EXCEPT !.slot[i] = "written", !.fd = "closed"]
           \/ pass'[p] = [pass[p] EXCEPT !.slot[i] = "failed", !.fd = "none"]
           \/ \E how : pass'[p] = [pass[p] EXCEPT !.slot[i] = how]
        /\ \A q \in Pass \ {p} : pass'[q] = pass[q]
    <3>1. CASE JudgeFails(p, i)
      <4>1. PICK how : pass' = [pass EXCEPT ![p] = [pass[p] EXCEPT !.slot[i] = how]]
        BY <3>1, JudgeFailsCases
      <4>2. /\ pass'[p] = [pass[p] EXCEPT !.slot[i] = how]
            /\ \A q \in Pass \ {p} : pass'[q] = pass[q]
        BY <1>0, <4>1
      <4> QED BY <4>2
    <3>2. CASE WriteTmp(p, i) \/ (Replace(p, i) /\ tmp = Absent)
      BY <1>0, <3>2 DEF WriteTmp, Replace
    <3> QED BY <1>4, <3>1, <3>2
  <2>2. Same(pass'[p])
    BY <1>1, <2>1
  <2> QED BY <2>1, <2>2, FdStays
<1>5. CASE Replace(p, i) /\ tmp # Absent
  <2>1. /\ pass'[p] = [pass[p] EXCEPT !.slot[i] = "done", !.fd = "none"]
        /\ \A q \in Pass \ {p} : pass'[q] = [pass[q] EXCEPT !.fd = Moved(pass[q].fd)]
    BY <1>5 DEF Replace
  <2>2. Same(pass'[p])
    BY <1>1, <2>1
  <2>3. \A q \in Pass \ {p} : \E f : pass'[q] = [pass[q] EXCEPT !.fd = f]
    BY <2>1
  <2> QED BY <2>2, <2>3
<1> QED BY <1>2, <1>3, <1>4, <1>5

LEMMA JudgeReporting ==
    ASSUME StoreAssumption, TypeOK, Judging, Reporting, NEW p \in Pass, NEW i \in Slot,
           Consult(p, i) \/ Answer(p, i) \/ WriteTmp(p, i) \/ Replace(p, i) \/ JudgeFails(p, i)
    PROVE  Reporting'
<1>1. /\ pass[p].pc = "grading"
      /\ UNCHANGED <<reports, published, archive, beside, clock, limitHit>>
      /\ pass'[p].pc = pass[p].pc /\ pass'[p].done = pass[p].done
      /\ pass'[p].cur = pass[p].cur /\ pass'[p].scope = pass[p].scope
      /\ pass'[p].todo = pass[p].todo
      /\ \A q \in Pass \ {p} : \E f : pass'[q] = [pass[q] EXCEPT !.fd = f]
  BY JudgeMoves
<1>2. Accounts(p, pass[p])' /\ Named(pass[p])'
  BY <1>1 DEF Reporting, Accounts, Graded, Targets, Named
<1>3. pass[p].pc \notin {"closing", "over"}
  BY <1>1
<1> QED
  BY <1>1, <1>2, <1>3, OneReporting

(* The end of the grading, of the run and of a rescore, and a death.         *)
LEMMA EndReporting ==
    ASSUME StoreAssumption, TypeOK, Judging, Reporting, NEW p \in Pass,
           AllGraded(p) \/ PassDies(p) \/ (p = 0 /\ (RunCleans \/ WriteRunJson))
    PROVE  Reporting'
<1>0. /\ pass[p] \in Process /\ Accounts(p, pass[p])
      /\ UNCHANGED <<reports, published, archive, beside, limitHit>>
  BY DEF TypeOK, AllGraded, PassDies, RunCleans, WriteRunJson, Reporting, treeVars
<1>1. CASE AllGraded(p)
  <2>1. PICK w : w = [pass[p] EXCEPT !.pc = "naming"]
    OBVIOUS
  <2>2. /\ pass' = [pass EXCEPT ![p] = w]
        /\ p # 0 /\ pass[p].pc = "grading" /\ pass[p].cur = NoAttempt /\ pass[p].todo = {}
    BY <1>1, <2>1 DEF AllGraded, Between
  <2>3. /\ w.pc = "naming" /\ w.done = pass[p].done /\ w.cur = pass[p].cur
        /\ w.scope = pass[p].scope /\ w.todo = pass[p].todo
    BY <1>0, <2>1 DEF Process
  <2>4. Accounts(p, w) /\ Named(w)
    BY <1>0, <2>2, <2>3 DEF Accounts, Graded, Named
  <2> QED BY <1>0, <2>2, <2>4, PassMoves
<1>2. CASE PassDies(p)
  <2>1. pass' = [pass EXCEPT ![p] = [NoPass EXCEPT !.pc = "failed"]] /\ p # 0 /\ Live(p)
    BY <1>2 DEF PassDies
  <2>2. pass[p].pc \notin {"closing", "over"}
    BY <1>0, <2>1 DEF Live, Accounts
  <2> QED BY <1>0, <2>1, <2>2, NoPassAccounts, PassMoves
<1>3. CASE p = 0 /\ RunCleans
  <2>1. PICK w : w = [pass[0] EXCEPT !.pc = "naming"]
    OBVIOUS
  <2>2. /\ pass' = [pass EXCEPT ![0] = w]
        /\ \/ pass[0].pc = "grading" /\ Outcomes = {} /\ \A a \in Attempt : Answered(a)
           \/ pass[0].pc = "draining"
    BY <1>3, <2>1 DEF RunCleans
  <2>3. /\ w.pc = "naming" /\ w.done = pass[0].done /\ w.cur = pass[0].cur
        /\ w.scope = pass[0].scope /\ w.todo = pass[0].todo
    BY <1>0, <1>3, <2>1 DEF Process
  <2>4. Graded(pass[0]) = Attempt \/ limitHit
    <3>0. CASE pass[0].pc = "draining"
      BY <1>0, <1>3, <3>0 DEF Accounts
    <3>1. Graded(pass[0]) \subseteq Attempt
      BY <1>0, <1>3 DEF Process, Entries, Graded
    <3>2. pass[0].pc # "draining" => Attempt \subseteq Graded(pass[0])
      BY <2>2 DEF Outcomes, Graded
    <3> QED BY <3>0, <3>1, <3>2
  <2>5. Accounts(0, w) /\ Named(w)
    BY <1>0, <1>3, <2>2, <2>3, <2>4 DEF Accounts, Graded, Named
  <2> QED BY <1>0, <1>3, <2>2, <2>5, PassMoves
<1>4. CASE p = 0 /\ WriteRunJson
  <2>1. PICK w : w = [pass[0] EXCEPT !.pc = "over"]
    OBVIOUS
  <2>2. pass' = [pass EXCEPT ![0] = w] /\ pass[0].pc = "closing"
    BY <1>4, <2>1 DEF WriteRunJson
  <2>3. w.pc = "over" /\ w.done = pass[0].done /\ w.cur = pass[0].cur
    BY <1>0, <1>4, <2>1 DEF Process
  <2>4. Accounts(0, w) /\ Named(w)
    BY <1>0, <1>4, <2>2, <2>3 DEF Accounts, Graded, Named
  <2> QED BY <1>0, <1>4, <2>2, <2>3, <2>4, PassMoves
<1> QED
  BY <1>1, <1>2, <1>3, <1>4

LEMMA WriteReporting ==
    ASSUME StoreAssumption, TypeOK, Judging, Paying, Reporting, NEW p \in Pass, WriteReport(p)
    PROVE  Reporting'
<1> DEFINE R == Report(p)
           c == IF p = 0 THEN "closing" ELSE "over"
           L == Len(published)
<1>0. /\ pass[p] \in Process /\ pass \in [Pass -> Process] /\ pass[p].pc = "writing"
      /\ Accounts(p, pass[p]) /\ Named(pass[p])
      /\ UNCHANGED <<archive, beside, limitHit>>
      /\ reports' = {r \in reports : ~ SameName(r, R)} \cup {R}
      /\ published' = Append(published, R)
      /\ pass' = [pass EXCEPT ![p] = [NoPass EXCEPT !.pc = c]]
  BY DEF TypeOK, WriteReport, Reporting, treeVars
<1>1. /\ R.by = p /\ R.ts = pass[p].ts /\ R.n = pass[p].n
      /\ R.scope = pass[p].scope /\ R.attempts = pass[p].done
  BY DEF Report
<1> HIDE DEF R
<1>2. c \in {"closing", "over"} /\ (p # 0 => c # "closing")
  OBVIOUS
<1> HIDE DEF c
<1>3. /\ L \in Nat /\ DOMAIN published = 1..L /\ DOMAIN published' = 1..(L + 1)
      /\ \A j \in 1..L : published'[j] = published[j] /\ published[j] \in Published
      /\ published'[L + 1] = R
  BY <1>0 DEF TypeOK
<1> HIDE DEF L
<1>4. PICK w : w = [NoPass EXCEPT !.pc = c]
  OBVIOUS
<1>5. pass'[p] = w /\ w.pc = c /\ \A q \in Pass \ {p} : pass'[q] = pass[q]
  BY <1>0, <1>2, <1>4, NoPassAccounts
<1>6. ASSUME NEW q \in Pass PROVE Accounts(q, pass[q])' /\ Named(pass[q])'
  <2>1. CASE q = p
    <3>1. Accounts(p, w) /\ Named(w)
      BY <1>2, <1>4, NoPassAccounts
    <3>2. pass'[q].pc \notin {"writing"}
      BY <1>2, <1>5, <2>1
    <3>3. Named(pass[q])'
      BY <3>2 DEF Named
    <3>4. Accounts(q, pass[q])'
      BY <1>0, <1>5, <2>1, <3>1 DEF Accounts, Graded, Targets
    <3> QED BY <3>3, <3>4
  <2>2. CASE q # p
    <3>1. pass'[q] = pass[q] /\ Accounts(q, pass[q])
      BY <1>5, <2>2 DEF Reporting
    <3>2. pass[q].pc = "writing" => beside
      BY <1>0, <2>2 DEF Paying, Live
    <3>3. Named(pass[q])'
      BY <1>0, <3>1, <3>2 DEF Named
    <3>4. Accounts(q, pass[q])'
      BY <1>0, <3>1 DEF Accounts, Graded, Targets
    <3> QED BY <3>3, <3>4
  <2> QED BY <2>1, <2>2
<1>7. \A r, s \in reports' : r.by = s.by => r = s
  BY <1>0, <1>1, WritersApart
<1>8. Complete(R)
  <2>1. OncePer(R.attempts) /\ {e.attempt : e \in R.attempts} = Graded(pass[p])
    BY <1>0, <1>1 DEF Accounts, Graded
  <2>2. CASE p = 0
    <3>1. Graded(pass[p]) = Attempt \/ limitHit
      BY <1>0, <2>2 DEF Accounts
    <3> QED BY <1>1, <2>1, <2>2, <3>1 DEF Complete, Graded
  <2>3. CASE p # 0
    <3>1. pass[p].cur = NoAttempt /\ pass[p].todo = {}
      BY <1>0, <2>3 DEF Accounts, Judging, Holds
    <3>2. Graded(pass[p]) = Targets(R.scope)
      BY <1>0, <1>1, <2>3, <3>1 DEF Accounts
    <3> QED BY <1>1, <2>1, <2>3, <3>2 DEF Complete, Graded, Targets
  <2> QED BY <2>2, <2>3
<1>9. ASSUME NEW j \in 1..L
      PROVE  pass'[published[j].by].pc \in {"closing", "over"} /\ Complete(published[j]) /\ Stands(j)'
  <2>1. /\ published[j].by \in Pass /\ pass[published[j].by].pc \in {"closing", "over"}
        /\ Complete(published[j]) /\ Stands(j)
    BY <1>3 DEF Reporting, Published
  <2>2. pass'[published[j].by].pc \in {"closing", "over"}
    BY <1>0, <1>5, <2>1
  <2>3. CASE published[j] \in reports /\ ~ SameName(published[j], R)
    <3>1. published[j] \in reports' /\ published'[j] = published[j]
      BY <1>0, <1>3, <2>3
    <3> QED BY <2>1, <2>2, <3>1 DEF Stands
  <2>4. CASE published[j] \in reports /\ SameName(published[j], R)
    <3>1. Taken(pass[p].ts, pass[p].n)
      BY <1>1, <2>4 DEF Taken, SameName
    <3>2. beside
      BY <1>0, <3>1 DEF Named
    <3>3. L + 1 \in DOMAIN published' /\ L + 1 # j /\ SameName(published'[j], published'[L + 1])
      BY <1>3, <2>4
    <3> QED BY <1>0, <2>1, <2>2, <3>2, <3>3 DEF Stands
  <2>5. CASE published[j] \notin reports
    <3>1. beside /\ \E k \in DOMAIN published : k # j /\ SameName(published[j], published[k])
      BY <2>1, <2>5 DEF Stands
    <3>2. PICK k \in 1..L : k # j /\ SameName(published[j], published[k])
      BY <1>3, <3>1
    <3>3. k \in DOMAIN published' /\ SameName(published'[j], published'[k])
      BY <1>3, <3>2 DEF SameName
    <3> QED BY <1>0, <2>1, <2>2, <3>1, <3>2, <3>3 DEF Stands
  <2> QED BY <2>1, <2>2, <2>3, <2>4, <2>5
<1>10. ASSUME NEW j \in 1..(L + 1)
       PROVE  /\ pass'[published'[j].by].pc \in {"closing", "over"}
              /\ Complete(published[j])' /\ Stands(j)'
  <2>1. CASE j = L + 1
    <3>1. published'[j] = R
      BY <1>3, <2>1
    <3>2. Complete(published[j])'
      BY <1>0, <1>8, <3>1 DEF Complete, Graded
    <3>3. Stands(j)'
      BY <1>0, <3>1 DEF Stands
    <3> QED BY <1>1, <1>2, <1>5, <3>1, <3>2, <3>3
  <2>2. CASE j # L + 1
    <3>1. j \in 1..L /\ published'[j] = published[j]
      BY <1>3, <2>2
    <3>2. Complete(published[j])'
      BY <1>0, <1>9, <3>1 DEF Complete, Graded
    <3> QED BY <1>9, <3>1, <3>2
  <2> QED BY <2>1, <2>2
<1> QED
  BY <1>3, <1>6, <1>7, <1>10 DEF Reporting

LEMMA ReportingStep ==
    ASSUME StoreAssumption, TypeOK, Judging, Paying, Reporting, [Next]_vars
    PROVE  Reporting'
<1>1. CASE TreeNext /\ UNCHANGED storeVars
  BY <1>1, TreeReporting
<1>2. CASE UNCHANGED vars \/ Edit \/ Tick
  BY <1>2, ReportingStays DEF vars, treeVars, storeVars, Edit, Tick
<1>3. CASE TakeOutcome \/ RunCleans \/ WriteRunJson
  <2>1. 0 \in Pass
    BY DEF StoreAssumption, Pass
  <2> QED BY <1>3, <2>1, TakeOutcomeReporting, EndReporting
<1>4. ASSUME NEW p \in Pass,
             \/ Begin(p) \/ TakeTarget(p) \/ AllGraded(p) \/ Score(p) \/ NameReport(p)
             \/ WriteReport(p) \/ PassDies(p)
      PROVE  Reporting'
  BY <1>4, BeginReporting, TakeTargetReporting, EndReporting, ScoreReporting, NameReporting,
     WriteReporting
<1>5. ASSUME NEW p \in Pass, NEW i \in Slot,
             Consult(p, i) \/ Answer(p, i) \/ WriteTmp(p, i) \/ Replace(p, i) \/ JudgeFails(p, i)
      PROVE  Reporting'
  BY <1>5, JudgeReporting
<1> QED
  BY <1>1, <1>2, <1>3, <1>4, <1>5 DEF Next

(* A report stays as it was written, unless two passes that ran at once took *)
(* one name in the same second, and it has one entry for each attempt it is  *)
(* about, however passes end, fail and die, and whatever the run left: only  *)
(* that of a run which a rate limit ended may lack attempts.                 *)
THEOREM ReportsLast == Spec => []ReportsStay
<1>1. Init => Judging /\ Paying /\ Reporting
  BY JudgingInit, PayingInit, ReportingInit, TreeAssumption, StoreAssumption
<1>2. TypeOK /\ Judging /\ Paying /\ Reporting /\ [Next]_vars =>
         Judging' /\ Paying' /\ Reporting'
  BY JudgingStep, PayingStep, ReportingStep, StoreAssumption
<1>3. Reporting => ReportsStay
  BY ReportingHolds
<1> QED
  BY <1>1, <1>2, <1>3, StoreTypes, PTL DEF Spec
----------------------------------------------------------------------------
(* The order of file names agrees with the order of writing: a report is     *)
(* named before it is written, but while passes run one after another none   *)
(* is written in between.                                                    *)
MaxName == MaxRescores + 1
Past(j, ts) == published[j].ts <= ts

Dated ==
    /\ \A r, s \in reports : SameName(r, s) => r = s
    /\ \A r \in reports : r.n <= MaxName
    /\ \A p \in Pass : pass[p].pc = "writing" => pass[p].n <= MaxName /\ pass[p].ts <= clock
    /\ \A j \in DOMAIN published : Past(j, clock)
    /\ ~ beside =>
          /\ \A j, k \in DOMAIN published : j <= k => Past(j, published[k].ts)
          /\ \A p \in Pass : pass[p].pc = "writing" =>
                \A j \in DOMAIN published : Past(j, pass[p].ts)

LEMMA DatedInit == StoreAssumption /\ Init => Dated
<1> SUFFICES ASSUME StoreAssumption, Init PROVE Dated
  OBVIOUS
<1>1. published = <<>> /\ reports = {} /\ \A p \in Pass : pass[p].pc # "writing"
  BY DEF Init, NoPass
<1> QED
  BY <1>1 DEF Dated

(* Steps that neither name nor write a report. *)
LEMMA DatedRests ==
    ASSUME Dated, UNCHANGED <<reports, published, clock>>, beside => beside',
           \A p \in Pass : pass'[p].pc = "writing" =>
               pass[p].pc = "writing" /\ pass'[p].ts = pass[p].ts /\ pass'[p].n = pass[p].n
    PROVE  Dated'
  BY DEF Dated, Past, SameName

LEMMA OneDated ==
    ASSUME TypeOK, Dated, NEW p \in Pass,
           UNCHANGED <<reports, published, clock>>, beside => beside',
           \A q \in Pass \ {p} : \E f : pass'[q] = [pass[q] EXCEPT !.fd = f],
           pass'[p].pc # "writing"
    PROVE  Dated'
<1>1. ASSUME NEW q \in Pass, pass'[q].pc = "writing"
      PROVE  pass[q].pc = "writing" /\ pass'[q].ts = pass[q].ts /\ pass'[q].n = pass[q].n
  <2>1. q # p
    BY <1>1
  <2>2. PICK f : pass'[q] = [pass[q] EXCEPT !.fd = f]
    BY <2>1
  <2>3. pass[q] \in Process
    BY DEF TypeOK
  <2> QED BY <1>1, <2>2, <2>3 DEF Process
<1> QED
  BY <1>1, DatedRests

LEMMA MovesDated ==
    ASSUME TypeOK, Dated, NEW p \in Pass, NEW w, w.pc # "writing",
           pass' = [pass EXCEPT ![p] = w],
           UNCHANGED <<reports, published, clock>>, beside => beside'
    PROVE  Dated'
<1>1. pass'[p] = w /\ \A q \in Pass \ {p} : pass'[q] = pass[q]
  BY DEF TypeOK
<1> QED
  BY <1>1, FdStays, OneDated

LEMMA NoPassDated ==
    ASSUME NEW c, c # "writing" PROVE [NoPass EXCEPT !.pc = c].pc # "writing"
  BY DEF NoPass

(* The other steps of a pass neither name a report nor write one.            *)
LEMMA WorkDated ==
    ASSUME StoreAssumption, TypeOK, Dated, NEW p \in Pass,
           \/ Begin(p) \/ TakeTarget(p) \/ AllGraded(p) \/ Score(p) \/ PassDies(p)
           \/ p = 0 /\ (TakeOutcome \/ RunCleans \/ WriteRunJson)
    PROVE  Dated'
<1>0. /\ pass[p] \in Process
      /\ UNCHANGED <<reports, published, clock>> /\ (beside => beside')
  BY DEF TypeOK, Begin, TakeTarget, AllGraded, Score, PassDies, TakeOutcome, RunCleans,
         WriteRunJson, treeVars, MayBegin, Between
<1> SUFFICES \E w : w.pc # "writing" /\ pass' = [pass EXCEPT ![p] = w]
  BY <1>0, MovesDated
<1>1. CASE Begin(p)
  <2>1. PICK scope \in Scopes :
           pass' = [pass EXCEPT ![p].pc = IF Targets(scope) = {} THEN "failed" ELSE "grading",
                                ![p].scope = scope, ![p].todo = Targets(scope),
                                ![p].model = model, ![p].mem = Loaded]
    BY <1>1 DEF Begin
  <2>2. PICK c, todo : /\ todo = Targets(scope)
                       /\ c = IF Targets(scope) = {} THEN "failed" ELSE "grading"
    OBVIOUS
  <2>3. PICK w : w = [pass[p] EXCEPT !.pc = c, !.scope = scope, !.todo = todo,
                                     !.model = model, !.mem = Loaded]
    OBVIOUS
  <2>4. pass' = [pass EXCEPT ![p] = w]
    BY <2>1, <2>2, <2>3
  <2>5. w.pc = c
    BY <1>0, <2>3 DEF Process
  <2>6. w.pc # "writing"
    BY <2>2, <2>5
  <2> QED BY <2>4, <2>6
<1>2. ASSUME pass' = [pass EXCEPT ![p] = [NoPass EXCEPT !.pc = "failed"]]
      PROVE  \E w : w.pc # "writing" /\ pass' = [pass EXCEPT ![p] = w]
  BY <1>2, NoPassDated
<1>3. ASSUME pass[p].pc = "grading", NEW w, w.pc = pass[p].pc, pass' = [pass EXCEPT ![p] = w]
      PROVE  \E v : v.pc # "writing" /\ pass' = [pass EXCEPT ![p] = v]
  BY <1>3
<1>4. CASE TakeTarget(p)
  <2>1. PICK a : \/ pass' = [pass EXCEPT ![p] = [pass[p] EXCEPT !.cur = a, !.todo = @ \ {a},
                                                                !.version = version,
                                                                !.shown = shown]]
                 \/ pass' = [pass EXCEPT ![p] = [NoPass EXCEPT !.pc = "failed"]]
    BY <1>4, TakeTargetCases
  <2>2. PICK w : w = [pass[p] EXCEPT !.cur = a, !.todo = @ \ {a}, !.version = version,
                                     !.shown = shown]
    OBVIOUS
  <2>3. w.pc = pass[p].pc /\ pass[p].pc = "grading"
    BY <1>0, <1>4, <2>2 DEF Process, TakeTarget, Between
  <2> QED BY <1>2, <1>3, <2>1, <2>2, <2>3
<1>5. CASE AllGraded(p) \/ (p = 0 /\ (RunCleans \/ WriteRunJson))
  <2>1. PICK c : /\ c \in {"naming", "over"} /\ pass' = [pass EXCEPT ![p] = [pass[p] EXCEPT !.pc = c]]
    BY <1>5 DEF AllGraded, RunCleans, WriteRunJson
  <2>2. [pass[p] EXCEPT !.pc = c].pc = c
    BY <1>0 DEF Process
  <2> QED BY <2>1, <2>2
<1>6. CASE Score(p)
  <2>1. \/ p = 0 /\ pass' = [pass EXCEPT ![p] = Drained]
        \/ pass' = [pass EXCEPT ![p] = [NoPass EXCEPT !.pc = "failed"]]
        \/ \E v \in {"graded", "error"} : pass' = [pass EXCEPT ![p] = Scored(p, v)]
    BY <1>6, ScoreCases
  <2>2. pass[p].cur \in Attempt /\ pass[p].pc = "grading"
    BY <1>0, <1>6 DEF Process, Score, Grading
  <2>3. ASSUME NEW v \in {"graded", "error"} PROVE Scored(p, v).pc = pass[p].pc
    BY <2>2, ScoredType
  <2>4. Drained.pc # "writing"
    BY DrainedType
  <2> QED BY <1>2, <1>3, <2>1, <2>2, <2>3, <2>4
<1>7. CASE PassDies(p)
  BY <1>2, <1>7 DEF PassDies
<1>8. CASE p = 0 /\ TakeOutcome
  <2>1. PICK a \in Outcomes : \/ pass' = [pass EXCEPT ![p] = Drained]
                             \/ pass' = [pass EXCEPT ![p] = Entered(a, "error")]
                             \/ pass' = [pass EXCEPT ![p] = [pass[0] EXCEPT !.cur = a]]
    BY <1>8, OutcomeCases
  <2>2. PICK v, w : v = [pass[0] EXCEPT !.cur = a] /\ w = Entered(a, "error")
    OBVIOUS
  <2>3. v.pc = pass[p].pc /\ w.pc = pass[p].pc /\ pass[p].pc = "grading"
    BY <1>0, <1>8, <2>2 DEF Process, TakeOutcome, Entered
  <2>4. Drained.pc # "writing"
    BY DrainedType
  <2> QED BY <1>3, <2>1, <2>2, <2>3, <2>4
<1> QED
  BY <1>1, <1>4, <1>5, <1>6, <1>7, <1>8

LEMMA JudgeDated ==
    ASSUME TypeOK, Dated, NEW p \in Pass, NEW i \in Slot,
           Consult(p, i) \/ Answer(p, i) \/ WriteTmp(p, i) \/ Replace(p, i) \/ JudgeFails(p, i)
    PROVE  Dated'
<1>1. /\ pass[p].pc = "grading" /\ pass'[p].pc = pass[p].pc
      /\ UNCHANGED <<reports, published, beside, clock>>
      /\ \A q \in Pass \ {p} : \E f : pass'[q] = [pass[q] EXCEPT !.fd = f]
  BY JudgeMoves
<1>2. pass'[p].pc # "writing"
  BY <1>1
<1> QED
  BY <1>1, <1>2, OneDated

LEMMA TickDated == ASSUME TypeOK, Dated, Tick PROVE Dated'
<1>1. UNCHANGED <<reports, published, pass, beside>> /\ clock \in Int /\ clock' = clock + 1
  BY DEF TypeOK, Tick
<1>2. \A j \in DOMAIN published : published[j].ts \in Int
  <2>1. \A j \in DOMAIN published : published[j] \in Published
    BY DEF TypeOK
  <2> QED BY <2>1 DEF Published
<1>3. \A j \in DOMAIN published : Past(j, clock)'
  BY <1>1, <1>2 DEF Dated, Past
<1>4. \A p \in Pass : pass[p].ts \in Int
  BY DEF TypeOK, Process
<1>5. \A p \in Pass : pass'[p].pc = "writing" => pass'[p].ts <= clock'
  BY <1>1, <1>4 DEF Dated
<1> QED
  BY <1>1, <1>3, <1>5 DEF Dated, Past, SameName

LEMMA NameDated ==
    ASSUME StoreAssumption, TypeOK, Reporting, Dated, NEW p \in Pass, NameReport(p)
    PROVE  Dated'
<1>0. /\ pass[p] \in Process /\ pass \in [Pass -> Process] /\ pass[p].pc = "naming"
      /\ UNCHANGED <<reports, published, clock, beside>>
  BY DEF TypeOK, NameReport
<1>1. PICK k : k = IF p = 0 THEN 1 ELSE FreeName(clock)
  OBVIOUS
<1>2. pass' = [pass EXCEPT ![p] = [pass[p] EXCEPT !.pc = "writing", !.ts = clock, !.n = k]]
  BY <1>1 DEF NameReport
<1>3. pass'[p].ts = clock /\ pass'[p].n = k /\ \A q \in Pass \ {p} : pass'[q] = pass[q]
  BY <1>0, <1>2 DEF Process
<1>4. k <= MaxName
  <2>1. FreeName(clock) \in 1..(MaxRescores + 1)
    BY <1>0, FreeNameFree
  <2> QED BY <1>1, <2>1 DEF MaxName, StoreAssumption
<1>5. clock <= clock
  BY DEF TypeOK
<1> QED
  BY <1>0, <1>3, <1>4, <1>5 DEF Dated, Past, SameName

LEMMA WriteDated ==
    ASSUME StoreAssumption, TypeOK, Paying, Dated, NEW p \in Pass, WriteReport(p)
    PROVE  Dated'
<1> DEFINE R == Report(p)
           L == Len(published)
           c == IF p = 0 THEN "closing" ELSE "over"
<1>0. /\ pass[p] \in Process /\ pass \in [Pass -> Process] /\ pass[p].pc = "writing"
      /\ UNCHANGED <<clock, beside>> /\ clock \in 0..MaxClock
      /\ reports' = {r \in reports : ~ SameName(r, R)} \cup {R}
      /\ published' = Append(published, R)
      /\ pass' = [pass EXCEPT ![p] = [NoPass EXCEPT !.pc = c]]
  BY DEF TypeOK, WriteReport
<1>1. R.ts = pass[p].ts /\ R.n = pass[p].n
  BY DEF Report
<1> HIDE DEF R
<1>2. c # "writing"
  OBVIOUS
<1> HIDE DEF c
<1>3. /\ L \in Nat /\ DOMAIN published = 1..L /\ DOMAIN published' = 1..(L + 1)
      /\ \A j \in 1..L : published'[j] = published[j]
      /\ published'[L + 1] = R
  BY <1>0 DEF TypeOK
<1> HIDE DEF L
<1>4. pass'[p].pc # "writing" /\ \A q \in Pass \ {p} : pass'[q] = pass[q]
  BY <1>0, <1>2, NoPassDated
<1>5. \A r, s \in reports' : SameName(r, s) => r = s
  BY <1>0 DEF Dated, SameName
<1>6. (\A r \in reports' : r.n <= MaxName)
      /\ \A q \in Pass : pass'[q].pc = "writing" =>
            pass'[q].n <= MaxName /\ pass'[q].ts <= clock
  BY <1>0, <1>1, <1>4 DEF Dated
<1>7. R.ts <= R.ts /\ R.ts <= clock
  <2>1. pass[p].ts \in 0..MaxClock
    BY <1>0 DEF Process
  <2>2. pass[p].ts <= clock
    BY <1>0 DEF Dated
  <2> QED BY <1>0, <1>1, <2>1, <2>2
<1>8. \A j \in 1..(L + 1) : Past(j, clock)'
  BY <1>0, <1>3, <1>7 DEF Dated, Past
<1>9. ~ beside => \A q \in Pass : pass'[q].pc # "writing"
  BY <1>0, <1>4 DEF Paying, Live
<1>10. ASSUME ~ beside, NEW j \in 1..(L + 1), NEW k \in 1..(L + 1), j <= k
       PROVE  published'[j].ts <= published'[k].ts
  <2>1. CASE k = L + 1 /\ j = L + 1
    BY <1>3, <1>7, <2>1
  <2>2. CASE k = L + 1 /\ j # L + 1
    <3>1. j \in 1..L
      BY <1>3, <2>2
    <3> QED BY <1>0, <1>1, <1>3, <1>10, <2>2, <3>1 DEF Dated, Past
  <2>3. CASE k # L + 1
    <3>1. j \in 1..L /\ k \in 1..L
      BY <1>3, <1>10, <2>3
    <3> QED BY <1>3, <1>10, <3>1 DEF Dated, Past
  <2> QED BY <2>1, <2>2, <2>3
<1> QED
  BY <1>0, <1>3, <1>5, <1>6, <1>8, <1>9, <1>10 DEF Dated, Past, SameName, MaxName

(* Reading.  A set of reports has a last one, since no two have one name.    *)
LEMMA NewestIs ==
    ASSUME StoreAssumption, TypeOK, Dated, NEW S, S \subseteq reports, S # {}
    PROVE  Newest(S) \in S /\ \A s \in S \ {Newest(S)} : Before(s, Newest(S))
<1>1. ASSUME NEW r \in S
      PROVE  r.ts \in 0..MaxClock /\ r.n \in Nat /\ r.n <= MaxName /\ r \in reports
  <2>1. PICK j \in DOMAIN published : r = published[j]
    BY DEF TypeOK
  <2>2. published[j] \in Published
    BY DEF TypeOK
  <2> QED BY <2>1, <2>2 DEF Published, Dated
<1>2. MaxClock \in Nat /\ MaxName \in Nat
  BY DEF StoreAssumption, MaxName
<1>3. \A r, s \in S : r.ts = s.ts /\ r.n = s.n => r = s
  BY <1>1 DEF Dated, SameName
<1>4. PICK m \in S : \A s \in S : s.ts <= m.ts
  <2> DEFINE D == {MaxClock - s.ts : s \in S}
  <2>1. D \subseteq Nat
    BY <1>1, <1>2
  <2>2. D # {}
    OBVIOUS
  <2> HIDE DEF D
  <2>3. PICK d \in D : \A e \in D : d <= e
    BY <2>1, <2>2, LeastNatural
  <2>4. PICK m \in S : d = MaxClock - m.ts
    BY DEF D
  <2>5. ASSUME NEW s \in S PROVE s.ts <= m.ts
    <3>1. MaxClock - m.ts <= MaxClock - s.ts
      BY <2>3, <2>4 DEF D
    <3> QED BY <1>1, <1>2, <3>1
  <2> QED BY <2>5
<1>5. SUFFICES \E r \in S : \A s \in S \ {r} : Before(s, r)
  BY Zenon DEF Newest
<1> DEFINE T == {s \in S : s.ts = m.ts}
<1>6. CASE \E r \in T : r.n = 1
  <2>1. PICK r \in T : r.n = 1
    BY <1>6
  <2>2. ASSUME NEW s \in S \ {r} PROVE Before(s, r)
    <3>1. s.ts <= r.ts /\ (s.ts = r.ts => s.n # 1)
      BY <1>3, <1>4, <2>1
    <3> QED BY <1>1, <2>1, <3>1 DEF Before
  <2> QED BY <2>1, <2>2
<1>7. CASE \A r \in T : r.n # 1
  <2> DEFINE D == {MaxName - s.n : s \in T}
  <2>1. D \subseteq Nat
    BY <1>1, <1>2
  <2>2. D # {}
    OBVIOUS
  <2> HIDE DEF D
  <2>3. PICK d \in D : \A e \in D : d <= e
    BY <2>1, <2>2, LeastNatural
  <2>4. PICK r \in T : d = MaxName - r.n
    BY DEF D
  <2>5. ASSUME NEW s \in S \ {r} PROVE Before(s, r)
    <3>1. s.ts <= r.ts
      BY <1>4, <2>4
    <3>2. CASE s.ts = r.ts
      <4>1. s \in T /\ s.n # r.n /\ s.n # 1 /\ r.n # 1
        BY <1>3, <1>7, <2>4, <3>2
      <4>2. MaxName - r.n <= MaxName - s.n
        BY <2>3, <2>4, <4>1 DEF D
      <4> QED BY <1>1, <1>2, <2>4, <3>2, <4>1, <4>2 DEF Before
    <3>3. CASE s.ts # r.ts
      BY <1>1, <2>4, <3>1, <3>3 DEF Before
    <3> QED BY <3>2, <3>3
  <2> QED BY <2>4, <2>5
<1> QED
  BY <1>6, <1>7

LEMMA LastIndex ==
    ASSUME TypeOK, NEW those, those \subseteq DOMAIN published, those # {}
    PROVE  \E j \in those : \A k \in those : k <= j
<1>1. PICK L : L \in Nat /\ DOMAIN published = 1..L
  BY DEF TypeOK
<1> DEFINE D == {L - j : j \in those}
<1>2. D \subseteq Nat /\ D # {}
  BY <1>1
<1> HIDE DEF D
<1>3. PICK d \in D : \A e \in D : d <= e
  BY <1>2, LeastNatural
<1>4. PICK j \in those : d = L - j
  BY DEF D
<1>5. ASSUME NEW k \in those PROVE k <= j
  <2>1. L - j <= L - k
    BY <1>3, <1>4 DEF D
  <2> QED BY <1>1, <2>1
<1> QED
  BY <1>5

(* The last by name of some reports is as recent as the last one written.    *)
LEMMA NewestWritten ==
    ASSUME StoreAssumption, TypeOK, Reporting, Dated, ~ beside,
           NEW those, those \subseteq DOMAIN published, NEW S, S \subseteq reports,
           \A j \in those : published[j] \in S, \A r \in S : \E j \in those : r = published[j],
           NEW last \in those, \A k \in those : k <= last
    PROVE  Newest(S).ts = published[last].ts
<1>1. published[last] \in S
  OBVIOUS
<1>2. PICK r : r = Newest(S)
  OBVIOUS
<1>3. r \in S /\ \A s \in S \ {r} : Before(s, r)
  BY <1>1, <1>2, NewestIs
<1>4. PICK j \in those : r = published[j]
  BY <1>3
<1>5. r.ts \in Int /\ published[last].ts \in Int
  <2>1. r \in Published /\ published[last] \in Published
    BY <1>4 DEF TypeOK
  <2> QED BY <2>1 DEF Published
<1>6. r.ts <= published[last].ts
  BY <1>4 DEF Dated, Past
<1>7. published[last].ts <= r.ts
  BY <1>1, <1>3, <1>5 DEF Before
<1> QED
  BY <1>2, <1>5, <1>6, <1>7

LEMMA DatedHolds ==
    ASSUME StoreAssumption, TypeOK, Reporting, Dated PROVE CurrentIsNewest
<1>1. CASE beside
  BY <1>1 DEF CurrentIsNewest
<1>2. CASE ~ beside
  <2>1. \A j \in DOMAIN published : published[j] \in reports
    BY <1>2 DEF Reporting, Stands
  <2>2. \A r \in reports : \E j \in DOMAIN published : r = published[j]
    BY DEF TypeOK
  <2>3. ASSUME published # <<>>
        PROVE  LatestReport.ts = published[Len(published)].ts
    <3>1. PICK L : L = Len(published)
      OBVIOUS
    <3>2. L \in Nat /\ DOMAIN published = 1..L /\ L # 0
      BY <2>3, <3>1 DEF TypeOK
    <3>3. L \in DOMAIN published /\ \A k \in DOMAIN published : k <= L
      BY <3>2
    <3> QED BY <1>2, <2>1, <2>2, <3>1, <3>3, NewestWritten DEF LatestReport
  <2>4. ASSUME NEW t \in Task, NEW those,
               those = {j \in DOMAIN published : Covers(published[j], t)}, those # {},
               NEW last, last = CHOOSE j \in those : \A k \in those : k <= j
        PROVE  LatestForTask(t).ts = published[last].ts
    <3>1. last \in those /\ \A k \in those : k <= last
      BY <2>4, LastIndex
    <3>2. /\ \A j \in those : published[j] \in Covering(t)
          /\ \A r \in Covering(t) : \E j \in those : r = published[j]
      BY <2>1, <2>2, <2>4 DEF Covering
    <3>3. those \subseteq DOMAIN published /\ Covering(t) \subseteq reports
      BY <2>4 DEF Covering
    <3> QED BY <1>2, <3>1, <3>2, <3>3, NewestWritten DEF LatestForTask
  <2>5. ASSUME NEW t \in Task
        PROVE  LET those == {j \in DOMAIN published : Covers(published[j], t)}
                   last  == published[CHOOSE j \in those : \A k \in those : k <= j]
               IN  those # {} => beside \/ LatestForTask(t).ts = last.ts
    <3> DEFINE those == {j \in DOMAIN published : Covers(published[j], t)}
               last  == CHOOSE j \in those : \A k \in those : k <= j
    <3>1. those # {} => LatestForTask(t).ts = published[last].ts
      BY <2>4
    <3> QED BY <3>1
  <2> QED BY <2>3, <2>5 DEF CurrentIsNewest
<1> QED
  BY <1>1, <1>2

LEMMA DatedStep ==
    ASSUME StoreAssumption, TypeOK, Judging, Paying, Reporting, Dated, [Next]_vars
    PROVE  Dated'
<1>1. CASE \/ TreeNext /\ UNCHANGED storeVars
           \/ UNCHANGED vars \/ Edit
  <2>1. UNCHANGED <<reports, published, clock, pass, beside>>
    BY <1>1 DEF vars, storeVars, Edit
  <2> QED BY <2>1, DatedRests
<1>2. CASE Tick
  BY <1>2, TickDated
<1>3. CASE TakeOutcome \/ RunCleans \/ WriteRunJson
  <2>1. 0 \in Pass
    BY DEF StoreAssumption, Pass
  <2> QED BY <1>3, <2>1, WorkDated
<1>4. ASSUME NEW p \in Pass,
             \/ Begin(p) \/ TakeTarget(p) \/ AllGraded(p) \/ Score(p) \/ NameReport(p)
             \/ WriteReport(p) \/ PassDies(p)
      PROVE  Dated'
  BY <1>4, WorkDated, NameDated, WriteDated
<1>5. ASSUME NEW p \in Pass, NEW i \in Slot,
             Consult(p, i) \/ Answer(p, i) \/ WriteTmp(p, i) \/ Replace(p, i) \/ JudgeFails(p, i)
      PROVE  Dated'
  BY <1>5, JudgeDated
<1> QED
  BY <1>1, <1>2, <1>3, <1>4, <1>5 DEF Next

(* What `show`, `runs`, `diff` and `history` take for the current report of  *)
(* a run or grade of a task is as recent as the last one written, as long as *)
(* no two passes have run at once: _loader sorts by name, and no pass writes *)
(* between the naming of a report and its writing.                           *)
THEOREM NewestIsCurrent == Spec => []CurrentIsNewest
<1>1. Init => Judging /\ Paying /\ Reporting /\ Dated
  BY JudgingInit, PayingInit, ReportingInit, DatedInit, TreeAssumption, StoreAssumption
<1>2. TypeOK /\ Judging /\ Paying /\ Reporting /\ Dated /\ [Next]_vars =>
         Judging' /\ Paying' /\ Reporting' /\ Dated'
  BY JudgingStep, PayingStep, ReportingStep, DatedStep, StoreAssumption
<1>3. TypeOK /\ Reporting /\ Dated => CurrentIsNewest
  BY DatedHolds, StoreAssumption
<1> QED
  BY <1>1, <1>2, <1>3, StoreTypes, PTL DEF Spec
=============================================================================
