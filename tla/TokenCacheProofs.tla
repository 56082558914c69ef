---------------------------- MODULE TokenCacheProofs ----------------------------
(***************************************************************************)
(* Proofs about TokenCache, for every number of processes, servers and     *)
(* stored logins, and for every lifetime of their tokens.                  *)
(***************************************************************************)
EXTENDS TokenCache, TLAPS

USE DEF Critical, InCall

LEMMA CallType ==
    ASSUME NEW s \in Server \cup {NoServer}
    PROVE  Call(s) \in Locals
BY DEF Call, Empty, Locals

LEMMA LocalsUpdate ==
    ASSUME call \in [Proc -> Locals], NEW p \in Proc, NEW n \in Nat,
           NEW d \in [Login -> Nat]
    PROVE  /\ [call EXCEPT ![p].offered = n] \in [Proc -> Locals]
           /\ [call EXCEPT ![p].rotated = n] \in [Proc -> Locals]
           /\ [call EXCEPT ![p].draft = d] \in [Proc -> Locals]
<1>1. /\ [call[p] EXCEPT !.offered = n] \in Locals
      /\ [call[p] EXCEPT !.rotated = n] \in Locals
      /\ [call[p] EXCEPT !.draft = d] \in Locals
  BY DEF Locals
<1> QED BY <1>1

LEMMA MintedType ==
    ASSUME now \in Nat, NEW s \in Server
    PROVE  Minted(s) \in Entry
<1>1. Lifetime[s] \in Nat
  BY ServerAssumption
<1> QED BY <1>1 DEF Minted, Entry

LEMMA InitInv == Init => IInv
<1> SUFFICES ASSUME Init PROVE IInv
  OBVIOUS
<1> USE DEF Init
<1>1. TypeOK
  <2>1. Call(NoServer) \in Locals
    BY CallType
  <2>2. NoEntry \in Entry
    BY DEF Entry, NoEntry
  <2>3. Attempts \in 0 .. Attempts
    BY ServerAssumption
  <2> QED BY <2>1, <2>2, <2>3, ServerAssumption DEF TypeOK
<1>2. Mutex /\ CallInv /\ OfferInv /\ SaveInv
  BY DEF Mutex, CallInv, OfferInv, SaveInv
<1>3. NoReplay /\ LoginKept /\ MintsOnlySpent
  BY DEF NoReplay, LoginKept, MintsOnlySpent
<1> QED BY <1>1, <1>2, <1>3 DEF IInv

-----------------------------------------------------------------------------
(* Type correctness, one step per action.                                    *)
LEMMA TypeStep == TypeOK /\ CallInv /\ [Next]_vars => TypeOK'
<1> SUFFICES ASSUME TypeOK, CallInv, [Next]_vars PROVE TypeOK'
  OBVIOUS
<1> USE DEF TypeOK, Goto
<1>1. CASE UNCHANGED vars
  BY <1>1 DEF vars, fileVars, authVars, planVars
<1>0. ASSUME NEW s \in Server, Prime(s) PROVE TypeOK'
  <2>1. Call(s) \in Locals
    BY CallType
  <2> QED BY <1>0, <2>1, ServerAssumption DEF Prime, fileVars, authVars
<1>2. ASSUME NEW p \in Proc, NEW s \in Server, Ask(p, s) PROVE TypeOK'
  <2>1. Call(s) \in Locals
    BY CallType
  <2> QED BY <1>2, <2>1, ServerAssumption DEF Ask, fileVars, authVars
<1>3. ASSUME NEW p \in Proc, CallStep(p) PROVE TypeOK'
  <2>0. Call(NoServer) \in Locals
    BY CallType
  <2>1. CASE Check(p)
    <3>1. call[p].server \in Server
      BY <2>1 DEF Check, CallInv
    <3> QED BY <2>0, <2>1, <3>1 DEF Check, Return, fileVars, authVars, planVars
  <2>2. CASE AcquireLock(p)
    BY <2>2 DEF AcquireLock, fileVars, authVars, planVars
  <2>3. CASE Recheck(p)
    <3>1. call[p].server \in Server
      BY <2>3 DEF Recheck, CallInv
    <3> QED BY <2>0, <2>3, <3>1 DEF Recheck, Return, fileVars, authVars, planVars
  <2>4. CASE Load(p)
    <3>1. CASE Raise(p)
      BY <2>0, <2>4, <3>1 DEF Load, Raise, fileVars, authVars, planVars
    <3>2. CASE ~Raise(p)
      <4>1. call[p].server \in Login
        BY <2>4 DEF Load, CallInv
      <4>2. PICK token \in Nat : call' = [call EXCEPT ![p].offered = token]
        BY <2>4, <3>2, <4>1 DEF Load
      <4>3. call' \in [Proc -> Locals]
        BY <4>2, LocalsUpdate
      <4> QED BY <2>4, <3>2, <4>3 DEF Load, fileVars, authVars, planVars
    <3> QED BY <3>1, <3>2
  <2>5. CASE Post(p)
    <3>1. CASE UNCHANGED call
      BY <2>5, <3>1 DEF Post, fileVars, authVars, planVars
    <3>2. CASE ~UNCHANGED call
      <4>1. /\ call[p].server \in Login
            /\ call' = [call EXCEPT ![p].rotated = refresh[call[p].server] + 1]
        BY <2>5, <3>2 DEF Post
      <4>2. call' \in [Proc -> Locals]
        <5>1. refresh[call[p].server] + 1 \in Nat
          BY <4>1
        <5> QED BY <4>1, <5>1, LocalsUpdate
      <4> QED BY <2>5, <3>2, <4>1, <4>2 DEF Post, fileVars, authVars, planVars
    <3> QED BY <3>1, <3>2
  <2>6. CASE PostRefused(p)
    BY <2>0, <2>6, ServerAssumption DEF PostRefused, Raise, Refused, fileVars, authVars, planVars
  <2>7. CASE PostFails(p)
    BY <2>0, <2>7 DEF PostFails, Raise, Strike, fileVars, authVars, planVars
  <2>8. CASE AnswerLost(p)
    BY <2>0, <2>8 DEF AnswerLost, Honoured, Raise, Strike, fileVars, authVars, planVars
  <2>9. CASE Truncate(p)
    <3>1. [(IF torn THEN Empty ELSE store) EXCEPT ![call[p].server] = call[p].rotated]
            \in [Login -> Nat]
      BY DEF Empty, Locals
    <3>2. call' \in [Proc -> Locals]
      BY <2>9, <3>1, LocalsUpdate DEF Truncate
    <3> QED BY <2>9, <3>2 DEF Truncate, fileVars, authVars, planVars
  <2>10. CASE Write(p)
    BY <2>10 DEF Write, Locals, fileVars, authVars, planVars
  <2>11. CASE Install(p)
    <3>1. call[p].server \in Server
      BY <2>11 DEF Install, CallInv
    <3>2. Minted(call[p].server) \in Entry
      BY <3>1, MintedType
    <3> QED BY <2>0, <2>11, <3>1, <3>2 DEF Install, fileVars, authVars, planVars
  <2> QED BY <1>3, <2>1, <2>2, <2>3, <2>4, <2>5, <2>6, <2>7, <2>8, <2>9, <2>10, <2>11
      DEF CallStep
<1>4. ASSUME NEW p \in Proc, Start(p) \/ Finish(p) PROVE TypeOK'
  <2>1. NoEntry \in Entry
    BY DEF NoEntry, Entry
  <2> QED BY <1>4, <2>1 DEF Start, Finish, fileVars, authVars, planVars
<1>5. CASE Restart
  <2>1. NoEntry \in Entry
    BY DEF NoEntry, Entry
  <2>2. Call(NoServer) \in Locals
    BY CallType
  <2>3. {call[p].server : p \in {q \in Proc : pc[q] = "saving"}} \subseteq Login
    BY DEF CallInv
  <2>4. lost' \in SUBSET Login
    BY <1>5, <2>3 DEF Restart
  <2> QED BY <1>5, <2>1, <2>2, <2>4, ServerAssumption DEF Restart, Strike, fileVars, planVars
<1>6. ASSUME NEW s \in Login, LogIn(s) PROVE TypeOK'
  <2>1. store' \in [Login -> Nat]
    BY <1>6 DEF LogIn, Empty
  <2> QED BY <1>6, <2>1 DEF LogIn, planVars
<1>7. CASE Tick
  BY <1>7 DEF Tick, fileVars, authVars, planVars
<1> QED BY <1>0, <1>1, <1>2, <1>3, <1>4, <1>5, <1>6, <1>7 DEF Next

-----------------------------------------------------------------------------
(* The rest of the inductive invariant, one lemma per step of _oauth_token.   *)
(* Such a step moves one process, and at most one of them is under the lock.  *)
LEMMA OthersStay ==
    ASSUME TypeOK, NEW p \in Proc, CallStep(p), NEW q \in Proc, q # p
    PROVE  pc'[q] = pc[q] /\ call'[q] = call[q]
BY DEF TypeOK, CallStep, Check, AcquireLock, Recheck, Load, Post, PostRefused,
       PostFails, AnswerLost, Truncate, Write, Install, Return, Raise, Goto

LEMMA Alone ==
    ASSUME Mutex, NEW p \in Proc, pc[p] \in Critical, NEW q \in Proc, q # p
    PROVE  pc[q] \notin Critical
BY DEF Mutex

LEMMA CheckStep ==
    ASSUME IInv, NEW p \in Proc, Check(p)
    PROVE  IInv'
<1>1. /\ TypeOK /\ Mutex /\ CallInv /\ OfferInv /\ SaveInv
      /\ NoReplay /\ LoginKept /\ MintsOnlySpent
  BY DEF IInv
<1>2. CallStep(p) /\ Next
  BY DEF CallStep, Next
<1>3. TypeOK'
  BY <1>1, <1>2, TypeStep
<1>4. /\ pc[p] = "checking" /\ pc'[p] \in {"staged", "locking"}
      /\ pc'[p] = "locking" => call'[p] = call[p]
  BY <1>1 DEF Check, Return, TypeOK, Goto, fileVars, authVars
<1>5. /\ UNCHANGED <<tokens, lock, fileVars, authVars, now>>
  BY DEF Check, Return, fileVars, authVars
<1>6. \A q \in Proc : q # p => pc'[q] = pc[q] /\ call'[q] = call[q]
  BY <1>1, <1>2, OthersStay
<1>8. Mutex' /\ CallInv'
  <2>1. Mutex'
    BY <1>1, <1>4, <1>5, <1>6, ServerAssumption DEF Mutex
  <2>2. CallInv'
    BY <1>1, <1>4, <1>5, <1>6 DEF CallInv
  <2> QED BY <2>1, <2>2
<1>9. OfferInv' /\ SaveInv'
  <2>1. OfferInv'
    BY <1>1, <1>4, <1>5, <1>6 DEF OfferInv, LoginKept, CallInv, fileVars, authVars
  <2>2. SaveInv'
    BY <1>1, <1>4, <1>5, <1>6 DEF SaveInv, LoginKept, TypeOK, Locals, fileVars, authVars
  <2> QED BY <2>1, <2>2
<1>10. NoReplay' /\ LoginKept'
  <2>1. NoReplay'
    BY <1>1, <1>4, <1>5, <1>6 DEF NoReplay, authVars
  <2>2. LoginKept'
    BY <1>1, <1>4, <1>5, <1>6 DEF LoginKept, SaveInv, TypeOK, fileVars, authVars
  <2> QED BY <2>1, <2>2
<1>11. MintsOnlySpent'
  BY <1>1, <1>4, <1>5, <1>6 DEF MintsOnlySpent, Live
<1> QED BY <1>3, <1>8, <1>9, <1>10, <1>11 DEF IInv

LEMMA AcquireLockStep ==
    ASSUME IInv, NEW p \in Proc, AcquireLock(p)
    PROVE  IInv'
<1>1. /\ TypeOK /\ Mutex /\ CallInv /\ OfferInv /\ SaveInv
      /\ NoReplay /\ LoginKept /\ MintsOnlySpent
  BY DEF IInv
<1>2. CallStep(p) /\ Next
  BY DEF CallStep, Next
<1>3. TypeOK'
  BY <1>1, <1>2, TypeStep
<1>4. /\ pc[p] = "locking" /\ pc'[p] = "rechecking"
      /\ lock = NoProc /\ lock' = p /\ call' = call
  BY <1>1 DEF AcquireLock, TypeOK, Goto, fileVars, authVars
<1>5. /\ UNCHANGED <<tokens, fileVars, authVars, now>>
  BY DEF AcquireLock, fileVars, authVars
<1>6. \A q \in Proc : q # p => pc'[q] = pc[q] /\ call'[q] = call[q]
  BY <1>1, <1>2, OthersStay
<1>8. Mutex' /\ CallInv'
  <2>1. Mutex'
    BY <1>1, <1>4, <1>5, <1>6, ServerAssumption DEF Mutex
  <2>2. CallInv'
    BY <1>1, <1>4, <1>5, <1>6 DEF CallInv
  <2> QED BY <2>1, <2>2
<1>9. OfferInv' /\ SaveInv'
  <2>1. OfferInv'
    BY <1>1, <1>4, <1>5, <1>6 DEF OfferInv, LoginKept, CallInv, fileVars, authVars
  <2>2. SaveInv'
    BY <1>1, <1>4, <1>5, <1>6 DEF SaveInv, LoginKept, TypeOK, Locals, fileVars, authVars
  <2> QED BY <2>1, <2>2
<1>10. NoReplay' /\ LoginKept'
  <2>1. NoReplay'
    BY <1>1, <1>4, <1>5, <1>6 DEF NoReplay, authVars
  <2>2. LoginKept'
    BY <1>1, <1>4, <1>5, <1>6 DEF LoginKept, SaveInv, TypeOK, fileVars, authVars
  <2> QED BY <2>1, <2>2
<1>11. MintsOnlySpent'
  BY <1>1, <1>4, <1>5, <1>6 DEF MintsOnlySpent, Live
<1> QED BY <1>3, <1>8, <1>9, <1>10, <1>11 DEF IInv

LEMMA RecheckStep ==
    ASSUME IInv, NEW p \in Proc, Recheck(p)
    PROVE  IInv'
<1>1. /\ TypeOK /\ Mutex /\ CallInv /\ OfferInv /\ SaveInv
      /\ NoReplay /\ LoginKept /\ MintsOnlySpent
  BY DEF IInv
<1>2. CallStep(p) /\ Next
  BY DEF CallStep, Next
<1>3. TypeOK'
  BY <1>1, <1>2, TypeStep
<1>4. /\ pc[p] = "rechecking" /\ pc'[p] \in {"staged", "loading", "posting"}
      /\ pc'[p] # "staged" =>
            /\ call' = call /\ lock' = lock /\ ~Live(call[p].server)
            /\ pc'[p] = "loading" <=> call[p].server \in Login
  BY <1>1 DEF Recheck, Return, TypeOK, Goto, fileVars, authVars
<1>5. /\ UNCHANGED <<tokens, fileVars, authVars, now>>
  BY DEF Recheck, Return, fileVars, authVars
<1>6. \A q \in Proc : q # p => pc'[q] = pc[q] /\ call'[q] = call[q]
  BY <1>1, <1>2, OthersStay
<1>7. \A q \in Proc : q # p => pc[q] \notin Critical
  BY <1>1, <1>4, Alone
<1>8. Mutex' /\ CallInv'
  <2>1. Mutex'
    BY <1>1, <1>4, <1>5, <1>6, <1>7, ServerAssumption DEF Mutex
  <2>2. CallInv'
    BY <1>1, <1>4, <1>5, <1>6, <1>7 DEF CallInv
  <2> QED BY <2>1, <2>2
<1>9. OfferInv' /\ SaveInv'
  <2>1. OfferInv'
    BY <1>1, <1>4, <1>5, <1>6, <1>7 DEF OfferInv, LoginKept, CallInv, fileVars, authVars
  <2>2. SaveInv'
    BY <1>1, <1>4, <1>5, <1>6, <1>7 DEF SaveInv, LoginKept, TypeOK, Locals, fileVars, authVars
  <2> QED BY <2>1, <2>2
<1>10. NoReplay' /\ LoginKept'
  <2>1. NoReplay'
    BY <1>1, <1>4, <1>5, <1>6, <1>7 DEF NoReplay, authVars
  <2>2. LoginKept'
    BY <1>1, <1>4, <1>5, <1>6, <1>7 DEF LoginKept, SaveInv, TypeOK, fileVars, authVars
  <2> QED BY <2>1, <2>2
<1>11. MintsOnlySpent'
  BY <1>1, <1>4, <1>5, <1>6, <1>7 DEF MintsOnlySpent, Live
<1> QED BY <1>3, <1>8, <1>9, <1>10, <1>11 DEF IInv

LEMMA LoadStep ==
    ASSUME IInv, NEW p \in Proc, Load(p)
    PROVE  IInv'
<1>1. /\ TypeOK /\ Mutex /\ CallInv /\ OfferInv /\ SaveInv
      /\ NoReplay /\ LoginKept /\ MintsOnlySpent
  BY DEF IInv
<1>2. CallStep(p) /\ Next
  BY DEF CallStep, Next
<1>3. TypeOK'
  BY <1>1, <1>2, TypeStep
<1>4. /\ pc[p] = "loading" /\ pc'[p] \in {"idle", "posting"}
      /\ pc'[p] = "posting" =>
            /\ lock' = lock /\ ~torn
            /\ call'[p].server = call[p].server
            /\ call'[p].offered = store[call[p].server]
  BY <1>1 DEF Load, Raise, TypeOK, Locals, Goto, fileVars, authVars
<1>5. /\ UNCHANGED <<tokens, fileVars, authVars, now>>
  BY DEF Load, Raise, fileVars, authVars
<1>6. \A q \in Proc : q # p => pc'[q] = pc[q] /\ call'[q] = call[q]
  BY <1>1, <1>2, OthersStay
<1>7. \A q \in Proc : q # p => pc[q] \notin Critical
  BY <1>1, <1>4, Alone
<1>8. Mutex' /\ CallInv'
  <2>1. Mutex'
    BY <1>1, <1>4, <1>5, <1>6, <1>7, ServerAssumption DEF Mutex
  <2>2. CallInv'
    BY <1>1, <1>4, <1>5, <1>6, <1>7 DEF CallInv
  <2> QED BY <2>1, <2>2
<1>9. OfferInv' /\ SaveInv'
  <2>1. OfferInv'
    BY <1>1, <1>4, <1>5, <1>6, <1>7 DEF OfferInv, LoginKept, CallInv, fileVars, authVars
  <2>2. SaveInv'
    BY <1>1, <1>4, <1>5, <1>6, <1>7 DEF SaveInv, LoginKept, TypeOK, Locals, fileVars, authVars
  <2> QED BY <2>1, <2>2
<1>10. NoReplay' /\ LoginKept'
  <2>1. NoReplay'
    BY <1>1, <1>4, <1>5, <1>6, <1>7 DEF NoReplay, authVars
  <2>2. LoginKept'
    BY <1>1, <1>4, <1>5, <1>6, <1>7 DEF LoginKept, SaveInv, TypeOK, fileVars, authVars
  <2> QED BY <2>1, <2>2
<1>11. MintsOnlySpent'
  BY <1>1, <1>4, <1>5, <1>6, <1>7 DEF MintsOnlySpent, Live
<1> QED BY <1>3, <1>8, <1>9, <1>10, <1>11 DEF IInv

LEMMA PostStep ==
    ASSUME IInv, NEW p \in Proc, Post(p)
    PROVE  IInv'
<1>1. /\ TypeOK /\ Mutex /\ CallInv /\ OfferInv /\ SaveInv
      /\ NoReplay /\ LoginKept /\ MintsOnlySpent
  BY DEF IInv
<1>2. CallStep(p) /\ Next
  BY DEF CallStep, Next
<1>3. TypeOK'
  BY <1>1, <1>2, TypeStep
<1>4. /\ pc[p] = "posting" /\ pc'[p] \in {"saving", "installing"}
      /\ call'[p].server = call[p].server
      /\ pc'[p] = "installing" => refresh' = refresh
      /\ pc'[p] = "saving" =>
            /\ call[p].server \in Login
            /\ refresh' = [refresh EXCEPT ![call[p].server] = @ + 1]
            /\ call'[p].rotated = refresh[call[p].server] + 1
  BY <1>1 DEF Post, Honoured, TypeOK, Locals, Goto, fileVars, authVars
<1>5. /\ UNCHANGED <<tokens, lock, fileVars, revoked, lost, now>>
  BY DEF Post, Honoured, fileVars, authVars
<1>6. \A q \in Proc : q # p => pc'[q] = pc[q] /\ call'[q] = call[q]
  BY <1>1, <1>2, OthersStay
<1>7. \A q \in Proc : q # p => pc[q] \notin Critical
  BY <1>1, <1>4, Alone
<1>8. Mutex' /\ CallInv'
  <2>1. Mutex'
    BY <1>1, <1>4, <1>5, <1>6, <1>7, ServerAssumption DEF Mutex
  <2>2. CallInv'
    BY <1>1, <1>4, <1>5, <1>6, <1>7 DEF CallInv
  <2> QED BY <2>1, <2>2
<1>9. OfferInv' /\ SaveInv'
  <2>1. OfferInv'
    BY <1>1, <1>4, <1>5, <1>6, <1>7 DEF OfferInv, LoginKept, CallInv, fileVars, authVars
  <2>2. SaveInv'
    BY <1>1, <1>4, <1>5, <1>6, <1>7 DEF SaveInv, LoginKept, TypeOK, Locals, fileVars, authVars
  <2> QED BY <2>1, <2>2
<1>10. NoReplay' /\ LoginKept'
  <2>1. NoReplay'
    BY <1>1, <1>4, <1>5, <1>6, <1>7 DEF NoReplay, authVars
  <2>2. LoginKept'
    BY <1>1, <1>4, <1>5, <1>6, <1>7 DEF LoginKept, SaveInv, TypeOK, fileVars, authVars
  <2> QED BY <2>1, <2>2
<1>11. MintsOnlySpent'
  BY <1>1, <1>4, <1>5, <1>6, <1>7 DEF MintsOnlySpent, Live
<1> QED BY <1>3, <1>8, <1>9, <1>10, <1>11 DEF IInv

LEMMA PostRefusedStep ==
    ASSUME IInv, NEW p \in Proc, PostRefused(p)
    PROVE  IInv'
<1>1. /\ TypeOK /\ Mutex /\ CallInv /\ OfferInv /\ SaveInv
      /\ NoReplay /\ LoginKept /\ MintsOnlySpent
  BY DEF IInv
<1>2. CallStep(p) /\ Next
  BY DEF CallStep, Next
<1>3. TypeOK'
  BY <1>1, <1>2, TypeStep
<1>4. /\ pc[p] = "posting" /\ pc'[p] = "idle"
      /\ call[p].server \in revoked \/ call[p].offered # refresh[call[p].server]
      /\ revoked' \in {revoked, revoked \cup {call[p].server}}
      /\ call[p].server \in Login
  BY <1>1 DEF PostRefused, Honoured, Refused, Raise, TypeOK, Goto, fileVars, authVars
<1>5. /\ UNCHANGED <<tokens, fileVars, refresh, lost, now>>
  BY DEF PostRefused, Honoured, Refused, Raise, fileVars, authVars
<1>6. \A q \in Proc : q # p => pc'[q] = pc[q] /\ call'[q] = call[q]
  BY <1>1, <1>2, OthersStay
<1>7. \A q \in Proc : q # p => pc[q] \notin Critical
  BY <1>1, <1>4, Alone
<1>8. Mutex' /\ CallInv'
  <2>1. Mutex'
    BY <1>1, <1>4, <1>5, <1>6, <1>7, ServerAssumption DEF Mutex
  <2>2. CallInv'
    BY <1>1, <1>4, <1>5, <1>6, <1>7 DEF CallInv
  <2> QED BY <2>1, <2>2
<1>9. OfferInv' /\ SaveInv'
  <2>1. OfferInv'
    BY <1>1, <1>4, <1>5, <1>6, <1>7 DEF OfferInv, LoginKept, CallInv, fileVars, authVars
  <2>2. SaveInv'
    BY <1>1, <1>4, <1>5, <1>6, <1>7 DEF SaveInv, LoginKept, TypeOK, Locals, fileVars, authVars
  <2> QED BY <2>1, <2>2
<1>10. NoReplay' /\ LoginKept'
  <2>1. call[p].server \in lost
    BY <1>1, <1>4 DEF OfferInv, NoReplay
  <2>2. NoReplay'
    BY <1>1, <1>4, <1>5, <2>1 DEF NoReplay
  <2>3. LoginKept'
    BY <1>1, <1>4, <1>5, <1>6, <1>7 DEF LoginKept, SaveInv, TypeOK, fileVars, authVars
  <2> QED BY <2>2, <2>3
<1>11. MintsOnlySpent'
  BY <1>1, <1>4, <1>5, <1>6, <1>7 DEF MintsOnlySpent, Live
<1> QED BY <1>3, <1>8, <1>9, <1>10, <1>11 DEF IInv

LEMMA PostFailsStep ==
    ASSUME IInv, NEW p \in Proc, PostFails(p)
    PROVE  IInv'
<1>1. /\ TypeOK /\ Mutex /\ CallInv /\ OfferInv /\ SaveInv
      /\ NoReplay /\ LoginKept /\ MintsOnlySpent
  BY DEF IInv
<1>2. CallStep(p) /\ Next
  BY DEF CallStep, Next
<1>3. TypeOK'
  BY <1>1, <1>2, TypeStep
<1>4. /\ pc[p] = "posting" /\ pc'[p] = "idle"
  BY <1>1 DEF PostFails, Raise, Strike, TypeOK, Goto, fileVars, authVars
<1>5. /\ UNCHANGED <<tokens, fileVars, authVars, now>>
  BY DEF PostFails, Raise, Strike, fileVars, authVars
<1>6. \A q \in Proc : q # p => pc'[q] = pc[q] /\ call'[q] = call[q]
  BY <1>1, <1>2, OthersStay
<1>7. \A q \in Proc : q # p => pc[q] \notin Critical
  BY <1>1, <1>4, Alone
<1>8. Mutex' /\ CallInv'
  <2>1. Mutex'
    BY <1>1, <1>4, <1>5, <1>6, <1>7, ServerAssumption DEF Mutex
  <2>2. CallInv'
    BY <1>1, <1>4, <1>5, <1>6, <1>7 DEF CallInv
  <2> QED BY <2>1, <2>2
<1>9. OfferInv' /\ SaveInv'
  <2>1. OfferInv'
    BY <1>1, <1>4, <1>5, <1>6, <1>7 DEF OfferInv, LoginKept, CallInv, fileVars, authVars
  <2>2. SaveInv'
    BY <1>1, <1>4, <1>5, <1>6, <1>7 DEF SaveInv, LoginKept, TypeOK, Locals, fileVars, authVars
  <2> QED BY <2>1, <2>2
<1>10. NoReplay' /\ LoginKept'
  <2>1. NoReplay'
    BY <1>1, <1>4, <1>5, <1>6, <1>7 DEF NoReplay, authVars
  <2>2. LoginKept'
    BY <1>1, <1>4, <1>5, <1>6, <1>7 DEF LoginKept, SaveInv, TypeOK, fileVars, authVars
  <2> QED BY <2>1, <2>2
<1>11. MintsOnlySpent'
  BY <1>1, <1>4, <1>5, <1>6, <1>7 DEF MintsOnlySpent, Live
<1> QED BY <1>3, <1>8, <1>9, <1>10, <1>11 DEF IInv

LEMMA AnswerLostStep ==
    ASSUME IInv, NEW p \in Proc, AnswerLost(p)
    PROVE  IInv'
<1>1. /\ TypeOK /\ Mutex /\ CallInv /\ OfferInv /\ SaveInv
      /\ NoReplay /\ LoginKept /\ MintsOnlySpent
  BY DEF IInv
<1>2. CallStep(p) /\ Next
  BY DEF CallStep, Next
<1>3. TypeOK'
  BY <1>1, <1>2, TypeStep
<1>4. /\ pc[p] = "posting" /\ pc'[p] = "idle"
      /\ call[p].server \in Login
      /\ refresh' = [refresh EXCEPT ![call[p].server] = @ + 1]
  BY <1>1 DEF AnswerLost, Honoured, Raise, Strike, TypeOK, Goto, fileVars, authVars
<1>5. /\ UNCHANGED <<tokens, fileVars, revoked, now>> /\ lost' = lost \cup {call[p].server}
  BY DEF AnswerLost, Honoured, Raise, Strike, fileVars, authVars
<1>6. \A q \in Proc : q # p => pc'[q] = pc[q] /\ call'[q] = call[q]
  BY <1>1, <1>2, OthersStay
<1>7. \A q \in Proc : q # p => pc[q] \notin Critical
  BY <1>1, <1>4, Alone
<1>8. Mutex' /\ CallInv'
  <2>1. Mutex'
    BY <1>1, <1>4, <1>5, <1>6, <1>7, ServerAssumption DEF Mutex
  <2>2. CallInv'
    BY <1>1, <1>4, <1>5, <1>6, <1>7 DEF CallInv
  <2> QED BY <2>1, <2>2
<1>9. OfferInv' /\ SaveInv'
  <2>1. OfferInv'
    BY <1>1, <1>4, <1>5, <1>6, <1>7 DEF OfferInv, LoginKept, CallInv, fileVars, authVars
  <2>2. SaveInv'
    BY <1>1, <1>4, <1>5, <1>6, <1>7 DEF SaveInv, LoginKept, TypeOK, Locals, fileVars, authVars
  <2> QED BY <2>1, <2>2
<1>10. NoReplay' /\ LoginKept'
  <2>1. NoReplay'
    BY <1>1, <1>4, <1>5, <1>6, <1>7 DEF NoReplay, authVars
  <2>2. LoginKept'
    BY <1>1, <1>4, <1>5, <1>6, <1>7 DEF LoginKept, SaveInv, TypeOK, fileVars, authVars
  <2> QED BY <2>1, <2>2
<1>11. MintsOnlySpent'
  BY <1>1, <1>4, <1>5, <1>6, <1>7 DEF MintsOnlySpent, Live
<1> QED BY <1>3, <1>8, <1>9, <1>10, <1>11 DEF IInv

LEMMA TruncateStep ==
    ASSUME IInv, NEW p \in Proc, Truncate(p)
    PROVE  IInv'
<1>1. /\ TypeOK /\ Mutex /\ CallInv /\ OfferInv /\ SaveInv
      /\ NoReplay /\ LoginKept /\ MintsOnlySpent
  BY DEF IInv
<1>2. CallStep(p) /\ Next
  BY DEF CallStep, Next
<1>3. TypeOK'
  BY <1>1, <1>2, TypeStep
<1>4. /\ pc[p] = "saving" /\ pc'[p] = "writing"
      /\ call'[p].server = call[p].server
      /\ call'[p].draft = [(IF torn THEN Empty ELSE store)
                            EXCEPT ![call[p].server] = call[p].rotated]
  BY <1>1 DEF Truncate, TypeOK, Locals, Goto, fileVars, authVars
<1>5. /\ UNCHANGED <<tokens, lock, store, authVars, now>> /\ torn' = TRUE
  BY DEF Truncate, fileVars, authVars
<1>6. \A q \in Proc : q # p => pc'[q] = pc[q] /\ call'[q] = call[q]
  BY <1>1, <1>2, OthersStay
<1>7. \A q \in Proc : q # p => pc[q] \notin Critical
  BY <1>1, <1>4, Alone
<1>8. Mutex' /\ CallInv'
  <2>1. Mutex'
    BY <1>1, <1>4, <1>5, <1>6, <1>7, ServerAssumption DEF Mutex
  <2>2. CallInv'
    BY <1>1, <1>4, <1>5, <1>6, <1>7 DEF CallInv
  <2> QED BY <2>1, <2>2
<1>9. OfferInv' /\ SaveInv'
  <2>1. OfferInv'
    BY <1>1, <1>4, <1>5, <1>6, <1>7 DEF OfferInv, LoginKept, CallInv, fileVars, authVars
  <2>2. SaveInv'
    BY <1>1, <1>4, <1>5, <1>6, <1>7 DEF SaveInv, LoginKept, TypeOK, Locals, fileVars, authVars
  <2> QED BY <2>1, <2>2
<1>10. NoReplay' /\ LoginKept'
  <2>1. NoReplay'
    BY <1>1, <1>4, <1>5, <1>6, <1>7 DEF NoReplay, authVars
  <2>2. LoginKept'
    BY <1>1, <1>4, <1>5, <1>6, <1>7 DEF LoginKept, SaveInv, TypeOK, fileVars, authVars
  <2> QED BY <2>1, <2>2
<1>11. MintsOnlySpent'
  BY <1>1, <1>4, <1>5, <1>6, <1>7 DEF MintsOnlySpent, Live
<1> QED BY <1>3, <1>8, <1>9, <1>10, <1>11 DEF IInv

LEMMA WriteStep ==
    ASSUME IInv, NEW p \in Proc, Write(p)
    PROVE  IInv'
<1>1. /\ TypeOK /\ Mutex /\ CallInv /\ OfferInv /\ SaveInv
      /\ NoReplay /\ LoginKept /\ MintsOnlySpent
  BY DEF IInv
<1>2. CallStep(p) /\ Next
  BY DEF CallStep, Next
<1>3. TypeOK'
  BY <1>1, <1>2, TypeStep
<1>4. /\ pc[p] = "writing" /\ pc'[p] = "installing" /\ call' = call
  BY <1>1 DEF Write, TypeOK, Goto, fileVars, authVars
<1>5. /\ UNCHANGED <<tokens, lock, authVars, now>> /\ store' = call[p].draft /\ torn' = FALSE
  BY DEF Write, fileVars, authVars
<1>6. \A q \in Proc : q # p => pc'[q] = pc[q] /\ call'[q] = call[q]
  BY <1>1, <1>2, OthersStay
<1>7. \A q \in Proc : q # p => pc[q] \notin Critical
  BY <1>1, <1>4, Alone
<1>8. Mutex' /\ CallInv'
  <2>1. Mutex'
    BY <1>1, <1>4, <1>5, <1>6, <1>7, ServerAssumption DEF Mutex
  <2>2. CallInv'
    BY <1>1, <1>4, <1>5, <1>6, <1>7 DEF CallInv
  <2> QED BY <2>1, <2>2
<1>9. OfferInv' /\ SaveInv'
  <2>1. OfferInv'
    BY <1>1, <1>4, <1>5, <1>6, <1>7 DEF OfferInv, LoginKept, CallInv, fileVars, authVars
  <2>2. SaveInv'
    BY <1>1, <1>4, <1>5, <1>6, <1>7 DEF SaveInv, LoginKept, TypeOK, Locals, fileVars, authVars
  <2> QED BY <2>1, <2>2
<1>10. NoReplay' /\ LoginKept'
  <2>1. NoReplay'
    BY <1>1, <1>4, <1>5, <1>6, <1>7 DEF NoReplay, authVars
  <2>2. LoginKept'
    BY <1>1, <1>4, <1>5, <1>6, <1>7 DEF LoginKept, SaveInv, TypeOK, fileVars, authVars
  <2> QED BY <2>1, <2>2
<1>11. MintsOnlySpent'
  BY <1>1, <1>4, <1>5, <1>6, <1>7 DEF MintsOnlySpent, Live
<1> QED BY <1>3, <1>8, <1>9, <1>10, <1>11 DEF IInv

LEMMA InstallStep ==
    ASSUME IInv, NEW p \in Proc, Install(p)
    PROVE  IInv'
<1>1. /\ TypeOK /\ Mutex /\ CallInv /\ OfferInv /\ SaveInv
      /\ NoReplay /\ LoginKept /\ MintsOnlySpent
  BY DEF IInv
<1>2. CallStep(p) /\ Next
  BY DEF CallStep, Next
<1>3. TypeOK'
  BY <1>1, <1>2, TypeStep
<1>4. /\ pc[p] = "installing" /\ pc'[p] = "staged"
      /\ call[p].server \in Server
  BY <1>1 DEF Install, TypeOK, CallInv, Goto, fileVars, authVars
<1>5. /\ UNCHANGED <<fileVars, authVars, now>>
      /\ tokens' = [tokens EXCEPT ![call[p].server] = Minted(call[p].server)]
  BY DEF Install, fileVars, authVars
<1>6. \A q \in Proc : q # p => pc'[q] = pc[q] /\ call'[q] = call[q]
  BY <1>1, <1>2, OthersStay
<1>7. \A q \in Proc : q # p => pc[q] \notin Critical
  BY <1>1, <1>4, Alone
<1>8. Mutex' /\ CallInv'
  <2>1. Mutex'
    BY <1>1, <1>4, <1>5, <1>6, <1>7, ServerAssumption DEF Mutex
  <2>2. CallInv'
    BY <1>1, <1>4, <1>5, <1>6, <1>7 DEF CallInv
  <2> QED BY <2>1, <2>2
<1>9. OfferInv' /\ SaveInv'
  <2>1. OfferInv'
    BY <1>1, <1>4, <1>5, <1>6, <1>7 DEF OfferInv, LoginKept, CallInv, fileVars, authVars
  <2>2. SaveInv'
    BY <1>1, <1>4, <1>5, <1>6, <1>7 DEF SaveInv, LoginKept, TypeOK, Locals, fileVars, authVars
  <2> QED BY <2>1, <2>2
<1>10. NoReplay' /\ LoginKept'
  <2>1. NoReplay'
    BY <1>1, <1>4, <1>5, <1>6, <1>7 DEF NoReplay, authVars
  <2>2. LoginKept'
    BY <1>1, <1>4, <1>5, <1>6, <1>7 DEF LoginKept, SaveInv, TypeOK, fileVars, authVars
  <2> QED BY <2>1, <2>2
<1>11. MintsOnlySpent'
  BY <1>1, <1>4, <1>5, <1>6, <1>7 DEF MintsOnlySpent, Live
<1> QED BY <1>3, <1>8, <1>9, <1>10, <1>11 DEF IInv

-----------------------------------------------------------------------------
(* The steps outside of _oauth_token.                                         *)
LEMMA PrimeStep ==
    ASSUME IInv, NEW s \in Server, Prime(s)
    PROVE  IInv'
<1>1. /\ TypeOK /\ Mutex /\ CallInv /\ OfferInv /\ SaveInv
      /\ NoReplay /\ LoginKept /\ MintsOnlySpent
  BY DEF IInv
<1>2. TypeOK'
  BY <1>1, TypeStep DEF Next
<1>3. /\ UNCHANGED <<tokens, lock, fileVars, authVars, now>>
      /\ pc[Parent] \in {"idle", "staged"} /\ pc'[Parent] = "checking"
      /\ call'[Parent].server = s
      /\ \A q \in Proc : q # Parent => pc'[q] = pc[q] /\ call'[q] = call[q]
  BY <1>1, ServerAssumption DEF Prime, Goto, Call, TypeOK
<1>4. Mutex' /\ CallInv'
  BY <1>1, <1>3 DEF Mutex, CallInv
<1>5. OfferInv' /\ SaveInv'
  BY <1>1, <1>3 DEF OfferInv, SaveInv, fileVars, authVars
<1>6. NoReplay' /\ LoginKept' /\ MintsOnlySpent'
  BY <1>1, <1>3, ServerAssumption DEF NoReplay, LoginKept, MintsOnlySpent, Live, fileVars, authVars
<1> QED BY <1>2, <1>4, <1>5, <1>6 DEF IInv

LEMMA AskStep ==
    ASSUME IInv, NEW p \in Proc, NEW s \in Server, Ask(p, s)
    PROVE  IInv'
<1>1. /\ TypeOK /\ Mutex /\ CallInv /\ OfferInv /\ SaveInv
      /\ NoReplay /\ LoginKept /\ MintsOnlySpent
  BY DEF IInv
<1>2. TypeOK'
  BY <1>1, TypeStep DEF Next
<1>3. /\ UNCHANGED <<tokens, lock, fileVars, authVars, now>>
      /\ pc[p] = "idle" /\ pc'[p] = "checking" /\ call'[p].server = s
      /\ \A q \in Proc : q # p => pc'[q] = pc[q] /\ call'[q] = call[q]
  BY <1>1 DEF Ask, Goto, Call, TypeOK
<1>4. Mutex' /\ CallInv'
  BY <1>1, <1>3 DEF Mutex, CallInv
<1>5. OfferInv' /\ SaveInv'
  BY <1>1, <1>3 DEF OfferInv, SaveInv, fileVars, authVars
<1>6. NoReplay' /\ LoginKept' /\ MintsOnlySpent'
  BY <1>1, <1>3 DEF NoReplay, LoginKept, MintsOnlySpent, Live, fileVars, authVars
<1> QED BY <1>2, <1>4, <1>5, <1>6 DEF IInv

LEMMA AttemptStep ==
    ASSUME IInv, NEW p \in Proc, Start(p) \/ Finish(p)
    PROVE  IInv'
<1>1. /\ TypeOK /\ Mutex /\ CallInv /\ OfferInv /\ SaveInv
      /\ NoReplay /\ LoginKept /\ MintsOnlySpent
  BY DEF IInv
<1>2. TypeOK'
  BY <1>1, TypeStep DEF Next
<1>3. /\ UNCHANGED <<tokens, lock, fileVars, authVars, call, now>>
      /\ pc'[p] \in {"invoking", "idle"} /\ pc[p] \in {"staged", "invoking"}
      /\ \A q \in Proc : q # p => pc'[q] = pc[q]
  BY <1>1 DEF Start, Finish, Goto, TypeOK
<1>4. Mutex' /\ CallInv'
  BY <1>1, <1>3 DEF Mutex, CallInv
<1>5. OfferInv' /\ SaveInv'
  BY <1>1, <1>3 DEF OfferInv, SaveInv, fileVars, authVars
<1>6. NoReplay' /\ LoginKept' /\ MintsOnlySpent'
  BY <1>1, <1>3 DEF NoReplay, LoginKept, MintsOnlySpent, Live, fileVars, authVars
<1> QED BY <1>2, <1>4, <1>5, <1>6 DEF IInv

LEMMA RestartStep ==
    ASSUME IInv, Restart
    PROVE  IInv'
<1>1. /\ TypeOK /\ Mutex /\ CallInv /\ OfferInv /\ SaveInv
      /\ NoReplay /\ LoginKept /\ MintsOnlySpent
  BY DEF IInv
<1>2. TypeOK'
  BY <1>1, TypeStep DEF Next
<1>3. \A p \in Proc : pc'[p] = "idle"
  BY DEF Restart
<1>4. Mutex' /\ CallInv' /\ OfferInv' /\ SaveInv' /\ MintsOnlySpent'
  BY <1>3 DEF Mutex, CallInv, OfferInv, SaveInv, MintsOnlySpent
<1>5. NoReplay'
  BY <1>1 DEF Restart, NoReplay, TypeOK
<1>6. LoginKept'
  <2> SUFFICES ASSUME NEW s \in Login \ lost'
               PROVE  ~torn /\ store[s] = refresh[s]
    BY DEF Restart, LoginKept, fileVars
  <2>1. /\ ~torn
        /\ s \notin lost
        /\ \A p \in Proc : pc[p] = "saving" => call[p].server # s
    BY DEF Restart
  <2>2. \A p \in Proc : pc[p] # "writing"
    BY <1>1, <2>1 DEF SaveInv
  <2>3. ASSUME NEW p \in Proc, pc[p] = "saving" PROVE store[s] = refresh[s]
    BY <1>1, <2>1, <2>3 DEF SaveInv
  <2> QED BY <1>1, <2>1, <2>2, <2>3 DEF LoginKept
<1> QED BY <1>2, <1>4, <1>5, <1>6 DEF IInv

LEMMA LogInStep ==
    ASSUME IInv, NEW s \in Login, LogIn(s)
    PROVE  IInv'
<1>1. /\ TypeOK /\ Mutex /\ CallInv /\ OfferInv /\ SaveInv
      /\ NoReplay /\ LoginKept /\ MintsOnlySpent
  BY DEF IInv
<1>2. TypeOK'
  BY <1>1, TypeStep DEF Next
<1>3. \A p \in Proc : pc[p] = "idle" /\ pc'[p] = "idle"
  BY DEF LogIn
<1>4. Mutex' /\ CallInv' /\ OfferInv' /\ SaveInv' /\ MintsOnlySpent'
  BY <1>3 DEF Mutex, CallInv, OfferInv, SaveInv, MintsOnlySpent
<1>5. NoReplay'
  BY <1>1 DEF LogIn, NoReplay
<1>6. LoginKept'
  <2> SUFFICES ASSUME NEW t \in Login \ lost'
               PROVE  ~torn' /\ store'[t] = refresh'[t]
    BY DEF LoginKept
  <2>1. CASE t = s
    BY <1>1, <2>1 DEF LogIn, TypeOK, Empty
  <2>2. CASE t # s
    <3>1. t \in Login \ lost
      BY <2>2 DEF LogIn
    <3>2. ~torn /\ store[t] = refresh[t]
      BY <1>1, <1>3, <3>1 DEF LoginKept
    <3> QED BY <1>1, <2>2, <3>2 DEF LogIn, TypeOK
  <2> QED BY <2>1, <2>2
<1> QED BY <1>2, <1>4, <1>5, <1>6 DEF IInv

LEMMA TickStep ==
    ASSUME IInv, Tick
    PROVE  IInv'
<1>1. /\ TypeOK /\ Mutex /\ CallInv /\ OfferInv /\ SaveInv
      /\ NoReplay /\ LoginKept /\ MintsOnlySpent
  BY DEF IInv
<1>2. TypeOK'
  BY <1>1, TypeStep DEF Next
<1>3. /\ UNCHANGED <<tokens, lock, fileVars, authVars, pc, call>>
      /\ \A p \in Proc : pc[p] \notin InCall
  BY DEF Tick
<1>4. Mutex' /\ CallInv' /\ OfferInv' /\ SaveInv' /\ MintsOnlySpent'
  BY <1>3 DEF Mutex, CallInv, OfferInv, SaveInv, MintsOnlySpent
<1>5. NoReplay' /\ LoginKept'
  BY <1>1, <1>3 DEF NoReplay, LoginKept, fileVars, authVars
<1> QED BY <1>2, <1>4, <1>5 DEF IInv

LEMMA StutterStep ==
    ASSUME IInv, UNCHANGED vars
    PROVE  IInv'
BY DEF IInv, TypeOK, Mutex, CallInv, OfferInv, SaveInv, NoReplay, LoginKept,
       MintsOnlySpent, Live, vars, fileVars, authVars, planVars

LEMMA NextInv == IInv /\ [Next]_vars => IInv'
<1> SUFFICES ASSUME IInv, [Next]_vars PROVE IInv'
  OBVIOUS
<1>1. ASSUME NEW p \in Proc, CallStep(p) PROVE IInv'
  BY <1>1, CheckStep, AcquireLockStep, RecheckStep, LoadStep, PostStep,
     PostRefusedStep, PostFailsStep, AnswerLostStep, TruncateStep, WriteStep,
     InstallStep DEF CallStep
<1> QED BY <1>1, PrimeStep, AskStep, AttemptStep, RestartStep, LogInStep, TickStep, StutterStep
    DEF Next

-----------------------------------------------------------------------------
(* IInv is inductive.                                                         *)
THEOREM Inductive == Spec => []IInv
BY InitInv, NextInv, PTL DEF Spec

(* Every variable keeps its type: _TOKENS, the file, the calls in progress.   *)
THEOREM TypeCorrect == Spec => []TypeOK
<1>1. IInv => TypeOK
  BY DEF IInv
<1> QED BY <1>1, Inductive, PTL

(* No login is revoked for a replayed refresh token, except one whose newest  *)
(* token a lost answer or a crash kept out of the file: the one cache and the *)
(* one lock of a run are enough, for any number of processes.                 *)
THEOREM NeverReplayed == Spec => []NoReplay
<1>1. IInv => NoReplay
  BY DEF IInv
<1> QED BY <1>1, Inductive, PTL

(* The file of logins holds, whenever nobody is writing it, the refresh token *)
(* the authorization server accepts: saving one login never undoes another.   *)
THEOREM LoginsSurvive == Spec => []LoginKept
<1>1. IInv => LoginKept
  BY DEF IInv
<1> QED BY <1>1, Inductive, PTL

(* A process at the token endpoint asks for a token that is spent: the second *)
(* look, under the lock, makes one process mint for all that wait.            *)
THEOREM OneMints == Spec => []MintsOnlySpent
<1>1. IInv => MintsOnlySpent
  BY DEF IInv
<1> QED BY <1>1, Inductive, PTL
=============================================================================
