------------------------------- MODULE TokenCache -------------------------------
(***************************************************************************)
(* The OAuth access tokens of a parallel run: mcp._oauth_token, called by  *)
(* every worker as it stages an attempt, the cache and the lock the run's  *)
(* processes share, oauth.refresh_login under that lock, and the file of   *)
(* stored logins, which outlives the run.  A staged attempt then waits for *)
(* its concurrency group before the harness starts on the token it holds.  *)
(*                                                                         *)
(* The authorization server is outside the program: it may rotate a        *)
(* refresh token whenever it is used, and revokes the login when a         *)
(* superseded one arrives.                                                 *)
(*                                                                         *)
(* One unit of time is long beside a token request: no time passes while a *)
(* process is inside _oauth_token, nor while one could take its permit.    *)
(***************************************************************************)
EXTENDS Integers, FiniteSets

CONSTANTS
    Proc,           \* the parent process of the run and its workers
    Parent,
    NoProc,
    NoServer,
    Server,         \* the servers that carry `oauth`
    Login,          \* those with a stored login; the others have a secret
    Lifetime,       \* what a grant declares per server; 0: it declares none
    Permits,        \* the limit of the concurrency group of the attempts
    Attempts,       \* how many a run stages; each attaches one server
    MaxTime,        \* bounds the clock
    MaxFailures     \* bounds lost requests, lost answers and restarts

ASSUME ServerAssumption ==
    /\ Login \subseteq Server
    /\ Lifetime \in [Server -> Nat]
    /\ Parent \in Proc
    /\ NoProc \notin Proc
    /\ NoServer \notin Server
    /\ Permits \in Nat \ {0}
    /\ Attempts \in Nat
    /\ MaxTime \in Nat
    /\ MaxFailures \in Nat

VARIABLES
    tokens,     \* _TOKENS: the entry of each server, or NoEntry
    lock,       \* who is inside `with _TOKEN_LOCK`
    store,      \* mcp-oauth.json: each login's refresh token, 0 if absent
    torn,       \* that file is truncated and not yet written
    refresh,    \* the refresh token the authorization server accepts
    revoked,    \* the logins it revoked
    lost,       \* the logins whose newest refresh token never got into the file
    primed,     \* the servers the parent has asked for before the workers start
    queued,     \* the attempts of the run no worker has taken yet
    pc,         \* where each process is
    call,       \* the locals of its call of _oauth_token
    held,       \* the entry it returned with
    now,
    failures

fileVars == <<store, torn>>
authVars == <<refresh, revoked, lost>>
planVars == <<primed, queued>>
vars == <<tokens, lock, fileVars, authVars, planVars, pc, call, held, now, failures>>

NoEntry == [valid |-> FALSE, lapses |-> FALSE, renewAt |-> 0, expires |-> 0]
Empty == [s \in Login |-> 0]

(* The locals of a call: the server whose token is asked for, the refresh   *)
(* token read from the file, the one the answer carried (0 if none) and the *)
(* contents about to be written.                                            *)
Call(s) == [server |-> s, offered |-> 0, rotated |-> 0, draft |-> Empty]

(* Where a process holds the lock, and where it is inside _oauth_token. *)
Critical == {"rechecking", "loading", "posting", "saving", "writing", "installing"}
InCall == Critical \cup {"checking", "locking"}

Init ==
    /\ tokens = [s \in Server |-> NoEntry]
    /\ lock = NoProc
    /\ store = [s \in Login |-> 1]
    /\ torn = FALSE
    /\ refresh = [s \in Login |-> 1]
    /\ revoked = {}
    /\ lost = {}
    /\ primed = {}
    /\ queued = Attempts
    /\ pc = [p \in Proc |-> "idle"]
    /\ call = [p \in Proc |-> Call(NoServer)]
    /\ held = [p \in Proc |-> NoEntry]
    /\ now = 0
    /\ failures = 0

Goto(p, l) == pc' = [pc EXCEPT ![p] = l]

Strike == failures < MaxFailures /\ failures' = failures + 1

(* _live_token: a grant that declared no lifetime is live for good. *)
Live(s) ==
    tokens[s].valid /\ ~(tokens[s].lapses /\ 5 * now >= tokens[s].renewAt)

(* The entry _oauth_token puts into the cache: renewed at 0.8 of its life  *)
(* (renewAt is in fifths of the unit of time).                             *)
Minted(s) ==
    [valid   |-> TRUE,
     lapses  |-> Lifetime[s] > 0,
     renewAt |-> 5 * now + 4 * Lifetime[s],
     expires |-> now + Lifetime[s]]

(* _stage_mcp: the parent stages every server before it starts the workers; *)
(* a server it gets no token for ends the run.                              *)
Prime(s) ==
    /\ pc[Parent] = IF primed = {} THEN "idle" ELSE "staged"
    /\ s \notin primed
    /\ primed' = primed \cup {s}
    /\ Goto(Parent, "checking")
    /\ call' = [call EXCEPT ![Parent] = Call(s)]
    /\ UNCHANGED <<tokens, lock, fileVars, authVars, queued, held, now, failures>>

(* A worker takes an attempt after the last one.                            *)
Ask_Mut(p, s) ==
    /\ pc[p] = "idle"
    /\ queued' = queued - 1
    /\ Goto(p, "checking")
    /\ call' = [call EXCEPT ![p] = Call(s)]
    /\ UNCHANGED <<tokens, lock, fileVars, authVars, primed, held, now, failures>>

(* A worker stages its next attempt, which attaches server s. *)
Ask(p, s) ==
    /\ primed = Server /\ pc[Parent] = "staged"
    /\ pc[p] = "idle"
    /\ queued > 0
    /\ queued' = queued - 1
    /\ Goto(p, "checking")
    /\ call' = [call EXCEPT ![p] = Call(s)]
    /\ UNCHANGED <<tokens, lock, fileVars, authVars, primed, held, now, failures>>

(* _oauth_token returns the cached entry, and lets go of the lock. *)
Return(p) ==
    /\ held' = [held EXCEPT ![p] = tokens[call[p].server]]
    /\ call' = [call EXCEPT ![p] = Call(NoServer)]
    /\ Goto(p, "staged")

(* The look at the cache before the lock. *)
Check(p) ==
    /\ pc[p] = "checking"
    /\ \/ Live(call[p].server) /\ Return(p)
       \/ ~Live(call[p].server) /\ Goto(p, "locking") /\ UNCHANGED <<call, held>>
    /\ UNCHANGED <<tokens, lock, fileVars, authVars, planVars, now, failures>>

(* Each process behind a lock of its own. *)
AcquireLock_Mut(p) ==
    /\ pc[p] = "locking"
    /\ lock' = p
    /\ Goto(p, "rechecking")
    /\ UNCHANGED <<tokens, fileVars, authVars, planVars, call, held, now, failures>>

AcquireLock(p) ==
    /\ pc[p] = "locking"
    /\ lock = NoProc
    /\ lock' = p
    /\ Goto(p, "rechecking")
    /\ UNCHANGED <<tokens, fileVars, authVars, planVars, call, held, now, failures>>

(* No second look under the lock. *)
Recheck_Mut(p) ==
    /\ pc[p] = "rechecking"
    /\ Goto(p, IF call[p].server \in Login THEN "loading" ELSE "posting")
    /\ UNCHANGED <<tokens, lock, fileVars, authVars, planVars, call, held, now, failures>>

(* The second look: another process may have minted meanwhile. *)
Recheck(p) ==
    /\ pc[p] = "rechecking"
    /\ \/ Live(call[p].server) /\ Return(p) /\ lock' = NoProc
       \/ /\ ~Live(call[p].server)
          /\ Goto(p, IF call[p].server \in Login THEN "loading" ELSE "posting")
          /\ UNCHANGED <<lock, call, held>>
    /\ UNCHANGED <<tokens, fileVars, authVars, planVars, now, failures>>

(* acquire() and release() without a `finally`.                             *)
Raise_Mut(p) ==
    /\ Goto(p, "idle")
    /\ call' = [call EXCEPT ![p] = Call(NoServer)]
    /\ UNCHANGED <<tokens, lock, fileVars, planVars, held, now>>

(* A UsageError out of the call: the lock is released, the attempt is not  *)
(* staged, and the worker goes on to whatever is queued.                   *)
Raise(p) ==
    /\ Goto(p, "idle")
    /\ call' = [call EXCEPT ![p] = Call(NoServer)]
    /\ lock' = NoProc
    /\ UNCHANGED <<tokens, fileVars, planVars, held, now>>

(* refresh_login reads the file; a truncated one reads as having no logins. *)
Load(p) ==
    /\ pc[p] = "loading"
    /\ LET token == IF torn THEN 0 ELSE store[call[p].server]
       IN  \/ /\ token = 0
              /\ Raise(p)
           \/ /\ token # 0
              /\ call' = [call EXCEPT ![p].offered = token]
              /\ Goto(p, "posting")
              /\ UNCHANGED <<tokens, lock, fileVars, planVars, held, now>>
    /\ UNCHANGED <<authVars, failures>>

(* The authorization server still honours the refresh token p offers. *)
Honoured(p) ==
    LET s == call[p].server
    IN  s \in Login \ revoked /\ call[p].offered = refresh[s]

(* Its answer to a refresh: a superseded token revokes the login. *)
Refused(p) ==
    LET s == call[p].server
    IN  revoked' = IF s \in Login /\ call[p].offered # refresh[s]
                   THEN revoked \cup {s} ELSE revoked

(* The request is answered with an access token and, if the server rotates, *)
(* with the refresh token that replaces the one offered.                    *)
Post(p) ==
    /\ pc[p] = "posting"
    /\ call[p].server \in Login => Honoured(p)
    /\ \/ /\ call[p].server \in Login
          /\ refresh' = [refresh EXCEPT ![call[p].server] = @ + 1]
          /\ call' = [call EXCEPT ![p].rotated = refresh[call[p].server] + 1]
          /\ Goto(p, "saving")
       \/ Goto(p, "installing") /\ UNCHANGED <<refresh, call>>
    /\ UNCHANGED <<tokens, lock, fileVars, revoked, lost, planVars, held, now, failures>>

(* The server refuses the token offered. *)
PostRefused(p) ==
    /\ pc[p] = "posting"
    /\ call[p].server \in Login /\ ~Honoured(p)
    /\ Refused(p)
    /\ Raise(p)
    /\ UNCHANGED <<refresh, lost, failures>>

(* The request never reaches the server. *)
PostFails(p) ==
    /\ pc[p] = "posting"
    /\ Strike
    /\ Raise(p)
    /\ UNCHANGED authVars

(* The server answers and rotates; the answer comes after the timeout. *)
AnswerLost(p) ==
    /\ pc[p] = "posting"
    /\ Honoured(p)
    /\ Strike
    /\ refresh' = [refresh EXCEPT ![call[p].server] = @ + 1]
    /\ lost' = lost \cup {call[p].server}
    /\ Raise(p)
    /\ UNCHANGED revoked

(* The refresh token the answer carries is not stored.                      *)
Truncate_Mut(p) ==
    /\ pc[p] = "saving"
    /\ Goto(p, "installing")
    /\ UNCHANGED <<tokens, lock, fileVars, authVars, planVars, call, held, now, failures>>

(* _save_login reads the file again, and write_text truncates it.           *)
Truncate(p) ==
    /\ pc[p] = "saving"
    /\ call' = [call EXCEPT ![p].draft =
                    [(IF torn THEN Empty ELSE store) EXCEPT ![call[p].server] = call[p].rotated]]
    /\ torn' = TRUE
    /\ Goto(p, "writing")
    /\ UNCHANGED <<tokens, lock, store, authVars, planVars, held, now, failures>>

Write(p) ==
    /\ pc[p] = "writing"
    /\ store' = call[p].draft
    /\ torn' = FALSE
    /\ Goto(p, "installing")
    /\ UNCHANGED <<tokens, lock, authVars, planVars, call, held, now, failures>>

(* The new entry goes into the cache, the lock is released, and the call    *)
(* returns it.                                                              *)
Install(p) ==
    /\ pc[p] = "installing"
    /\ tokens' = [tokens EXCEPT ![call[p].server] = Minted(call[p].server)]
    /\ held' = [held EXCEPT ![p] = Minted(call[p].server)]
    /\ lock' = NoProc
    /\ call' = [call EXCEPT ![p] = Call(NoServer)]
    /\ Goto(p, "staged")
    /\ UNCHANGED <<fileVars, authVars, planVars, now, failures>>

PermitFree == Cardinality({q \in Proc : pc[q] = "invoking"}) < Permits

(* The attempt gets its group's permit, and the harness starts on the token *)
(* it was staged with.                                                      *)
Start(p) ==
    /\ p # Parent
    /\ pc[p] = "staged"
    /\ PermitFree
    /\ Goto(p, "invoking")
    /\ UNCHANGED <<tokens, lock, fileVars, authVars, planVars, call, held, now, failures>>

Finish(p) ==
    /\ pc[p] = "invoking"
    /\ Goto(p, "idle")
    /\ held' = [held EXCEPT ![p] = NoEntry]
    /\ UNCHANGED <<tokens, lock, fileVars, authVars, planVars, call, now, failures>>

(* A worker dies, or the user interrupts the run: the pool goes down with   *)
(* its cache and its lock, and another run starts on the same file.  What   *)
(* was rotated and not written is lost, and with a truncated file all of it. *)
Restart ==
    /\ Strike
    /\ primed' = {}
    /\ queued' = Attempts
    /\ pc' = [p \in Proc |-> "idle"]
    /\ held' = [p \in Proc |-> NoEntry]
    /\ call' = [p \in Proc |-> Call(NoServer)]
    /\ tokens' = [s \in Server |-> NoEntry]
    /\ lock' = NoProc
    /\ lost' = IF torn THEN Login
               ELSE lost \cup {call[p].server : p \in {q \in Proc : pc[q] = "saving"}}
    /\ UNCHANGED <<fileVars, refresh, revoked, now>>

(* `agent-exam mcp login`, run between runs when one complained about the   *)
(* login of s: a new login of its own, put into what the file still says.   *)
LogIn(s) ==
    /\ \A p \in Proc : pc[p] = "idle"
    /\ s \in lost \cup revoked
    /\ refresh' = [refresh EXCEPT ![s] = @ + 1]
    /\ store' = [(IF torn THEN Empty ELSE store) EXCEPT ![s] = refresh[s] + 1]
    /\ torn' = FALSE
    /\ lost' = lost \ {s}
    /\ revoked' = revoked \ {s}
    /\ UNCHANGED <<tokens, lock, pc, planVars, call, held, now, failures>>

Tick ==
    /\ now < MaxTime
    /\ \A p \in Proc : pc[p] \notin InCall
    /\ PermitFree => \A p \in Proc \ {Parent} : pc[p] # "staged"
    /\ now' = now + 1
    /\ UNCHANGED <<tokens, lock, fileVars, authVars, pc, planVars, call, held, failures>>

CallStep(p) ==
    \/ Check(p) \/ AcquireLock(p) \/ Recheck(p) \/ Load(p)
    \/ Post(p) \/ PostRefused(p) \/ PostFails(p) \/ AnswerLost(p)
    \/ Truncate(p) \/ Write(p) \/ Install(p)

Next ==
    \/ \E s \in Server : Prime(s)
    \/ \E p \in Proc :
          \/ \E s \in Server : Ask(p, s)
          \/ CallStep(p) \/ Start(p) \/ Finish(p)
    \/ Restart
    \/ \E s \in Login : LogIn(s)
    \/ Tick

Spec == Init /\ [][Next]_vars /\ \A p \in Proc : WF_vars(CallStep(p) \/ Start(p) \/ Finish(p))

-----------------------------------------------------------------------------
Entry == [valid : BOOLEAN, lapses : BOOLEAN, renewAt : Nat, expires : Nat]
Locals ==
    [server : Server \cup {NoServer}, offered : Nat, rotated : Nat,
     draft : [Login -> Nat]]

TypeOK ==
    /\ tokens \in [Server -> Entry]
    /\ lock \in Proc \cup {NoProc}
    /\ store \in [Login -> Nat]
    /\ torn \in BOOLEAN
    /\ refresh \in [Login -> Nat]
    /\ revoked \in SUBSET Login
    /\ lost \in SUBSET Login
    /\ primed \in SUBSET Server
    /\ queued \in 0 .. Attempts
    /\ pc \in [Proc -> {"idle", "staged", "invoking"} \cup InCall]
    /\ call \in [Proc -> Locals]
    /\ held \in [Proc -> Entry]
    /\ now \in Nat
    /\ failures \in Nat

(* The authorization server never sees a refresh token replayed, so no login *)
(* is revoked, unless the answer that rotated it was lost or the process     *)
(* died before the new one was in the file: many workers asking at the same  *)
(* time are never the cause.                                                 *)
NoReplay == revoked \subseteq lost

(* Outside of _save_login the file holds the refresh token the server        *)
(* accepts: no refresh of one login loses that of another.                   *)
LoginKept ==
    \A s \in Login \ lost :
        (\A p \in Proc : pc[p] \notin {"saving", "writing"}) =>
            ~torn /\ store[s] = refresh[s]

(* A process is at the token endpoint only for a server whose token is spent *)
(* then: however many found it spent at once, one of them mints for all.     *)
MintsOnlySpent ==
    \A p \in Proc :
        pc[p] \in Critical \ {"rechecking"} => ~Live(call[p].server)

(* Every call ends, with a token or an error, however the others fare: the   *)
(* lock is not a fair one, but a run has only so many attempts.              *)
CallEnds == \A p \in Proc : pc[p] = "checking" ~> pc[p] \notin InCall
-----------------------------------------------------------------------------
(* The inductive invariant behind NoReplay, LoginKept and MintsOnlySpent.    *)

Mutex == \A p \in Proc : pc[p] \in Critical => lock = p

(* What a process inside _oauth_token asks for.                              *)
CallInv ==
    \A p \in Proc :
        /\ pc[p] \in InCall => call[p].server \in Server
        /\ pc[p] \in {"loading", "saving", "writing"} => call[p].server \in Login

(* What the process inside refresh_login is about to send or to store.       *)
OfferInv ==
    \A p \in Proc, s \in Login \ lost :
        pc[p] = "posting" /\ call[p].server = s => call[p].offered = refresh[s]

SaveInv ==
    \A p \in Proc :
        /\ pc[p] = "saving" => \A s \in Login \ lost :
              /\ ~torn
              /\ (IF s = call[p].server THEN call[p].rotated ELSE store[s]) = refresh[s]
        /\ pc[p] = "writing" =>
              torn /\ \A s \in Login \ lost : call[p].draft[s] = refresh[s]

IInv ==
    /\ TypeOK /\ Mutex /\ CallInv /\ OfferInv /\ SaveInv
    /\ NoReplay /\ LoginKept /\ MintsOnlySpent
=============================================================================
