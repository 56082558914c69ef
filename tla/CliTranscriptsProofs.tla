------------------------ MODULE CliTranscriptsProofs ------------------------
(***************************************************************************)
(* Proofs about CliTranscripts: what each builder of a trajectory keeps of *)
(* the acts it is given and of the skill or tool that was detected, for    *)
(* records of any length.                                                  *)
(***************************************************************************)
EXTENDS CliTranscripts, SequenceTheorems, WellFoundedInduction, TLAPS

-----------------------------------------------------------------------------
(* Sequences. *)

LEMMA LeastNatural ==
    ASSUME NEW T, T \subseteq Nat, T # {}
    PROVE  \E i \in T : \A j \in T : i <= j
<1> DEFINE Less == {ij \in Nat \X Nat : ij[1] < ij[2]}
<1>1. IsWellFoundedOn(Less, Nat)
  BY NatLessThanWellFounded DEF OpToRel
<1>2. \A i, j \in Nat : j < i => <<j, i>> \in Less
  OBVIOUS
<1> HIDE DEF Less
<1>3. PICK i \in T : \A j \in T : ~ (<<j, i>> \in Less)
  BY <1>1, WFMin
<1>4. \A j \in T : i \in Nat /\ j \in Nat /\ ~ (j < i)
  BY <1>2, <1>3
<1> QED BY <1>4

(* First and Last_ pick a member.                                            *)
LEMMA FirstIn ==
    ASSUME NEW S, S \subseteq Nat, S # {}
    PROVE  First(S) \in S
BY LeastNatural DEF First

LEMMA LastIn ==
    ASSUME NEW n \in Nat, NEW S, S \subseteq 1..n, S # {}
    PROVE  Last_(S) \in S
<1> DEFINE T == {n - i : i \in S}
<1>1. T \subseteq Nat /\ T # {}
  <2>1. \A i \in S : n - i \in Nat
    OBVIOUS
  <2> QED
    BY <2>1
<1>2. PICK k \in T : \A j \in T : k <= j
  BY <1>1, LeastNatural
<1>3. PICK i \in S : k = n - i
  OBVIOUS
<1>4. ASSUME NEW j \in S PROVE i >= j
  <2>1. n - i <= n - j
    BY <1>2, <1>3
  <2> QED
    BY <2>1
<1> QED
  BY <1>3, <1>4 DEF Last_

(* What holds of nothing, and of n when it holds of n - 1.                   *)
LEMMA UpTo ==
    ASSUME NEW N \in Nat, NEW S, 0 \in S, \A n \in 1..N : n - 1 \in S => n \in S
    PROVE  \A n \in 0..N : n \in S
<1> DEFINE T == {n \in 0..N : n \notin S}
<1>1. SUFFICES ASSUME T # {} PROVE FALSE
  OBVIOUS
<1>2. PICK i \in T : \A j \in T : i <= j
  <2>1. T \subseteq Nat
    OBVIOUS
  <2> QED
    BY <1>1, <2>1, LeastNatural
<1>3. i \in 1..N
  BY <1>2
<1>4. i - 1 \in 0..N /\ i - 1 \notin T
  BY <1>2, <1>3
<1> QED
  BY <1>2, <1>3, <1>4

(* A function that is defined step by step.                                  *)
IsFold(f, N, base, step) ==
    \A n \in 0..N : f[n] = IF n = 0 THEN base ELSE step[<<f[n - 1], n>>]

(* There is one.                                                             *)
LEMMA FoldExists ==
    ASSUME NEW N \in Nat, NEW X, NEW base \in X, NEW step \in [X \X (1..N) -> X]
    PROVE  \E f \in [0..N -> X] : IsFold(f, N, base, step)
<1> DEFINE S == {m \in 0..N : \E f \in [0..m -> X] : IsFold(f, m, base, step)}
<1>1. 0 \in S
  <2> DEFINE f == [n \in 0..0 |-> base]
  <2>1. f \in [0..0 -> X] /\ IsFold(f, 0, base, step)
    BY DEF IsFold
  <2> HIDE DEF f
  <2> QED
    BY <2>1
<1>2. ASSUME NEW m \in 1..N, m - 1 \in S PROVE m \in S
  <2>1. PICK f \in [0..(m - 1) -> X] : IsFold(f, m - 1, base, step)
    BY <1>2
  <2> DEFINE h == [n \in 0..m |-> IF n = m THEN step[<<f[m - 1], m>>] ELSE f[n]]
  <2>2. m - 1 \in 0..(m - 1) /\ f[m - 1] \in X
    OBVIOUS
  <2>3. step[<<f[m - 1], m>>] \in X
    BY <2>2
  <2>4. h \in [0..m -> X]
    BY <2>3
  <2>5. ASSUME NEW n \in 0..m PROVE h[n] = IF n = 0 THEN base ELSE step[<<h[n - 1], n>>]
    <3>1. CASE n = m
      BY <2>2, <3>1
    <3>2. CASE n # m
      <4>1. n \in 0..(m - 1) /\ h[n] = f[n]
        BY <3>2
      <4>2. n # 0 => n - 1 \in 0..(m - 1) /\ h[n - 1] = f[n - 1]
        BY <4>1
      <4> QED
        BY <2>1, <4>1, <4>2 DEF IsFold
    <3> QED
      BY <3>1, <3>2
  <2>6. IsFold(h, m, base, step)
    BY <2>5 DEF IsFold
  <2> HIDE DEF h
  <2> QED
    BY <2>4, <2>6
<1> HIDE DEF S
<1>3. \A n \in 0..N : n \in S
  BY <1>1, <1>2, UpTo
<1> QED
  BY <1>3 DEF S

(* The members of a sequence, one of which is added or follow others.        *)
LEMMA AppendSet ==
    ASSUME NEW T, NEW s \in Seq(T), NEW t \in T
    PROVE  Append(s, t) \in Seq(T) /\ ToSet(Append(s, t)) = ToSet(s) \cup {t}
<1>1. Append(s, t) \in Seq(T) /\ Len(Append(s, t)) = Len(s) + 1 /\ Len(s) \in Nat
  OBVIOUS
<1>2. \A i \in 1..(Len(s) + 1) : Append(s, t)[i] = IF i <= Len(s) THEN s[i] ELSE t
  OBVIOUS
<1>3. DOMAIN s = 1..Len(s) /\ DOMAIN Append(s, t) = 1..(Len(s) + 1)
  BY <1>1
<1>4. ToSet(Append(s, t)) \subseteq ToSet(s) \cup {t}
  <2>1. \A i \in 1..(Len(s) + 1) : i <= Len(s) => i \in 1..Len(s)
    BY <1>1
  <2> QED
    BY <1>2, <1>3, <2>1 DEF ToSet
<1>5. ToSet(s) \cup {t} \subseteq ToSet(Append(s, t))
  <2>1. Len(s) + 1 \in 1..(Len(s) + 1) /\ ~(Len(s) + 1 <= Len(s))
    BY <1>1
  <2>2. \A i \in 1..Len(s) : i \in 1..(Len(s) + 1) /\ i <= Len(s)
    BY <1>1
  <2> QED
    BY <1>2, <1>3, <2>1, <2>2 DEF ToSet
<1> QED
  BY <1>1, <1>4, <1>5

LEMMA ConcatSet ==
    ASSUME NEW T, NEW s \in Seq(T), NEW t \in Seq(T)
    PROVE  s \o t \in Seq(T) /\ ToSet(s \o t) = ToSet(s) \cup ToSet(t)
<1>1. s \o t \in Seq(T) /\ Len(s \o t) = Len(s) + Len(t) /\ Len(s) \in Nat /\ Len(t) \in Nat
  OBVIOUS
<1>2. \A i \in 1..(Len(s) + Len(t)) : (s \o t)[i] = IF i <= Len(s) THEN s[i] ELSE t[i - Len(s)]
  OBVIOUS
<1>3. /\ DOMAIN s = 1..Len(s) /\ DOMAIN t = 1..Len(t)
      /\ DOMAIN (s \o t) = 1..(Len(s) + Len(t))
  BY <1>1
<1>4. ToSet(s \o t) \subseteq ToSet(s) \cup ToSet(t)
  <2>1. \A i \in 1..(Len(s) + Len(t)) :
           IF i <= Len(s) THEN i \in 1..Len(s) ELSE i - Len(s) \in 1..Len(t)
    BY <1>1
  <2> QED
    BY <1>2, <1>3, <2>1 DEF ToSet
<1>5. ToSet(s) \subseteq ToSet(s \o t)
  <2>1. \A i \in 1..Len(s) : i \in 1..(Len(s) + Len(t)) /\ i <= Len(s)
    BY <1>1
  <2> QED
    BY <1>2, <1>3, <2>1 DEF ToSet
<1>6. ToSet(t) \subseteq ToSet(s \o t)
  <2>1. ASSUME NEW i \in 1..Len(t) PROVE t[i] \in ToSet(s \o t)
    <3>1. Len(s) + i \in 1..(Len(s) + Len(t)) /\ ~(Len(s) + i <= Len(s))
             /\ (Len(s) + i) - Len(s) = i
      BY <1>1
    <3> QED
      BY <1>2, <1>3, <3>1 DEF ToSet
  <2> QED
    BY <1>3, <2>1 DEF ToSet
<1> QED
  BY <1>1, <1>4, <1>5, <1>6

(* What is kept of a sequence.                                               *)
LEMMA KeptIs ==
    ASSUME NEW T, NEW s \in Seq(T), NEW I
    PROVE  /\ Kept(s, I) \in Seq(T)
           /\ ToSet(Kept(s, I)) = {s[i] : i \in I \cap DOMAIN s}
<1> DEFINE kept == CHOOSE kept : kept = [n \in 0..Len(s) |->
                      IF n = 0 THEN <<>>
                      ELSE IF n \in I THEN Append(kept[n - 1], s[n])
                      ELSE kept[n - 1]]
<1>1. Kept(s, I) = kept[Len(s)]
  BY DEF Kept
<1> DEFINE N == Len(s)
           X == Seq(T)
           step == [xn \in X \X (1..N) |->
                      IF xn[2] \in I THEN Append(xn[1], s[xn[2]]) ELSE xn[1]]
<1>2. N \in Nat /\ N = Len(s) /\ DOMAIN s = 1..N /\ \A n \in 1..N : s[n] \in T
  OBVIOUS
<1>3. <<>> \in X /\ \A x \in X, t \in T : Append(x, t) \in X
  OBVIOUS
<1> DEFINE base == <<>>
<1> HIDE DEF N, X
<1>4. step \in [X \X (1..N) -> X] /\ base \in X
  BY <1>2, <1>3
<1>5. \A x \in X, n \in 1..N : step[<<x, n>>] = IF n \in I THEN Append(x, s[n]) ELSE x
  OBVIOUS
<1> HIDE DEF step, base
<1>6. PICK f \in [0..N -> X] : IsFold(f, N, base, step)
  BY <1>2, <1>4, FoldExists
<1>7. ASSUME NEW n \in 0..N
      PROVE  f[n] = IF n = 0 THEN <<>>
                    ELSE IF n \in I THEN Append(f[n - 1], s[n]) ELSE f[n - 1]
  <2>1. n # 0 => n \in 1..N /\ f[n - 1] \in X
    BY <1>2
  <2> QED
    BY <1>5, <1>6, <2>1 DEF IsFold, base
<1>8. f = [n \in 0..N |->
             IF n = 0 THEN <<>> ELSE IF n \in I THEN Append(f[n - 1], s[n]) ELSE f[n - 1]]
  BY <1>7
<1>9. kept = [n \in 0..N |->
             IF n = 0 THEN <<>> ELSE IF n \in I THEN Append(kept[n - 1], s[n]) ELSE kept[n - 1]]
  BY <1>2, <1>8
<1> HIDE DEF kept
<1> DEFINE S == {n \in 0..N : kept[n] \in Seq(T) /\ ToSet(kept[n]) = {s[i] : i \in I \cap 1..n}}
<1>10. 0 \in S
  <2>1. kept[0] = <<>> /\ 0 \in 0..N
    BY <1>2, <1>9
  <2>2. <<>> \in Seq(T) /\ ToSet(<<>>) = {}
    BY DEF ToSet
  <2>3. I \cap 1..0 = {}
    OBVIOUS
  <2> QED
    BY <2>1, <2>2, <2>3
<1>11. ASSUME NEW n \in 1..N, n - 1 \in S PROVE n \in S
  <2>0. n \in 0..N /\ n # 0
    BY <1>2
  <2>1. kept[n] = IF n \in I THEN Append(kept[n - 1], s[n]) ELSE kept[n - 1]
    BY <1>9, <2>0, Zenon
  <2>2. s[n] \in T /\ n - 1 \in Nat
    BY <1>2
  <2> DEFINE k == kept[n - 1]
  <2>3. k \in Seq(T) /\ ToSet(k) = {s[i] : i \in I \cap 1..(n - 1)}
    BY <1>11
  <2> HIDE DEF k
  <2>4. CASE n \in I
    <3>1. kept[n] = Append(k, s[n])
      BY <2>1, <2>4 DEF k
    <3>2. kept[n] \in Seq(T)
      BY <2>2, <2>3, <3>1
    <3>3. ToSet(kept[n]) = ToSet(k) \cup {s[n]}
      BY <2>2, <2>3, <3>1, AppendSet
    <3>4. I \cap 1..n = (I \cap 1..(n - 1)) \cup {n}
      BY <1>2, <2>4
    <3> QED
      BY <2>3, <3>2, <3>3, <3>4
  <2>5. CASE n \notin I
    <3>1. I \cap 1..n = I \cap 1..(n - 1)
      BY <1>2, <2>5
    <3> QED
      BY <2>1, <2>3, <2>5, <3>1 DEF k
  <2> QED
    BY <2>4, <2>5
<1> HIDE DEF S
<1>12. \A n \in 0..N : n \in S
  BY <1>2, <1>10, <1>11, UpTo
<1>13. N \in S
  BY <1>2, <1>12
<1> QED
  BY <1>1, <1>2, <1>13 DEF S

-----------------------------------------------------------------------------
(* What trajectories are made of: a call may hold a turn of S. *)

Names == Name \cup {"none"}
Invocations == [skill : Names, kind : {"skill_md_read", "explicit_skill", "skill_tool"},
                id : {"none", "call", "item"} \X Nat]
BlockOf(S) == [tool : Tool \cup {"none", "text", "result"}, name : Names, id : Nat,
               status : {"ok", "aborted"}, sub : S]
TurnOf(S) == [role : {"user", "assistant"}, blocks : Seq(BlockOf(S)), skills : Seq(Invocations)]

LEMMA AddInvocationIs ==
    ASSUME NEW invs \in Seq(Invocations), NEW inv \in Invocations
    PROVE  /\ AddInvocation(invs, inv) \in Seq(Invocations)
           /\ ToSet(invs) \subseteq ToSet(AddInvocation(invs, inv))
           /\ \E known \in ToSet(AddInvocation(invs, inv)) : known.skill = inv.skill
<1>1. CASE \E i \in DOMAIN invs : invs[i].skill = inv.skill /\ invs[i].id = inv.id
  BY <1>1 DEF AddInvocation, ToSet
<1>2. CASE ~\E i \in DOMAIN invs : invs[i].skill = inv.skill /\ invs[i].id = inv.id
  <2>1. AddInvocation(invs, inv) = Append(invs, inv)
    BY <1>2 DEF AddInvocation
  <2> QED
    BY <2>1, AppendSet
<1> QED
  BY <1>1, <1>2

(* Invocations are only ever added, and none of a new skill is left out.     *)
LEMMA AddInvocationsIs ==
    ASSUME NEW invs \in Seq(Invocations), NEW more \in Seq(Invocations)
    PROVE  /\ AddInvocations(invs, more) \in Seq(Invocations)
           /\ more = <<>> => AddInvocations(invs, more) = invs
           /\ \A i \in DOMAIN more : \E known \in ToSet(AddInvocations(invs, more)) :
                  known.skill = more[i].skill
<1> DEFINE with == CHOOSE with : with = [n \in 0..Len(more) |->
                      IF n = 0 THEN invs ELSE AddInvocation(with[n - 1], more[n])]
<1>1. AddInvocations(invs, more) = with[Len(more)]
  BY DEF AddInvocations
<1> DEFINE N == Len(more)
           X == Seq(Invocations)
           step == [xn \in X \X (1..N) |-> AddInvocation(xn[1], more[xn[2]])]
<1>2. N \in Nat /\ N = Len(more) /\ DOMAIN more = 1..N /\ \A n \in 1..N : more[n] \in Invocations
  OBVIOUS
<1>3. invs \in X /\ \A x \in X, inv \in Invocations : AddInvocation(x, inv) \in X
  BY AddInvocationIs
<1> HIDE DEF N, X
<1>4. step \in [X \X (1..N) -> X]
  BY <1>2, <1>3
<1>5. \A x \in X, n \in 1..N : step[<<x, n>>] = AddInvocation(x, more[n])
  OBVIOUS
<1> HIDE DEF step
<1>6. PICK f \in [0..N -> X] : IsFold(f, N, invs, step)
  BY <1>2, <1>3, <1>4, FoldExists
<1>7. ASSUME NEW n \in 0..N
      PROVE  f[n] = IF n = 0 THEN invs ELSE AddInvocation(f[n - 1], more[n])
  <2>1. n # 0 => n \in 1..N /\ f[n - 1] \in X
    BY <1>2
  <2> QED
    BY <1>5, <1>6, <2>1 DEF IsFold
<1>8. f = [n \in 0..N |-> IF n = 0 THEN invs ELSE AddInvocation(f[n - 1], more[n])]
  BY <1>7
<1>9. with = [n \in 0..N |-> IF n = 0 THEN invs ELSE AddInvocation(with[n - 1], more[n])]
  BY <1>2, <1>8
<1> HIDE DEF with
<1> DEFINE S == {n \in 0..N :
                    /\ with[n] \in X
                    /\ \A i \in 1..n : \E known \in ToSet(with[n]) : known.skill = more[i].skill}
<1>10. with[0] = invs /\ 0 \in S
  BY <1>2, <1>3, <1>9
<1>11. ASSUME NEW n \in 1..N, n - 1 \in S PROVE n \in S
  <2>1. n \in 0..N /\ n # 0 /\ more[n] \in Invocations
    BY <1>2
  <2> DEFINE w == with[n - 1]
  <2>2. with[n] = AddInvocation(w, more[n])
    BY <1>9, <2>1, Zenon
  <2>3. w \in X /\ \A i \in 1..(n - 1) : \E known \in ToSet(w) : known.skill = more[i].skill
    BY <1>11
  <2> HIDE DEF w
  <2>4. /\ with[n] \in X
        /\ ToSet(w) \subseteq ToSet(with[n])
        /\ \E known \in ToSet(with[n]) : known.skill = more[n].skill
    <3> DEFINE inv == more[n]
    <3>1. w \in Seq(Invocations) /\ inv \in Invocations
      BY <2>1, <2>3 DEF X
    <3> HIDE DEF inv
    <3>2. /\ AddInvocation(w, inv) \in Seq(Invocations)
          /\ ToSet(w) \subseteq ToSet(AddInvocation(w, inv))
          /\ \E known \in ToSet(AddInvocation(w, inv)) : known.skill = inv.skill
      BY <3>1, AddInvocationIs
    <3> QED
      BY <2>2, <3>2 DEF X, inv
  <2>5. \A i \in 1..n : i = n \/ i \in 1..(n - 1)
    BY <1>2
  <2> QED
    BY <2>1, <2>3, <2>4, <2>5
<1> HIDE DEF S
<1>12. \A n \in 0..N : n \in S
  BY <1>2, <1>10, <1>11, UpTo
<1>13. N \in S
  BY <1>2, <1>12
<1> QED
  BY <1>1, <1>2, <1>10, <1>13 DEF S, X

-----------------------------------------------------------------------------
(* codex_cli. *)

LEMMA PlainTypes ==
    ASSUME NEW S, NoTurn \in S
    PROVE  Text \in BlockOf(S) /\ UserTurn \in TurnOf(S) /\ EmptyTurn \in TurnOf(S)
<1>1. Text \in BlockOf(S)
  BY DEF Text, Block, BlockOf, Names
<1>2. <<Text>> \in Seq(BlockOf(S)) /\ <<>> \in Seq(BlockOf(S)) /\ <<>> \in Seq(Invocations)
  BY <1>1
<1> QED
  BY <1>1, <1>2 DEF UserTurn, EmptyTurn, Turn, TurnOf

LEMMA ActType ==
    ASSUME NEW act \in Act
    PROVE  act.tool \in Tool \cup {"none"} /\ act.name \in Names /\ act.id \in Nat
BY DEF Act, Names

LEMMA CompleteCallType ==
    ASSUME NEW S, NoTurn \in S, NEW blocks \in Seq(BlockOf(S)), NEW act \in Act
    PROVE  CompleteCall(blocks, act) \in Seq(BlockOf(S))
<1> DEFINE pending == {i \in DOMAIN blocks : IsCall(blocks[i]) /\ blocks[i].id = act.id}
<1>1. CompleteCall(blocks, act) =
         IF pending = {} THEN Append(blocks, Block("result", "none", act.id, "ok"))
         ELSE [blocks EXCEPT ![First(pending)].status = "ok"]
  BY DEF CompleteCall
<1>2. CASE pending = {}
  <2>1. Block("result", "none", act.id, "ok") \in BlockOf(S)
    BY ActType DEF Block, BlockOf, Names
  <2> QED
    BY <1>1, <1>2, <2>1
<1>3. CASE pending # {}
  <2>1. First(pending) \in pending
    <3>1. pending \subseteq Nat
      OBVIOUS
    <3> QED
      BY <1>3, <3>1, FirstIn
  <2> DEFINE i == First(pending)
  <2>2. i \in DOMAIN blocks
    BY <2>1
  <2> HIDE DEF i, pending
  <2>3. blocks[i] \in BlockOf(S)
    BY <2>2
  <2>4. [blocks[i] EXCEPT !.status = "ok"] \in BlockOf(S)
    BY <2>3 DEF BlockOf
  <2>5. CompleteCall(blocks, act) = [blocks EXCEPT ![i] = [blocks[i] EXCEPT !.status = "ok"]]
    BY <1>1, <1>3 DEF i
  <2> QED
    BY <2>2, <2>4, <2>5
<1> QED
  BY <1>2, <1>3

LEMMA CodexLineType ==
    ASSUME NEW S, NoTurn \in S, NEW turn \in TurnOf(S), NEW act \in Act
    PROVE  CodexLine(turn, act) \in TurnOf(S)
<1>0. turn.blocks \in Seq(BlockOf(S)) /\ turn.skills \in Seq(Invocations)
  BY DEF TurnOf
<1>1. CASE act.do = "inject"
  <2> DEFINE inv == Invocation(act.name, "explicit_skill", <<"none", 0>>)
  <2>1. inv \in Invocations
    BY ActType DEF Invocation, Invocations
  <2> HIDE DEF inv
  <2>2. AddInvocation(turn.skills, inv) \in Seq(Invocations)
    BY <1>0, <2>1, AddInvocationIs
  <2>3. CodexLine(turn, act) = [turn EXCEPT !.skills = AddInvocation(turn.skills, inv)]
    BY <1>1 DEF CodexLine, inv
  <2> QED
    BY <2>2, <2>3 DEF TurnOf
<1>2. ASSUME NEW blocks \in Seq(BlockOf(S)), CodexLine(turn, act) = [turn EXCEPT !.blocks = blocks]
      PROVE  CodexLine(turn, act) \in TurnOf(S)
  BY <1>2 DEF TurnOf
<1>3. CASE act.do = "say"
  <2>1. Append(turn.blocks, Text) \in Seq(BlockOf(S))
    BY <1>0, PlainTypes
  <2> QED
    BY <1>2, <1>3, <2>1 DEF CodexLine
<1>4. CASE act.do = "call"
  <2>1. Block(act.tool, act.name, act.id, "aborted") \in BlockOf(S)
    BY ActType DEF Block, BlockOf, Names
  <2>2. Append(turn.blocks, Block(act.tool, act.name, act.id, "aborted")) \in Seq(BlockOf(S))
    BY <1>0, <2>1
  <2> QED
    BY <1>2, <1>4, <2>2 DEF CodexLine
<1>5. CASE act.do = "done"
  <2>1. CompleteCall(turn.blocks, act) \in Seq(BlockOf(S))
    BY <1>0, CompleteCallType
  <2> QED
    BY <1>2, <1>5, <2>1 DEF CodexLine
<1>6. CASE act.do \notin {"inject", "say", "call", "done"}
  BY <1>6 DEF CodexLine
<1> QED
  BY <1>1, <1>3, <1>4, <1>5, <1>6

(* An agent that did nothing has the empty turn.                             *)
LEMMA CodexTurnIs ==
    ASSUME NEW acts \in Seq(Act), NEW who
    PROVE  /\ CodexTurn(acts, who) \in TurnOf({NoTurn})
           /\ (\A i \in DOMAIN acts : acts[i].by # who) => CodexTurn(acts, who) = EmptyTurn
<1> DEFINE turn == CHOOSE turn : turn = [n \in 0..Len(acts) |->
                      IF n = 0 THEN EmptyTurn
                      ELSE IF acts[n].by = who THEN CodexLine(turn[n - 1], acts[n])
                      ELSE turn[n - 1]]
<1>1. CodexTurn(acts, who) = turn[Len(acts)]
  BY DEF CodexTurn
<1> DEFINE N == Len(acts)
           X == TurnOf({NoTurn})
           step == [xn \in X \X (1..N) |->
                      IF acts[xn[2]].by = who THEN CodexLine(xn[1], acts[xn[2]]) ELSE xn[1]]
<1>2. N \in Nat /\ N = Len(acts) /\ DOMAIN acts = 1..N /\ \A n \in 1..N : acts[n] \in Act
  OBVIOUS
<1>3. EmptyTurn \in X /\ \A x \in X, act \in Act : CodexLine(x, act) \in X
  BY PlainTypes, CodexLineType
<1> HIDE DEF N, X
<1>4. step \in [X \X (1..N) -> X]
  BY <1>2, <1>3
<1>5. \A x \in X, n \in 1..N :
         step[<<x, n>>] = IF acts[n].by = who THEN CodexLine(x, acts[n]) ELSE x
  OBVIOUS
<1> HIDE DEF step
<1>6. PICK f \in [0..N -> X] : IsFold(f, N, EmptyTurn, step)
  BY <1>2, <1>3, <1>4, FoldExists
<1>7. ASSUME NEW n \in 0..N
      PROVE  f[n] = IF n = 0 THEN EmptyTurn
                    ELSE IF acts[n].by = who THEN CodexLine(f[n - 1], acts[n]) ELSE f[n - 1]
  <2>1. n # 0 => n \in 1..N /\ f[n - 1] \in X
    BY <1>2
  <2> QED
    BY <1>5, <1>6, <2>1 DEF IsFold
<1>8. f = [n \in 0..N |-> IF n = 0 THEN EmptyTurn
                          ELSE IF acts[n].by = who THEN CodexLine(f[n - 1], acts[n])
                          ELSE f[n - 1]]
  BY <1>7
<1>9. turn = [n \in 0..N |-> IF n = 0 THEN EmptyTurn
                             ELSE IF acts[n].by = who THEN CodexLine(turn[n - 1], acts[n])
                             ELSE turn[n - 1]]
  BY <1>2, <1>8
<1> HIDE DEF turn
<1> DEFINE S == {n \in 0..N : /\ turn[n] \in X
                              /\ (\A i \in 1..N : acts[i].by # who) => turn[n] = EmptyTurn}
<1>10. 0 \in S
  BY <1>2, <1>3, <1>9
<1>11. ASSUME NEW n \in 1..N, n - 1 \in S PROVE n \in S
  <2>1. n \in 0..N /\ n # 0 /\ acts[n] \in Act
    BY <1>2
  <2> DEFINE t == turn[n - 1]
  <2>2. turn[n] = IF acts[n].by = who THEN CodexLine(t, acts[n]) ELSE t
    BY <1>9, <2>1, Zenon
  <2>3. t \in X /\ ((\A i \in 1..N : acts[i].by # who) => t = EmptyTurn)
    BY <1>11
  <2> HIDE DEF t
  <2> QED
    BY <1>3, <2>1, <2>2, <2>3
<1> HIDE DEF S
<1>12. \A n \in 0..N : n \in S
  BY <1>2, <1>10, <1>11, UpTo
<1>13. N \in S
  BY <1>2, <1>12
<1> QED
  BY <1>1, <1>2, <1>13 DEF S, X

LEMMA NoMembers ==
    ASSUME NEW T, NEW s \in Seq(T), ToSet(s) = {}
    PROVE  s = <<>>
<1>1. DOMAIN s = {}
  BY DEF ToSet
<1>2. Len(s) \in Nat /\ DOMAIN s = 1..Len(s)
  OBVIOUS
<1>3. Len(s) = 0
  <2>1. Len(s) # 0 => 1 \in 1..Len(s)
    BY <1>2
  <2> QED
    BY <1>1, <1>2, <2>1
<1> QED
  BY <1>3

LEMMA MapSeq ==
    ASSUME NEW T, NEW n \in Nat, NEW f \in [1..n -> T]
    PROVE  f \in Seq(T) /\ Len(f) = n
BY SeqDef

LEMMA SessionSkillsIs ==
    ASSUME NEW S, NEW turn \in TurnOf(S)
    PROVE  /\ SessionSkills(turn) \in Seq(Invocations)
           /\ turn.blocks = <<>> => SessionSkills(turn) = turn.skills
<1> DEFINE I == {j \in DOMAIN turn.blocks : turn.blocks[j].tool = "skill"}
           uses == Kept(turn.blocks, I)
           more == [j \in DOMAIN uses |->
                       Invocation(uses[j].name, "skill_md_read", <<"call", uses[j].id>>)]
<1>1. SessionSkills(turn) = AddInvocations(turn.skills, more)
  BY DEF SessionSkills
<1>2. turn.blocks \in Seq(BlockOf(S)) /\ turn.skills \in Seq(Invocations)
  BY DEF TurnOf
<1>3. /\ uses \in Seq(BlockOf(S))
      /\ ToSet(uses) = {turn.blocks[i] : i \in I \cap DOMAIN turn.blocks}
  BY <1>2, KeptIs
<1>4. turn.blocks = <<>> => uses = <<>>
  <2> HIDE DEF uses
  <2>1. ASSUME turn.blocks = <<>> PROVE ToSet(uses) = {}
    BY <1>3, <2>1
  <2> QED
    BY <1>3, <2>1, NoMembers
<1> HIDE DEF uses
<1>5. \A j \in 1..Len(uses) :
         Invocation(uses[j].name, "skill_md_read", <<"call", uses[j].id>>) \in Invocations
  <2>0. \A j \in 1..Len(uses) : uses[j] \in BlockOf(S)
    BY <1>3
  <2>1. \A j \in 1..Len(uses) : uses[j].name \in Names /\ uses[j].id \in Nat
    BY <2>0 DEF BlockOf
  <2> QED
    BY <2>1 DEF Invocation, Invocations
<1>6. Len(uses) \in Nat /\ DOMAIN uses = 1..Len(uses)
  BY <1>3
<1>7. more \in [1..Len(uses) -> Invocations]
  BY <1>5, <1>6
<1>8. more \in Seq(Invocations) /\ (uses = <<>> => more = <<>>)
  <2>1. more \in Seq(Invocations) /\ Len(more) = Len(uses)
    BY <1>6, <1>7, MapSeq
  <2> HIDE DEF more
  <2> QED
    BY <2>1
<1> HIDE DEF more
<1> QED
  BY <1>1, <1>2, <1>4, <1>8, AddInvocationsIs

LEMMA StreamSkillsIs ==
    ASSUME NEW seen \in Seq(Act), NEW skill \in Names
    PROVE  /\ StreamSkills(seen, skill) \in Seq(Invocations)
           /\ skill # "none" => \E inv \in ToSet(StreamSkills(seen, skill)) : inv.skill = skill
           /\ \A i \in DOMAIN seen :
                 /\ seen[i].tool = "skill" /\ seen[i].do \in {"call", "done"}
                 /\ MainAgent(seen[i])
                 => \E inv \in ToSet(StreamSkills(seen, skill)) : inv.skill = seen[i].name
<1> DEFINE OnStream(act) == act.tool = "skill" /\ act.do \in {"call", "done"} /\ MainAgent(act)
           I == {i \in DOMAIN seen : OnStream(seen[i])}
           uses == Kept(seen, I)
           more == [j \in DOMAIN uses |->
                       Invocation(uses[j].name, "skill_md_read", <<"item", uses[j].id>>)]
           invs == AddInvocations(<<>>, more)
           last == {i \in DOMAIN invs : invs[i].skill = skill}
           extra == Invocation(skill, "explicit_skill", <<"none", 0>>)
<1>1. StreamSkills(seen, skill) = IF skill = "none" \/ last # {} THEN invs ELSE Append(invs, extra)
  BY DEF StreamSkills
<1>2. uses \in Seq(Act) /\ ToSet(uses) = {seen[i] : i \in I \cap DOMAIN seen}
  BY KeptIs
<1>3. \A i \in DOMAIN seen : OnStream(seen[i]) => \E j \in DOMAIN uses : uses[j] = seen[i]
  BY <1>2 DEF ToSet
<1> HIDE DEF uses
<1>4. \A j \in 1..Len(uses) :
         Invocation(uses[j].name, "skill_md_read", <<"item", uses[j].id>>) \in Invocations
  <2>1. \A j \in 1..Len(uses) : uses[j].name \in Names /\ uses[j].id \in Nat
    BY <1>2, ActType
  <2> QED
    BY <2>1 DEF Invocation, Invocations
<1>5. Len(uses) \in Nat /\ DOMAIN uses = 1..Len(uses)
  BY <1>2
<1>6. more \in [1..Len(uses) -> Invocations]
  BY <1>4, <1>5
<1>7. /\ more \in Seq(Invocations) /\ DOMAIN more = DOMAIN uses
      /\ \A j \in DOMAIN uses : more[j].skill = uses[j].name
  BY <1>5, <1>6, MapSeq DEF Invocation
<1> HIDE DEF more
<1>8. invs \in Seq(Invocations) /\ \A j \in DOMAIN more : \E inv \in ToSet(invs) : inv.skill = more[j].skill
  <2>1. <<>> \in Seq(Invocations)
    OBVIOUS
  <2> QED
    BY <1>7, <2>1, AddInvocationsIs
<1> HIDE DEF invs
<1>9. extra \in Invocations /\ extra.skill = skill
  BY DEF Invocation, Invocations
<1> HIDE DEF extra
<1>10. /\ StreamSkills(seen, skill) \in Seq(Invocations)
       /\ ToSet(invs) \subseteq ToSet(StreamSkills(seen, skill))
       /\ skill # "none" => \E inv \in ToSet(StreamSkills(seen, skill)) : inv.skill = skill
  <2>1. CASE skill = "none"
    BY <1>1, <1>8, <2>1
  <2>2. CASE last # {}
    BY <1>1, <1>8, <2>2 DEF ToSet
  <2>3. CASE skill # "none" /\ last = {}
    <3>1. StreamSkills(seen, skill) = Append(invs, extra)
      BY <1>1, <2>3
    <3> QED
      BY <1>8, <1>9, <3>1, AppendSet
  <2> QED
    BY <2>1, <2>2, <2>3
<1>11. \A i \in DOMAIN seen : OnStream(seen[i]) => \E inv \in ToSet(invs) : inv.skill = seen[i].name
  BY <1>3, <1>7, <1>8
<1> QED
  BY <1>10, <1>11

-----------------------------------------------------------------------------
(* What is in a trajectory. *)

(* The names of its MCP calls, and the skills of its invocations.            *)
McpNamesOf(turns) == {c.name : c \in {d \in Calls(turns) : IsMcp(d)}}
SkillsOf(turns) == {inv.skill : inv \in Skills(turns)}

LEMMA SkillIn ==
    ASSUME NEW turns, NEW i \in DOMAIN turns, NEW inv \in ToSet(turns[i].skills)
    PROVE  inv.skill \in SkillsOf(turns)
<1>1. inv \in TurnSkills(turns[i])
  BY DEF TurnSkills
<1>2. inv \in Skills(turns)
  BY <1>1 DEF Skills
<1> QED
  BY <1>2 DEF SkillsOf

LEMMA CallIn ==
    ASSUME NEW turns, NEW i \in DOMAIN turns, NEW j \in DOMAIN turns[i].blocks,
           turns[i].blocks[j].tool = "mcp"
    PROVE  turns[i].blocks[j].name \in McpNamesOf(turns)
<1> DEFINE b == turns[i].blocks[j]
<1>1. b \in BlockCalls(b)
  BY DEF BlockCalls, IsCall
<1>2. b \in TurnCalls(turns[i])
  BY <1>1 DEF TurnCalls
<1>3. b \in Calls(turns)
  BY <1>2 DEF Calls
<1> QED
  BY <1>3 DEF McpNamesOf, IsMcp

(* Turns that have what others have.                                         *)
LEMMA MoreSkills ==
    ASSUME NEW turns, NEW more, DOMAIN turns \subseteq DOMAIN more,
           \A i \in DOMAIN turns : TurnSkills(turns[i]) \subseteq TurnSkills(more[i])
    PROVE  SkillsOf(turns) \subseteq SkillsOf(more)
BY DEF Skills, SkillsOf

LEMMA MoreCalls ==
    ASSUME NEW turns, NEW more, DOMAIN turns \subseteq DOMAIN more,
           \A i \in DOMAIN turns : TurnCalls(turns[i]) \subseteq TurnCalls(more[i])
    PROVE  McpNamesOf(turns) \subseteq McpNamesOf(more)
BY DEF Calls, McpNamesOf

(* The detected tool is in the trajectory, which loses nothing.              *)
LEMMA RecordDetectedToolIs ==
    ASSUME NEW S, NoTurn \in S, NEW turns \in Seq(TurnOf(S)), NEW name \in Names
    PROVE  LET more == RecordDetectedTool(turns, name) IN
           /\ more \in Seq(TurnOf(S))
           /\ name = "none" => more = turns
           /\ name # "none" => name \in McpNamesOf(more)
           /\ SkillsOf(turns) \subseteq SkillsOf(more)
<1> DEFINE call == Block("mcp", name, 0, "aborted")
           called == \E c \in Calls(turns) : IsMcp(c) /\ c.name = name
           fresh == Turn("assistant", <<call>>, <<>>)
           last == Last_(Assistants(turns))
           more == RecordDetectedTool(turns, name)
<1>1. more = IF name = "none" \/ called THEN turns
             ELSE IF Assistants(turns) = {} THEN Append(turns, fresh)
             ELSE [turns EXCEPT ![last].blocks = Append(@, call)]
  BY DEF RecordDetectedTool
<1>2. call \in BlockOf(S) /\ call.tool = "mcp" /\ call.name = name /\ call.sub = NoTurn
  BY DEF Block, BlockOf, Tool
<1> HIDE DEF call, more
<1>3. CASE name = "none" \/ called
  <2>1. more = turns
    BY <1>1, <1>3
  <2>2. called => name \in McpNamesOf(turns)
    BY DEF McpNamesOf
  <2> QED
    BY <1>3, <2>1, <2>2 DEF more
<1>4. CASE ~(name = "none" \/ called) /\ Assistants(turns) = {}
  <2>1. more = Append(turns, fresh)
    BY <1>1, <1>4
  <2>2. <<call>> \in Seq(BlockOf(S)) /\ <<>> \in Seq(Invocations)
    BY <1>2
  <2>3. fresh \in TurnOf(S) /\ fresh.blocks = <<call>>
    BY <2>2 DEF Turn, TurnOf
  <2> HIDE DEF fresh
  <2> DEFINE n == Len(turns) + 1
  <2>4. /\ more \in Seq(TurnOf(S)) /\ Len(turns) \in Nat
        /\ DOMAIN turns = 1..Len(turns) /\ DOMAIN more = 1..n
        /\ \A i \in 1..Len(turns) : more[i] = turns[i]
        /\ n \in DOMAIN more /\ more[n] = fresh
    BY <2>1, <2>3
  <2> HIDE DEF n
  <2>5. DOMAIN turns \subseteq DOMAIN more
    BY <2>4 DEF n
  <2>6. SkillsOf(turns) \subseteq SkillsOf(more)
    <3>1. \A i \in DOMAIN turns : TurnSkills(turns[i]) \subseteq TurnSkills(more[i])
      BY <2>4
    <3> QED
      BY <2>5, <3>1, MoreSkills
  <2>7. name \in McpNamesOf(more)
    <3>1. 1 \in DOMAIN more[n].blocks /\ more[n].blocks[1] = call
      BY <2>3, <2>4
    <3>2. more[n].blocks[1].name \in McpNamesOf(more)
      BY <1>2, <2>4, <3>1, CallIn
    <3> QED
      BY <1>2, <3>1, <3>2
  <2> QED
    BY <1>4, <2>4, <2>6, <2>7 DEF more
<1>5. CASE ~(name = "none" \/ called) /\ Assistants(turns) # {}
  <2>1. last \in Assistants(turns)
    <3>1. Assistants(turns) \subseteq 1..Len(turns) /\ Len(turns) \in Nat
      BY DEF Assistants
    <3> QED
      BY <1>5, <3>1, LastIn
  <2>2. last \in DOMAIN turns
    BY <2>1 DEF Assistants
  <2> HIDE DEF last
  <2>3. more = [turns EXCEPT ![last].blocks = Append(@, call)]
    BY <1>1, <1>5
  <2> DEFINE old == turns[last]
             new == [old EXCEPT !.blocks = Append(old.blocks, call)]
  <2>4. old \in TurnOf(S) /\ old.blocks \in Seq(BlockOf(S))
    <3>1. old \in TurnOf(S)
      BY <2>2
    <3> QED
      BY <3>1 DEF TurnOf
  <2>5. Append(old.blocks, call) \in Seq(BlockOf(S))
    BY <1>2, <2>4
  <2>6. new \in TurnOf(S) /\ new.blocks = Append(old.blocks, call) /\ new.skills = old.skills
    BY <2>4, <2>5 DEF TurnOf
  <2>7. more = [turns EXCEPT ![last] = new]
    BY <2>3
  <2> HIDE DEF old, new
  <2>8. /\ more \in Seq(TurnOf(S)) /\ DOMAIN more = DOMAIN turns
        /\ \A i \in DOMAIN turns : more[i] = IF i = last THEN new ELSE turns[i]
    BY <2>2, <2>6, <2>7
  <2>9. SkillsOf(turns) \subseteq SkillsOf(more)
    <3>1. \A j \in DOMAIN old.blocks : j \in DOMAIN new.blocks /\ new.blocks[j] = old.blocks[j]
      BY <1>2, <2>4, <2>6
    <3>2. TurnSkills(old) \subseteq TurnSkills(new)
      BY <2>6, <3>1 DEF TurnSkills
    <3>3. \A i \in DOMAIN turns : TurnSkills(turns[i]) \subseteq TurnSkills(more[i])
      BY <2>8, <3>2 DEF old
    <3> QED
      BY <2>8, <3>3, MoreSkills
  <2>10. name \in McpNamesOf(more)
    <3> DEFINE n == Len(old.blocks) + 1
    <3>1. n \in DOMAIN new.blocks /\ new.blocks[n] = call
      BY <1>2, <2>4, <2>6
    <3> HIDE DEF n
    <3>2. last \in DOMAIN more /\ more[last] = new
      BY <2>2, <2>8
    <3>3. more[last].blocks[n].name \in McpNamesOf(more)
      BY <1>2, <3>1, <3>2, CallIn
    <3> QED
      BY <1>2, <3>1, <3>2, <3>3
  <2> QED
    BY <1>5, <2>8, <2>9, <2>10 DEF more
<1> QED
  BY <1>3, <1>4, <1>5

(* Invocations put into one turn.                                            *)
WithSkills(turns, t, skills) == [turns EXCEPT ![t].skills = skills]

LEMMA SkillsPut ==
    ASSUME NEW S, NEW turns \in Seq(TurnOf(S)), NEW t \in DOMAIN turns,
           NEW skills \in Seq(Invocations), ToSet(turns[t].skills) \subseteq ToSet(skills)
    PROVE  LET more == WithSkills(turns, t, skills) IN
           /\ more \in Seq(TurnOf(S))
           /\ Assistants(more) = Assistants(turns)
           /\ McpNamesOf(turns) \subseteq McpNamesOf(more)
           /\ SkillsOf(turns) \subseteq SkillsOf(more)
           /\ \A inv \in ToSet(skills) : inv.skill \in SkillsOf(more)
<1> DEFINE old == turns[t]
           new == [old EXCEPT !.skills = skills]
           more == WithSkills(turns, t, skills)
<1>1. old \in TurnOf(S)
  OBVIOUS
<1>2. /\ new \in TurnOf(S) /\ new.role = old.role /\ new.blocks = old.blocks
      /\ new.skills = skills
  BY <1>1 DEF TurnOf
<1>3. more = [turns EXCEPT ![t] = new]
  BY DEF WithSkills
<1> HIDE DEF new, more
<1>4. /\ more \in Seq(TurnOf(S)) /\ DOMAIN more = DOMAIN turns
      /\ more[t] = new /\ \A i \in DOMAIN turns : i # t => more[i] = turns[i]
  BY <1>2, <1>3
<1>5. TurnSkills(old) \subseteq TurnSkills(new) /\ TurnCalls(old) = TurnCalls(new)
  BY <1>2 DEF TurnSkills, TurnCalls
<1>6. Assistants(more) = Assistants(turns)
  BY <1>2, <1>4 DEF Assistants
<1>7. SkillsOf(turns) \subseteq SkillsOf(more)
  <2>1. \A i \in DOMAIN turns : TurnSkills(turns[i]) \subseteq TurnSkills(more[i])
    BY <1>4, <1>5
  <2> QED
    BY <1>4, <2>1, MoreSkills
<1>8. McpNamesOf(turns) \subseteq McpNamesOf(more)
  <2>1. \A i \in DOMAIN turns : TurnCalls(turns[i]) \subseteq TurnCalls(more[i])
    BY <1>4, <1>5
  <2> QED
    BY <1>4, <2>1, MoreCalls
<1>9. \A inv \in ToSet(skills) : inv.skill \in SkillsOf(more)
  <2>1. t \in DOMAIN more /\ more[t].skills = skills
    BY <1>2, <1>4
  <2> QED
    BY <2>1, SkillIn
<1> QED
  BY <1>4, <1>6, <1>7, <1>8, <1>9 DEF more

(* Every skill of the stream is in the trajectory, if there is a turn for    *)
(* it; whatever the session had stays.                                       *)
LEMMA CodexAttachIs ==
    ASSUME NEW S, NEW turns \in Seq(TurnOf(S)), NEW invs \in Seq(Invocations)
    PROVE  LET more == CodexAttach(turns, invs) IN
           /\ more \in Seq(TurnOf(S))
           /\ Assistants(more) = Assistants(turns)
           /\ McpNamesOf(turns) \subseteq McpNamesOf(more)
           /\ Assistants(turns) # {} => \A inv \in ToSet(invs) : inv.skill \in SkillsOf(more)
<1> DEFINE Missing(inv) == \A known \in Skills(turns) :
                              known.skill # inv.skill \/ known.kind # inv.kind
           I == {i \in DOMAIN invs : Missing(invs[i])}
           missing == Kept(invs, I)
           first == First(Assistants(turns))
           skills == turns[first].skills \o missing
           more == CodexAttach(turns, invs)
<1>1. more = IF Assistants(turns) = {} THEN turns
             ELSE [turns EXCEPT ![first].skills = turns[first].skills \o missing]
  BY DEF CodexAttach
<1>2. missing \in Seq(Invocations) /\ ToSet(missing) = {invs[i] : i \in I \cap DOMAIN invs}
  BY KeptIs
<1> HIDE DEF missing, more
<1>3. CASE Assistants(turns) = {}
  BY <1>1, <1>3 DEF more
<1>4. CASE Assistants(turns) # {}
  <2>1. first \in DOMAIN turns
    <3>1. Assistants(turns) \subseteq DOMAIN turns /\ DOMAIN turns \subseteq Nat
      BY DEF Assistants
    <3>2. first \in Assistants(turns)
      BY <1>4, <3>1, FirstIn
    <3> QED
      BY <3>1, <3>2
  <2> HIDE DEF first
  <2>2. turns[first].skills \in Seq(Invocations)
    <3>1. turns[first] \in TurnOf(S)
      BY <2>1
    <3> QED
      BY <3>1 DEF TurnOf
  <2>3. skills \in Seq(Invocations) /\ ToSet(skills) = ToSet(turns[first].skills) \cup ToSet(missing)
    BY <1>2, <2>2, ConcatSet
  <2>4. more = WithSkills(turns, first, skills)
    BY <1>1, <1>4 DEF WithSkills
  <2> HIDE DEF skills
  <2>a. skills \in Seq(Invocations) /\ ToSet(turns[first].skills) \subseteq ToSet(skills)
    BY <2>3
  <2>5. /\ more \in Seq(TurnOf(S)) /\ Assistants(more) = Assistants(turns)
        /\ McpNamesOf(turns) \subseteq McpNamesOf(more)
        /\ SkillsOf(turns) \subseteq SkillsOf(more)
        /\ \A inv \in ToSet(skills) : inv.skill \in SkillsOf(more)
    BY <2>1, <2>a, <2>4, SkillsPut
  <2>6. ASSUME NEW i \in DOMAIN invs PROVE invs[i].skill \in SkillsOf(more)
    <3>1. CASE Missing(invs[i])
      BY <1>2, <2>3, <2>5, <3>1
    <3>2. CASE ~Missing(invs[i])
      <4>1. invs[i].skill \in SkillsOf(turns)
        BY <3>2 DEF SkillsOf
      <4> QED
        BY <2>5, <4>1
    <3> QED
      BY <3>1, <3>2
  <2> QED
    BY <2>5, <2>6 DEF ToSet, more
<1> QED
  BY <1>3, <1>4

(* Turns that may have subagents, whose turn has no skills if there were     *)
(* none.                                                                     *)
OfSession(turns, acts) ==
    \E child \in TurnOf({NoTurn}) :
        /\ turns \in Seq(TurnOf({NoTurn, child}))
        /\ (\A i \in DOMAIN acts : ~Subagent(acts[i])) => child.skills = <<>>

(* The session of an agent: the turn of its subagents is empty if they did   *)
(* nothing.                                                                  *)
LEMMA CodexSessionIs ==
    ASSUME NEW acts \in Seq(Act), NEW saved
    PROVE  OfSession(CodexSession(acts, saved).turns, acts)
<1> DEFINE turn  == CodexTurn(acts, "main")
           sub   == CodexTurn(acts, "sub")
           child == WithSessionSkills(sub)
           S == {NoTurn, child}
           Attach(b) == IF b.tool = "task" /\ b.status = "ok" THEN [b EXCEPT !.sub = child] ELSE b
           blocks == [i \in DOMAIN turn.blocks |-> Attach(turn.blocks[i])]
           with == [turn EXCEPT !.blocks = blocks]
           full  == WithSessionSkills(with)
<1>1. CodexSession(acts, saved).turns = IF IsEmpty(full) THEN <<UserTurn>> ELSE <<UserTurn, full>>
  BY DEF CodexSession
<1>2. turn \in TurnOf({NoTurn}) /\ sub \in TurnOf({NoTurn})
  BY CodexTurnIs
<1>3. (\A i \in DOMAIN acts : ~Subagent(acts[i])) => sub = EmptyTurn
  BY CodexTurnIs DEF Subagent
<1> HIDE DEF turn, sub
<1>4. ASSUME NEW R, NEW t \in TurnOf(R)
      PROVE  WithSessionSkills(t) \in TurnOf(R) /\ WithSessionSkills(t).skills = SessionSkills(t)
  <2>1. SessionSkills(t) \in Seq(Invocations)
    BY SessionSkillsIs
  <2> QED
    BY <2>1 DEF WithSessionSkills, TurnOf
<1>5. child \in TurnOf({NoTurn}) /\ child.skills = SessionSkills(sub)
  BY <1>2, <1>4
<1>6. (\A i \in DOMAIN acts : ~Subagent(acts[i])) => child.skills = <<>>
  <2>1. EmptyTurn.blocks = <<>> /\ EmptyTurn.skills = <<>>
    BY DEF EmptyTurn, Turn
  <2> QED
    BY <1>2, <1>3, <1>5, <2>1, SessionSkillsIs
<1> HIDE DEF child
<1>7. turn.blocks \in Seq(BlockOf({NoTurn}))
  BY <1>2 DEF TurnOf
<1>8. blocks \in Seq(BlockOf(S))
  <2>1. Len(turn.blocks) \in Nat /\ DOMAIN turn.blocks = 1..Len(turn.blocks)
    BY <1>7
  <2>2. \A i \in 1..Len(turn.blocks) : turn.blocks[i] \in BlockOf({NoTurn})
    BY <1>7
  <2>3. \A b \in BlockOf({NoTurn}) : Attach(b) \in BlockOf(S)
    BY DEF BlockOf
  <2>4. blocks \in [1..Len(turn.blocks) -> BlockOf(S)]
    BY <2>1, <2>2, <2>3
  <2> QED
    BY <2>1, <2>4, MapSeq
<1> HIDE DEF blocks
<1>9. with \in TurnOf(S)
  BY <1>2, <1>8 DEF TurnOf
<1>10. full \in TurnOf(S)
  BY <1>4, <1>9
<1> HIDE DEF full
<1>11. UserTurn \in TurnOf(S)
  BY PlainTypes
<1>12. \A T, x, y : x \in T /\ y \in T => <<x>> \in Seq(T) /\ <<x, y>> \in Seq(T)
  OBVIOUS
<1>13. <<UserTurn>> \in Seq(TurnOf(S)) /\ <<UserTurn, full>> \in Seq(TurnOf(S))
  BY <1>10, <1>11, <1>12
<1>14. CodexSession(acts, saved).turns \in Seq(TurnOf(S))
  BY <1>1, <1>13
<1> QED
  BY <1>5, <1>6, <1>14 DEF OfSession

(* A codex trajectory has the detected tool, and the skills of the stream    *)
(* and the detected one, but those that find no turn of the assistant.       *)
LEMMA CodexBuildIs ==
    ASSUME NEW named, NEW file \in Seq(Act), NEW saved, NEW seen \in Seq(Act),
           NEW skill \in Names, NEW tool \in Names, NEW cut
    PROVE  LET R == CodexBuild(named, file, saved, seen, skill, tool, cut).turns IN
           /\ tool # "none" => tool \in McpNamesOf(R)
           /\ Assistants(R) # {} =>
                 \A inv \in ToSet(StreamSkills(seen, skill)) : inv.skill \in SkillsOf(R)
           /\ OfSession(R, file)
<1> DEFINE session == CodexSession(file, saved)
           invs    == StreamSkills(seen, skill)
           alone   == Turn("assistant", <<>>, invs)
           R       == CodexBuild(named, file, saved, seen, skill, tool, cut).turns
<1>1. invs \in Seq(Invocations)
  BY StreamSkillsIs
<1>2. CASE named /\ file # <<>> /\ session.ok
  <2> DEFINE noted == RecordDetectedTool(session.turns, tool)
  <2>1. R = CodexAttach(noted, invs)
    BY <1>2 DEF CodexBuild
  <2>2. PICK child \in TurnOf({NoTurn}) :
           /\ session.turns \in Seq(TurnOf({NoTurn, child}))
           /\ (\A i \in DOMAIN file : ~Subagent(file[i])) => child.skills = <<>>
    BY CodexSessionIs DEF OfSession
  <2> DEFINE S == {NoTurn, child}
  <2>3. NoTurn \in S
    OBVIOUS
  <2> HIDE DEF session, S, invs, R
  <2>4. noted \in Seq(TurnOf(S)) /\ (tool # "none" => tool \in McpNamesOf(noted))
    BY <2>2, <2>3, RecordDetectedToolIs DEF S
  <2> HIDE DEF noted
  <2>5. /\ R \in Seq(TurnOf(S))
        /\ Assistants(R) = Assistants(noted)
        /\ McpNamesOf(noted) \subseteq McpNamesOf(R)
        /\ Assistants(noted) # {} => \A inv \in ToSet(invs) : inv.skill \in SkillsOf(R)
    BY <1>1, <2>1, <2>4, CodexAttachIs
  <2> QED
    BY <2>2, <2>4, <2>5 DEF S, invs, R, OfSession
<1>3. CASE ~(named /\ file # <<>> /\ session.ok)
  <2> DEFINE turns == <<UserTurn, alone>>
             Q == {NoTurn, EmptyTurn}
  <2>1. R = RecordDetectedTool(turns, tool)
    BY <1>3 DEF CodexBuild
  <2>2. NoTurn \in {NoTurn} /\ EmptyTurn.skills = <<>>
    BY DEF EmptyTurn, Turn
  <2>3. EmptyTurn \in TurnOf({NoTurn})
    BY <2>2, PlainTypes
  <2>4. alone \in TurnOf(Q) /\ UserTurn \in TurnOf(Q) /\ alone.skills = invs
    <3>1. <<>> \in Seq(BlockOf(Q))
      OBVIOUS
    <3> QED
      BY <1>1, <3>1, PlainTypes DEF Turn, TurnOf
  <2> HIDE DEF alone, invs, Q, R
  <2>5. \A T, x, y : x \in T /\ y \in T => <<x, y>> \in Seq(T)
    OBVIOUS
  <2>6. turns \in Seq(TurnOf(Q)) /\ DOMAIN turns = {1, 2} /\ turns[2] = alone
    BY <2>4, <2>5
  <2> HIDE DEF turns
  <2>7. NoTurn \in Q
    BY DEF Q
  <2>8. /\ R \in Seq(TurnOf(Q))
        /\ tool # "none" => tool \in McpNamesOf(R)
        /\ SkillsOf(turns) \subseteq SkillsOf(R)
    BY <2>1, <2>6, <2>7, RecordDetectedToolIs
  <2>9. \A inv \in ToSet(invs) : inv.skill \in SkillsOf(turns)
    BY <2>4, <2>6, SkillIn
  <2> QED
    BY <2>2, <2>3, <2>8, <2>9 DEF Q, R, invs, OfSession
<1> QED
  BY <1>2, <1>3

-----------------------------------------------------------------------------
(* opencode and copilot_cli. *)

LEMMA FlattenType ==
    ASSUME NEW T, NEW seqs \in Seq(Seq(T))
    PROVE  FlattenSeq(seqs) \in Seq(T)
<1> DEFINE flatten == CHOOSE flatten : flatten = [i \in 1..Len(seqs) |->
                         IF i = 1 THEN seqs[i] ELSE flatten[i - 1] \o seqs[i]]
           M == Len(seqs)
<1>1. M \in Nat /\ M = Len(seqs) /\ \A i \in 1..M : seqs[i] \in Seq(T)
  OBVIOUS
<1>2. FlattenSeq(seqs) = IF M = 0 THEN seqs ELSE flatten[M]
  BY DEF FlattenSeq
<1>3. CASE M = 0
  BY <1>1, <1>2, <1>3
<1>4. CASE M # 0
  <2> DEFINE X == Seq(T)
             N == M - 1
             base == seqs[1]
             step == [xn \in X \X (1..N) |-> xn[1] \o seqs[xn[2] + 1]]
  <2>1. N \in Nat /\ N = M - 1 /\ M \in 1..M /\ 1 \in 1..M
    BY <1>1, <1>4
  <2>2. base \in X /\ \A x, y \in X : x \o y \in X
    BY <1>1, <2>1
  <2>3. \A n \in 1..N : seqs[n + 1] \in X /\ n + 1 \in 1..M
    BY <1>1, <2>1
  <2> HIDE DEF X, N, M
  <2>4. step \in [X \X (1..N) -> X]
    BY <2>2, <2>3
  <2>5. \A x \in X, n \in 1..N : step[<<x, n>>] = x \o seqs[n + 1]
    OBVIOUS
  <2> HIDE DEF step, base
  <2>6. PICK f \in [0..N -> X] : IsFold(f, N, base, step)
    BY <2>1, <2>2, <2>4, FoldExists
  <2> DEFINE h == [i \in 1..M |-> f[i - 1]]
  <2>7. \A i \in 1..M : h[i] = f[i - 1] /\ h[i] \in X
    <3>1. \A i \in 1..M : i - 1 \in 0..N
      <4> HIDE DEF flatten, h
      <4> QED
        BY <1>1, <2>1
    <3> QED
      BY <3>1
  <2>8. ASSUME NEW i \in 1..M
        PROVE  h[i] = IF i = 1 THEN seqs[i] ELSE h[i - 1] \o seqs[i]
    <3>1. CASE i = 1
      <4>1. 0 \in 0..N /\ i - 1 = 0
        BY <2>1, <3>1
      <4>2. f[0] = base
        BY <2>6, <4>1 DEF IsFold
      <4> QED
        BY <2>7, <3>1, <4>1, <4>2 DEF base
    <3>2. CASE i # 1
      <4> DEFINE n == i - 1
      <4>1. n \in 1..N /\ n \in 0..N /\ n # 0 /\ n + 1 = i /\ n \in 1..M /\ n = i - 1
        BY <1>1, <2>1, <3>2
      <4> HIDE DEF n
      <4>2. f[n] = step[<<f[n - 1], n>>] /\ f[n - 1] \in X /\ h[n] = f[n - 1]
        <5>1. n - 1 \in 0..N
          BY <2>1, <4>1
        <5> QED
          BY <2>6, <2>7, <4>1, <5>1 DEF IsFold
      <4>3. f[n] = f[n - 1] \o seqs[i]
        BY <2>5, <4>1, <4>2
      <4> QED
        BY <2>7, <3>2, <4>1, <4>2, <4>3
    <3> QED
      BY <3>1, <3>2
  <2> HIDE DEF h
  <2>9. DOMAIN h = 1..M /\ h = [i \in DOMAIN h |-> h[i]]
    BY DEF h
  <2>10. h = [i \in 1..M |-> IF i = 1 THEN seqs[i] ELSE h[i - 1] \o seqs[i]]
    BY <2>8, <2>9
  <2>11. flatten = [i \in 1..M |-> IF i = 1 THEN seqs[i] ELSE flatten[i - 1] \o seqs[i]]
    BY <1>1, <2>10
  <2> HIDE DEF flatten
  <2> DEFINE S == {n \in 0..M : n # 0 => flatten[n] \in X}
  <2>12. 0 \in S
    BY <1>1
  <2>13. ASSUME NEW n \in 1..M, n - 1 \in S PROVE n \in S
    <3>1. flatten[n] = IF n = 1 THEN seqs[n] ELSE flatten[n - 1] \o seqs[n]
      BY <2>11, Zenon
    <3>2. seqs[n] \in X
      BY <1>1 DEF X
    <3>3. n # 1 => flatten[n - 1] \in X
      BY <2>13
    <3>4. flatten[n] \in X
      <4>1. CASE n = 1
        BY <3>1, <3>2, <4>1
      <4>2. CASE n # 1
        BY <2>2, <3>1, <3>2, <3>3, <4>2
      <4> QED
        BY <4>1, <4>2
    <3> QED
      BY <3>4
  <2> HIDE DEF S
  <2>14. \A n \in 0..M : n \in S
    BY <1>1, <2>12, <2>13, UpTo
  <2>15. M \in S
    BY <1>1, <2>14
  <2> QED
    BY <1>2, <1>4, <2>15 DEF S, X
<1> QED
  BY <1>3, <1>4

LEMMA SkillBlocksType ==
    ASSUME NEW S, NEW turns \in Seq(TurnOf(S))
    PROVE  SkillBlocks(turns) \in Seq(Invocations)
<1> DEFINE Uses(t) == {j \in DOMAIN t.blocks : t.role = "assistant" /\ t.blocks[j].tool = "skill"}
           kept == [i \in DOMAIN turns |-> Kept(turns[i].blocks, Uses(turns[i]))]
           blocks == FlattenSeq(kept)
           invs == [i \in DOMAIN blocks |->
                       Invocation(blocks[i].name, "skill_tool", <<"call", blocks[i].id>>)]
<1>1. SkillBlocks(turns) = invs
  BY DEF SkillBlocks
<1>2. Len(turns) \in Nat /\ DOMAIN turns = 1..Len(turns)
  OBVIOUS
<1>3. \A i \in 1..Len(turns) : Kept(turns[i].blocks, Uses(turns[i])) \in Seq(BlockOf(S))
  <2>1. \A i \in 1..Len(turns) : turns[i] \in TurnOf(S)
    OBVIOUS
  <2>2. \A i \in 1..Len(turns) : turns[i].blocks \in Seq(BlockOf(S))
    BY <2>1 DEF TurnOf
  <2> HIDE DEF Uses
  <2> QED
    BY <2>2, KeptIs
<1> HIDE DEF Uses
<1>4. kept \in [1..Len(turns) -> Seq(BlockOf(S))]
  BY <1>2, <1>3
<1>5. kept \in Seq(Seq(BlockOf(S)))
  BY <1>2, <1>4, MapSeq
<1> HIDE DEF kept
<1>6. blocks \in Seq(BlockOf(S))
  BY <1>5, FlattenType
<1> HIDE DEF blocks
<1>7. Len(blocks) \in Nat /\ DOMAIN blocks = 1..Len(blocks)
  BY <1>6
<1>8. \A i \in 1..Len(blocks) :
         Invocation(blocks[i].name, "skill_tool", <<"call", blocks[i].id>>) \in Invocations
  <2>1. \A i \in 1..Len(blocks) : blocks[i] \in BlockOf(S)
    BY <1>6
  <2>2. \A i \in 1..Len(blocks) : blocks[i].name \in Names /\ blocks[i].id \in Nat
    BY <2>1 DEF BlockOf
  <2> QED
    BY <2>2 DEF Invocation, Invocations
<1>9. invs \in [1..Len(blocks) -> Invocations]
  BY <1>7, <1>8
<1> QED
  BY <1>1, <1>7, <1>9, MapSeq

(* The turns of opencode have no skill invocations of their own.             *)
LEMMA OpenCodeTurnIs ==
    ASSUME NEW S, NoTurn \in S, NEW acts \in Seq(Act), NEW who,
           NEW child, IsEmpty(child) \/ child \in S
    PROVE  LET turn == OpenCodeTurn(acts, child, who) IN
           turn \in TurnOf(S) /\ turn.skills = <<>> /\ turn.role = "assistant"
<1> DEFINE Status(act) == IF Ended(acts, act.id) THEN "ok" ELSE "aborted"
           Sub(act) == IF act.tool = "task" /\ ~IsEmpty(child) THEN child ELSE NoTurn
           Made(act) == IF act.do = "say" THEN Text
                        ELSE [Block(act.tool, act.name, act.id, Status(act)) EXCEPT !.sub = Sub(act)]
           parts == Kept(acts, {i \in DOMAIN acts : acts[i].by = who /\ acts[i].do \in {"say", "call"}})
           blocks == [i \in DOMAIN parts |-> Made(parts[i])]
<1>1. OpenCodeTurn(acts, child, who) = Turn("assistant", blocks, <<>>)
  BY DEF OpenCodeTurn
<1>2. ASSUME NEW act \in Act PROVE Made(act) \in BlockOf(S)
  <2>1. Text \in BlockOf(S)
    BY PlainTypes
  <2>2. Status(act) \in {"ok", "aborted"} /\ Sub(act) \in S
    OBVIOUS
  <2> HIDE DEF Status, Sub
  <2>3. [Block(act.tool, act.name, act.id, Status(act)) EXCEPT !.sub = Sub(act)] \in BlockOf(S)
    BY <2>2, ActType DEF Block, BlockOf
  <2> QED
    BY <2>1, <2>3
<1>3. parts \in Seq(Act)
  BY KeptIs
<1> HIDE DEF Made, parts
<1>4. Len(parts) \in Nat /\ DOMAIN parts = 1..Len(parts) /\ \A i \in 1..Len(parts) : parts[i] \in Act
  BY <1>3
<1>5. blocks \in [1..Len(parts) -> BlockOf(S)]
  BY <1>2, <1>4
<1>6. blocks \in Seq(BlockOf(S))
  BY <1>4, <1>5, MapSeq
<1> HIDE DEF blocks
<1>7. <<>> \in Seq(Invocations)
  OBVIOUS
<1> QED
  BY <1>1, <1>6, <1>7 DEF Turn, TurnOf

LEMMA OpenCodeChildIs ==
    ASSUME NEW acts \in Seq(Act)
    PROVE  OpenCodeChild(acts) \in TurnOf({NoTurn}) /\ OpenCodeChild(acts).skills = <<>>
<1>1. IsEmpty(EmptyTurn)
  BY DEF IsEmpty, EmptyTurn, Turn
<1> QED
  BY <1>1, OpenCodeTurnIs DEF OpenCodeChild

(* Each group is of acts that the main agent made, and each act of its that  *)
(* does not end a turn is in one.                                            *)
LEMMA TurnActsIs ==
    ASSUME NEW acts \in Seq(Act)
    PROVE  /\ TurnActs(acts) \in Seq(Seq(Act))
           /\ \A i \in DOMAIN acts : MainAgent(acts[i]) /\ acts[i].do # "stop" =>
                 \E g \in DOMAIN TurnActs(acts) : acts[i] \in ToSet(TurnActs(acts)[g])
<1> DEFINE N == Len(acts)
           Stops(i) == MainAgent(acts[i]) /\ acts[i].do = "stop"
           Since(i, end) == MainAgent(acts[i]) /\ \A j \in i..(end - 1) : ~Stops(j)
           Of(end) == {i \in 1..(end - 1) : Since(i, end)}
           Group(end) == IF end > N \/ Stops(end) THEN Kept(acts, Of(end)) ELSE <<>>
           groups == [end \in 1..(N + 1) |-> Group(end)]
           I == {g \in DOMAIN groups : groups[g] # <<>>}
<1>1. TurnActs(acts) = Kept(groups, I)
  BY DEF TurnActs
<1>2. N \in Nat /\ DOMAIN acts = 1..N
  OBVIOUS
<1>3. \A J : Kept(acts, J) \in Seq(Act) /\ ToSet(Kept(acts, J)) = {acts[i] : i \in J \cap DOMAIN acts}
  BY KeptIs
<1>4. \A end \in 1..(N + 1) : Group(end) \in Seq(Act)
  BY <1>3
<1> HIDE DEF Group
<1>5. DOMAIN groups = 1..(N + 1) /\ groups \in Seq(Seq(Act))
  <2>1. groups \in [1..(N + 1) -> Seq(Act)] /\ N + 1 \in Nat
    BY <1>2, <1>4
  <2> QED
    BY <2>1, MapSeq
<1>6. /\ TurnActs(acts) \in Seq(Seq(Act))
      /\ ToSet(TurnActs(acts)) = {groups[g] : g \in I \cap DOMAIN groups}
  <2> DEFINE T == Seq(Act)
  <2>1. groups \in Seq(T)
    BY <1>5
  <2> HIDE DEF T, groups, I
  <2>2. Kept(groups, I) \in Seq(T) /\ ToSet(Kept(groups, I)) = {groups[g] : g \in I \cap DOMAIN groups}
    BY <2>1, KeptIs
  <2> QED
    BY <1>1, <2>2 DEF T
<1>7. ASSUME NEW i \in 1..N, MainAgent(acts[i]), acts[i].do # "stop"
      PROVE  \E g \in DOMAIN TurnActs(acts) : acts[i] \in ToSet(TurnActs(acts)[g])
  <2> DEFINE Ends == {end \in (i + 1)..(N + 1) : end > N \/ Stops(end)}
             end == First(Ends)
  <2>1. end \in Ends /\ \A e \in Ends : end <= e
    <3>1. N + 1 \in Ends
      BY <1>2
    <3>2. Ends \subseteq Nat
      BY <1>2
    <3>3. \E e \in Ends : \A f \in Ends : e <= f
      <4> HIDE DEF Ends
      <4> QED
        BY <3>1, <3>2, LeastNatural
    <3> QED
      BY <3>3 DEF First
  <2> HIDE DEF end
  <2>2. end \in 1..(N + 1) /\ i \in 1..(end - 1) /\ end \in (i + 1)..(N + 1) /\ (end > N \/ Stops(end))
    BY <1>2, <2>1
  <2>3. \A j \in i..(end - 1) : ~Stops(j)
    <3>1. ~Stops(i)
      BY <1>7
    <3>2. ASSUME NEW j \in i..(end - 1), Stops(j) PROVE FALSE
      <4>1. j # i
        BY <3>1, <3>2
      <4>2. j \in (i + 1)..(N + 1) /\ ~(end <= j)
        BY <1>2, <2>2, <4>1
      <4>3. j \in Ends
        BY <3>2, <4>2
      <4> QED
        BY <2>1, <4>2, <4>3
    <3> QED
      BY <3>2
  <2> HIDE DEF Stops
  <2>4. i \in Of(end)
    BY <1>7, <2>2, <2>3
  <2>5. acts[i] \in ToSet(groups[end])
    <3>1. groups[end] = Kept(acts, Of(end))
      BY <2>2 DEF Group
    <3> HIDE DEF Of
    <3> QED
      BY <1>2, <1>3, <2>4, <3>1
  <2>6. ToSet(<<>>) = {}
    BY DEF ToSet
  <2>7. end \in I
    BY <2>2, <2>5, <2>6
  <2> HIDE DEF groups, I
  <2>8. groups[end] \in ToSet(TurnActs(acts))
    BY <1>5, <1>6, <2>2, <2>7
  <2> QED
    BY <2>5, <2>8 DEF ToSet
<1> QED
  BY <1>2, <1>6, <1>7

LEMMA OpenCodeTrajectoryIs ==
    ASSUME NEW acts \in Seq(Act)
    PROVE  OpenCodeTrajectory(acts) \in Seq(TurnOf({NoTurn, OpenCodeChild(acts)}))
<1> DEFINE child == OpenCodeChild(acts)
           S == {NoTurn, child}
           groups == TurnActs(acts)
           turns == [i \in DOMAIN groups |-> OpenCodeTurn(groups[i], child, "main")]
           I == {i \in DOMAIN turns : ~IsEmpty(turns[i])}
<1>1. OpenCodeTrajectory(acts) = <<UserTurn>> \o Kept(turns, I)
  BY DEF OpenCodeTrajectory
<1>2. groups \in Seq(Seq(Act))
  BY TurnActsIs
<1> HIDE DEF groups, child
<1>3. Len(groups) \in Nat /\ DOMAIN groups = 1..Len(groups)
  BY <1>2
<1>4. \A i \in 1..Len(groups) : OpenCodeTurn(groups[i], child, "main") \in TurnOf(S)
  <2>1. \A i \in 1..Len(groups) : groups[i] \in Seq(Act)
    BY <1>2
  <2>2. NoTurn \in S /\ child \in S
    OBVIOUS
  <2> HIDE DEF S
  <2> QED
    BY <2>1, <2>2, OpenCodeTurnIs
<1> HIDE DEF S
<1>5. turns \in [1..Len(groups) -> TurnOf(S)]
  BY <1>3, <1>4
<1>6. turns \in Seq(TurnOf(S))
  BY <1>3, <1>5, MapSeq
<1> HIDE DEF turns
<1>7. Kept(turns, I) \in Seq(TurnOf(S))
  BY <1>6, KeptIs
<1>8. <<UserTurn>> \in Seq(TurnOf(S))
  <2>1. UserTurn \in TurnOf(S)
    BY PlainTypes DEF S
  <2> QED
    BY <2>1
<1> QED
  BY <1>1, <1>7, <1>8 DEF S, child

(* Turns that miss nothing that others have, and have turns of the assistant *)
(* if the others do.                                                         *)
Extends(turns, more) ==
    /\ McpNamesOf(turns) \subseteq McpNamesOf(more)
    /\ SkillsOf(turns) \subseteq SkillsOf(more)
    /\ Assistants(turns) # {} => Assistants(more) # {}

LEMMA ExtendsExtends ==
    ASSUME NEW a, NEW b, NEW c, Extends(a, b), Extends(b, c)
    PROVE  Extends(a, c)
BY DEF Extends

LEMMA AddSkillIs ==
    ASSUME NEW S, NEW turns \in Seq(TurnOf(S)), NEW i \in DOMAIN turns, NEW inv \in Invocations
    PROVE  /\ AddSkill(turns, i, inv) \in Seq(TurnOf(S))
           /\ Extends(turns, AddSkill(turns, i, inv))
           /\ inv.skill \in SkillsOf(AddSkill(turns, i, inv))
<1> DEFINE skills == Append(turns[i].skills, inv)
<1>1. AddSkill(turns, i, inv) = WithSkills(turns, i, skills)
  BY DEF AddSkill, WithSkills
<1>2. turns[i].skills \in Seq(Invocations)
  <2>1. turns[i] \in TurnOf(S)
    OBVIOUS
  <2> QED
    BY <2>1 DEF TurnOf
<1>3. skills \in Seq(Invocations) /\ ToSet(skills) = ToSet(turns[i].skills) \cup {inv}
  BY <1>2, AppendSet
<1> HIDE DEF skills
<1>4. ToSet(turns[i].skills) \subseteq ToSet(skills) /\ inv \in ToSet(skills)
  BY <1>3
<1> QED
  BY <1>1, <1>3, <1>4, SkillsPut DEF Extends

LEMMA HoldingIn ==
    ASSUME NEW T, NEW turns \in Seq(T), NEW inv
    PROVE  /\ Holding(turns, inv) # {} => First(Holding(turns, inv)) \in DOMAIN turns
           /\ Assistants(turns) # {} =>
                 First(Assistants(turns)) \in DOMAIN turns /\ Last_(Assistants(turns)) \in DOMAIN turns
<1> DEFINE n == Len(turns)
<1>1. n \in Nat /\ DOMAIN turns = 1..n /\ 1..n \subseteq Nat
  OBVIOUS
<1> HIDE DEF n
<1>2. Assistants(turns) \subseteq 1..n /\ Assistants(turns) \subseteq Nat
  BY <1>1 DEF Assistants
<1>3. Holding(turns, inv) \subseteq 1..n /\ Holding(turns, inv) \subseteq Nat
  BY <1>1, <1>2 DEF Holding
<1>4. Holding(turns, inv) # {} => First(Holding(turns, inv)) \in DOMAIN turns
  BY <1>1, <1>3, FirstIn
<1>5. Assistants(turns) # {} => First(Assistants(turns)) \in DOMAIN turns
  BY <1>1, <1>2, FirstIn
<1>6. Assistants(turns) # {} => Last_(Assistants(turns)) \in DOMAIN turns
  BY <1>1, <1>2, LastIn
<1> QED
  BY <1>4, <1>5, <1>6

LEMMA AppendTurn ==
    ASSUME NEW S, NEW turns \in Seq(TurnOf(S)), NEW turn \in TurnOf(S)
    PROVE  LET more == Append(turns, turn) IN
           /\ more \in Seq(TurnOf(S))
           /\ Extends(turns, more)
           /\ \A inv \in ToSet(turn.skills) : inv.skill \in SkillsOf(more)
<1> DEFINE more == Append(turns, turn)
           n == Len(turns) + 1
<1>1. /\ more \in Seq(TurnOf(S)) /\ DOMAIN turns \subseteq DOMAIN more
      /\ \A i \in DOMAIN turns : more[i] = turns[i]
      /\ n \in DOMAIN more /\ more[n] = turn
  <2>1. /\ more \in Seq(TurnOf(S)) /\ Len(turns) \in Nat
        /\ DOMAIN turns = 1..Len(turns) /\ DOMAIN more = 1..n
        /\ \A i \in 1..Len(turns) : more[i] = turns[i]
        /\ n \in DOMAIN more /\ more[n] = turn
    OBVIOUS
  <2> HIDE DEF more
  <2>2. DOMAIN turns \subseteq DOMAIN more
    BY <2>1
  <2> QED
    BY <2>1, <2>2
<1> HIDE DEF more, n
<1>2. SkillsOf(turns) \subseteq SkillsOf(more)
  <2>1. \A i \in DOMAIN turns : TurnSkills(turns[i]) \subseteq TurnSkills(more[i])
    BY <1>1
  <2> QED
    BY <1>1, <2>1, MoreSkills
<1>3. McpNamesOf(turns) \subseteq McpNamesOf(more)
  <2>1. \A i \in DOMAIN turns : TurnCalls(turns[i]) \subseteq TurnCalls(more[i])
    BY <1>1
  <2> QED
    BY <1>1, <2>1, MoreCalls
<1>4. Assistants(turns) \subseteq Assistants(more)
  BY <1>1 DEF Assistants
<1>5. \A inv \in ToSet(turn.skills) : inv.skill \in SkillsOf(more)
  BY <1>1, SkillIn
<1> QED
  BY <1>1, <1>2, <1>3, <1>4, <1>5 DEF Extends, more

LEMMA OpenCodeAttachIs ==
    ASSUME NEW S, NEW turns \in Seq(TurnOf(S)), NEW inv \in Invocations
    PROVE  /\ OpenCodeAttach(turns, inv) \in Seq(TurnOf(S))
           /\ Extends(turns, OpenCodeAttach(turns, inv))
           /\ inv.skill \in SkillsOf(OpenCodeAttach(turns, inv))
<1>1. CASE Holding(turns, inv) # {}
  <2>1. OpenCodeAttach(turns, inv) = AddSkill(turns, First(Holding(turns, inv)), inv)
    BY <1>1 DEF OpenCodeAttach
  <2> QED
    BY <1>1, <2>1, AddSkillIs, HoldingIn
<1>2. CASE Holding(turns, inv) = {} /\ Assistants(turns) # {}
  <2>1. OpenCodeAttach(turns, inv) = AddSkill(turns, Last_(Assistants(turns)), inv)
    BY <1>2 DEF OpenCodeAttach
  <2> QED
    BY <1>2, <2>1, AddSkillIs, HoldingIn
<1>3. CASE Holding(turns, inv) = {} /\ Assistants(turns) = {}
  <2> DEFINE turn == Turn("assistant", <<>>, <<inv>>)
  <2>1. OpenCodeAttach(turns, inv) = Append(turns, turn)
    BY <1>3 DEF OpenCodeAttach
  <2>2. <<>> \in Seq(BlockOf(S)) /\ <<inv>> \in Seq(Invocations)
    OBVIOUS
  <2>3. turn \in TurnOf(S) /\ turn.skills = <<inv>>
    BY <2>2 DEF Turn, TurnOf
  <2>4. inv \in ToSet(<<inv>>)
    BY DEF ToSet
  <2> HIDE DEF turn
  <2> QED
    BY <2>1, <2>3, <2>4, AppendTurn
<1> QED
  BY <1>1, <1>2, <1>3

LEMMA CopilotAttachIs ==
    ASSUME NEW S, NEW turns \in Seq(TurnOf(S)), NEW inv \in Invocations
    PROVE  /\ CopilotAttach(turns, inv) \in Seq(TurnOf(S))
           /\ Extends(turns, CopilotAttach(turns, inv))
           /\ Assistants(turns) # {} => inv.skill \in SkillsOf(CopilotAttach(turns, inv))
<1>1. CASE Holding(turns, inv) # {}
  <2>1. CopilotAttach(turns, inv) = AddSkill(turns, First(Holding(turns, inv)), inv)
    BY <1>1 DEF CopilotAttach
  <2> QED
    BY <1>1, <2>1, AddSkillIs, HoldingIn
<1>2. CASE Holding(turns, inv) = {} /\ Assistants(turns) # {}
  <2>1. CopilotAttach(turns, inv) = AddSkill(turns, First(Assistants(turns)), inv)
    BY <1>2 DEF CopilotAttach
  <2> QED
    BY <1>2, <2>1, AddSkillIs, HoldingIn
<1>3. CASE Holding(turns, inv) = {} /\ Assistants(turns) = {}
  BY <1>3 DEF CopilotAttach, Extends
<1> QED
  BY <1>1, <1>2, <1>3

(* Invocations attached one after another: to turns of the assistant, or     *)
(* always.                                                                   *)
LEMMA AttachedOneByOne ==
    ASSUME NEW S, NEW N \in Nat, NEW with, NEW invs, NEW always,
           with[0] \in Seq(TurnOf(S)),
           \A n \in 1..N : with[n - 1] \in Seq(TurnOf(S)) =>
              /\ with[n] \in Seq(TurnOf(S))
              /\ Extends(with[n - 1], with[n])
              /\ always \/ Assistants(with[n - 1]) # {} => invs[n].skill \in SkillsOf(with[n])
    PROVE  /\ with[N] \in Seq(TurnOf(S))
           /\ Extends(with[0], with[N])
           /\ always \/ Assistants(with[0]) # {} =>
                 \A i \in 1..N : invs[i].skill \in SkillsOf(with[N])
<1> DEFINE Done(n) ==
              /\ with[n] \in Seq(TurnOf(S))
              /\ Extends(with[0], with[n])
              /\ always \/ Assistants(with[0]) # {} =>
                    \A i \in 1..n : invs[i].skill \in SkillsOf(with[n])
           T == {n \in 0..N : Done(n)}
<1>1. 0 \in T
  BY DEF Extends
<1>2. ASSUME NEW n \in 1..N, n - 1 \in T PROVE n \in T
  <2> DEFINE a == with[0]
             b == with[n - 1]
             c == with[n]
             Has(t, i) == invs[i].skill \in SkillsOf(t)
  <2>1. /\ b \in Seq(TurnOf(S)) /\ Extends(a, b)
        /\ always \/ Assistants(a) # {} => \A i \in 1..(n - 1) : Has(b, i)
    BY <1>2
  <2>2. /\ c \in Seq(TurnOf(S)) /\ Extends(b, c)
        /\ always \/ Assistants(b) # {} => Has(c, n)
    BY <2>1
  <2> HIDE DEF a, b, c
  <2>3. Extends(a, c) /\ (Assistants(a) # {} => Assistants(b) # {})
    BY <2>1, <2>2, ExtendsExtends DEF Extends
  <2>4. \A i : Has(b, i) => Has(c, i)
    BY <2>2 DEF Extends
  <2> HIDE DEF Has
  <2>5. \A i \in 1..n : i = n \/ i \in 1..(n - 1)
    OBVIOUS
  <2>6. always \/ Assistants(a) # {} => \A i \in 1..n : Has(c, i)
    BY <2>1, <2>2, <2>3, <2>4, <2>5
  <2>7. n \in 0..N
    OBVIOUS
  <2>8. Done(n)
    BY <2>2, <2>3, <2>6 DEF a, c, Has
  <2> HIDE DEF Done
  <2> QED
    BY <2>7, <2>8
<1> HIDE DEF T
<1>3. \A n \in 0..N : n \in T
  BY <1>1, <1>2, UpTo
<1>4. N \in T
  BY <1>3
<1> QED
  BY <1>4 DEF T

LEMMA OpenCodeAttachAllIs ==
    ASSUME NEW S, NEW turns \in Seq(TurnOf(S)), NEW invs \in Seq(Invocations)
    PROVE  /\ OpenCodeAttachAll(turns, invs) \in Seq(TurnOf(S))
           /\ Extends(turns, OpenCodeAttachAll(turns, invs))
           /\ \A i \in DOMAIN invs : invs[i].skill \in SkillsOf(OpenCodeAttachAll(turns, invs))
<1> DEFINE with == CHOOSE with : with = [n \in 0..Len(invs) |->
                      IF n = 0 THEN turns ELSE OpenCodeAttach(with[n - 1], invs[n])]
<1>1. OpenCodeAttachAll(turns, invs) = with[Len(invs)]
  BY DEF OpenCodeAttachAll
<1> DEFINE N == Len(invs)
           X == Seq(TurnOf(S))
           step == [xn \in X \X (1..N) |-> OpenCodeAttach(xn[1], invs[xn[2]])]
<1>2. N \in Nat /\ N = Len(invs) /\ DOMAIN invs = 1..N /\ \A n \in 1..N : invs[n] \in Invocations
  OBVIOUS
<1>3. turns \in X /\ \A x \in X, inv \in Invocations : OpenCodeAttach(x, inv) \in X
  BY OpenCodeAttachIs
<1> HIDE DEF N, X
<1>4. step \in [X \X (1..N) -> X]
  BY <1>2, <1>3
<1>5. \A x \in X, n \in 1..N : step[<<x, n>>] = OpenCodeAttach(x, invs[n])
  OBVIOUS
<1> HIDE DEF step
<1>6. PICK f \in [0..N -> X] : IsFold(f, N, turns, step)
  BY <1>2, <1>3, <1>4, FoldExists
<1>7. ASSUME NEW n \in 0..N
      PROVE  f[n] = IF n = 0 THEN turns ELSE OpenCodeAttach(f[n - 1], invs[n])
  <2>1. n # 0 => n \in 1..N /\ f[n - 1] \in X
    BY <1>2
  <2> QED
    BY <1>5, <1>6, <2>1 DEF IsFold
<1>8. f = [n \in 0..N |-> IF n = 0 THEN turns ELSE OpenCodeAttach(f[n - 1], invs[n])]
  BY <1>7
<1>9. with = [n \in 0..N |-> IF n = 0 THEN turns ELSE OpenCodeAttach(with[n - 1], invs[n])]
  BY <1>2, <1>8
<1> HIDE DEF with
<1>10. with[0] = turns
  <2>1. 0 \in 0..N
    BY <1>2
  <2> QED
    BY <1>9, <2>1, Zenon
<1>11. ASSUME NEW n \in 1..N, with[n - 1] \in X
       PROVE  /\ with[n] \in X
              /\ Extends(with[n - 1], with[n])
              /\ invs[n].skill \in SkillsOf(with[n])
  <2>1. n \in 0..N /\ n # 0 /\ invs[n] \in Invocations
    BY <1>2
  <2> DEFINE w == with[n - 1]
             inv == invs[n]
  <2>2. with[n] = OpenCodeAttach(w, inv)
    BY <1>9, <2>1, Zenon
  <2>3. w \in Seq(TurnOf(S)) /\ inv \in Invocations
    BY <1>11, <2>1 DEF X
  <2> HIDE DEF w, inv
  <2>4. /\ OpenCodeAttach(w, inv) \in X
        /\ Extends(w, OpenCodeAttach(w, inv))
        /\ inv.skill \in SkillsOf(OpenCodeAttach(w, inv))
    BY <2>3, OpenCodeAttachIs DEF X
  <2> QED
    BY <2>2, <2>4 DEF w, inv
<1>12. /\ with[N] \in Seq(TurnOf(S))
       /\ Extends(with[0], with[N])
       /\ \A i \in 1..N : invs[i].skill \in SkillsOf(with[N])
  <2>1. with[0] \in Seq(TurnOf(S))
    BY <1>3, <1>10 DEF X
  <2>2. \A n \in 1..N : with[n - 1] \in Seq(TurnOf(S)) =>
           /\ with[n] \in Seq(TurnOf(S))
           /\ Extends(with[n - 1], with[n])
           /\ TRUE \/ Assistants(with[n - 1]) # {} => invs[n].skill \in SkillsOf(with[n])
    BY <1>11 DEF X
  <2> QED
    BY <1>2, <2>1, <2>2, AttachedOneByOne
<1> QED
  BY <1>1, <1>2, <1>10, <1>12

LEMMA CopilotAttachAllIs ==
    ASSUME NEW S, NEW turns \in Seq(TurnOf(S)), NEW invs \in Seq(Invocations)
    PROVE  /\ CopilotAttachAll(turns, invs) \in Seq(TurnOf(S))
           /\ Extends(turns, CopilotAttachAll(turns, invs))
           /\ Assistants(turns) # {} =>
                 \A i \in DOMAIN invs : invs[i].skill \in SkillsOf(CopilotAttachAll(turns, invs))
<1> DEFINE with == CHOOSE with : with = [n \in 0..Len(invs) |->
                      IF n = 0 THEN turns ELSE CopilotAttach(with[n - 1], invs[n])]
<1>1. CopilotAttachAll(turns, invs) = with[Len(invs)]
  BY DEF CopilotAttachAll
<1> DEFINE N == Len(invs)
           X == Seq(TurnOf(S))
           step == [xn \in X \X (1..N) |-> CopilotAttach(xn[1], invs[xn[2]])]
<1>2. N \in Nat /\ N = Len(invs) /\ DOMAIN invs = 1..N /\ \A n \in 1..N : invs[n] \in Invocations
  OBVIOUS
<1>3. turns \in X /\ \A x \in X, inv \in Invocations : CopilotAttach(x, inv) \in X
  BY CopilotAttachIs
<1> HIDE DEF N, X
<1>4. step \in [X \X (1..N) -> X]
  BY <1>2, <1>3
<1>5. \A x \in X, n \in 1..N : step[<<x, n>>] = CopilotAttach(x, invs[n])
  OBVIOUS
<1> HIDE DEF step
<1>6. PICK f \in [0..N -> X] : IsFold(f, N, turns, step)
  BY <1>2, <1>3, <1>4, FoldExists
<1>7. ASSUME NEW n \in 0..N
      PROVE  f[n] = IF n = 0 THEN turns ELSE CopilotAttach(f[n - 1], invs[n])
  <2>1. n # 0 => n \in 1..N /\ f[n - 1] \in X
    BY <1>2
  <2> QED
    BY <1>5, <1>6, <2>1 DEF IsFold
<1>8. f = [n \in 0..N |-> IF n = 0 THEN turns ELSE CopilotAttach(f[n - 1], invs[n])]
  BY <1>7
<1>9. with = [n \in 0..N |-> IF n = 0 THEN turns ELSE CopilotAttach(with[n - 1], invs[n])]
  BY <1>2, <1>8
<1> HIDE DEF with
<1>10. with[0] = turns
  <2>1. 0 \in 0..N
    BY <1>2
  <2> QED
    BY <1>9, <2>1, Zenon
<1>11. ASSUME NEW n \in 1..N, with[n - 1] \in X
       PROVE  /\ with[n] \in X
              /\ Extends(with[n - 1], with[n])
              /\ Assistants(with[n - 1]) # {} => invs[n].skill \in SkillsOf(with[n])
  <2>1. n \in 0..N /\ n # 0 /\ invs[n] \in Invocations
    BY <1>2
  <2> DEFINE w == with[n - 1]
             inv == invs[n]
  <2>2. with[n] = CopilotAttach(w, inv)
    BY <1>9, <2>1, Zenon
  <2>3. w \in Seq(TurnOf(S)) /\ inv \in Invocations
    BY <1>11, <2>1 DEF X
  <2> HIDE DEF w, inv
  <2>4. /\ CopilotAttach(w, inv) \in X
        /\ Extends(w, CopilotAttach(w, inv))
        /\ Assistants(w) # {} => inv.skill \in SkillsOf(CopilotAttach(w, inv))
    BY <2>3, CopilotAttachIs DEF X
  <2> QED
    BY <2>2, <2>4 DEF w, inv
<1>12. /\ with[N] \in Seq(TurnOf(S))
       /\ Extends(with[0], with[N])
       /\ Assistants(with[0]) # {} =>
             \A i \in 1..N : invs[i].skill \in SkillsOf(with[N])
  <2>1. with[0] \in Seq(TurnOf(S))
    BY <1>3, <1>10 DEF X
  <2>2. \A n \in 1..N : with[n - 1] \in Seq(TurnOf(S)) =>
           /\ with[n] \in Seq(TurnOf(S))
           /\ Extends(with[n - 1], with[n])
           /\ FALSE \/ Assistants(with[n - 1]) # {} => invs[n].skill \in SkillsOf(with[n])
    BY <1>11 DEF X
  <2> QED
    BY <1>2, <2>1, <2>2, AttachedOneByOne
<1> QED
  BY <1>1, <1>2, <1>10, <1>12

(* An opencode trajectory has the detected skill and the detected tool.      *)
LEMMA OpenCodeBuildIs ==
    ASSUME NEW acts \in Seq(Act), NEW skill \in Names, NEW tool \in Names
    PROVE  LET R == OpenCodeBuild(acts, skill, tool).turns IN
           /\ R \in Seq(TurnOf({NoTurn, OpenCodeChild(acts)}))
           /\ skill # "none" => skill \in SkillsOf(R)
           /\ tool # "none" => tool \in McpNamesOf(R)
<1> DEFINE S == {NoTurn, OpenCodeChild(acts)}
           turns == RecordDetectedTool(OpenCodeTrajectory(acts), tool)
           known == SkillBlocks(turns)
           extra == Invocation(skill, "skill_tool", <<"none", 0>>)
           invs  == IF skill = "none" \/ \E i \in DOMAIN known : known[i].skill = skill
                    THEN known ELSE Append(known, extra)
           R == OpenCodeBuild(acts, skill, tool).turns
<1>1. R = OpenCodeAttachAll(turns, invs)
  BY DEF OpenCodeBuild
<1>2. OpenCodeTrajectory(acts) \in Seq(TurnOf(S))
  BY OpenCodeTrajectoryIs
<1>3. NoTurn \in S
  OBVIOUS
<1> HIDE DEF S, R
<1>4. turns \in Seq(TurnOf(S)) /\ (tool # "none" => tool \in McpNamesOf(turns))
  BY <1>2, <1>3, RecordDetectedToolIs
<1> HIDE DEF turns
<1>5. known \in Seq(Invocations)
  BY <1>4, SkillBlocksType
<1> HIDE DEF known
<1>6. extra \in Invocations /\ extra.skill = skill
  BY DEF Invocation, Invocations
<1> HIDE DEF extra
<1>7. invs \in Seq(Invocations) /\ (skill # "none" => \E i \in DOMAIN invs : invs[i].skill = skill)
  <2>1. CASE skill = "none" \/ \E i \in DOMAIN known : known[i].skill = skill
    BY <1>5, <2>1
  <2>2. CASE ~(skill = "none" \/ \E i \in DOMAIN known : known[i].skill = skill)
    <3>1. invs = Append(known, extra)
      BY <2>2
    <3> HIDE DEF invs
    <3>2. invs \in Seq(Invocations) /\ ToSet(invs) = ToSet(known) \cup {extra}
      BY <1>5, <1>6, <3>1, AppendSet
    <3>3. extra \in ToSet(invs)
      BY <3>2
    <3> QED
      BY <1>6, <3>2, <3>3 DEF ToSet
  <2> QED
    BY <2>1, <2>2
<1> HIDE DEF invs
<1>8. /\ R \in Seq(TurnOf(S))
      /\ Extends(turns, R)
      /\ \A i \in DOMAIN invs : invs[i].skill \in SkillsOf(R)
  BY <1>1, <1>4, <1>7, OpenCodeAttachAllIs
<1> QED
  BY <1>4, <1>7, <1>8 DEF Extends, R, S

(* A group of acts with a call becomes a turn with blocks.                   *)
LEMMA CopilotTurnIs ==
    ASSUME NEW acts \in Seq(Act)
    PROVE  /\ CopilotTurn(acts) \in TurnOf({NoTurn})
           /\ CopilotTurn(acts).role = "assistant"
           /\ \A i \in DOMAIN acts : acts[i].do = "call" => ~IsEmpty(CopilotTurn(acts))
<1> DEFINE said == {i \in DOMAIN acts : acts[i].do = "say"}
           over == {i \in DOMAIN acts : acts[i].do = "done" /\ \E j \in DOMAIN acts :
                                           acts[j].do = "call" /\ acts[j].id = acts[i].id}
           open == {i \in DOMAIN acts : acts[i].do = "call" /\ ~Ended(acts, acts[i].id)}
           Call(act) == Block(act.tool, act.name, act.id, "ok")
           calls == Kept(acts, over) \o Kept(acts, open)
           text == IF said = {} THEN <<>> ELSE <<Text>>
           made == [i \in DOMAIN calls |-> Call(calls[i])]
           blocks == text \o made
           S == {NoTurn}
<1>1. CopilotTurn(acts) = Turn("assistant", blocks, <<>>)
  BY DEF CopilotTurn
<1>2. /\ Kept(acts, over) \in Seq(Act) /\ ToSet(Kept(acts, over)) = {acts[i] : i \in over \cap DOMAIN acts}
      /\ Kept(acts, open) \in Seq(Act) /\ ToSet(Kept(acts, open)) = {acts[i] : i \in open \cap DOMAIN acts}
  BY KeptIs
<1>3. /\ calls \in Seq(Act)
      /\ ToSet(calls) = {acts[i] : i \in over \cap DOMAIN acts} \cup {acts[i] : i \in open \cap DOMAIN acts}
  <2>1. calls \in Seq(Act) /\ ToSet(calls) = ToSet(Kept(acts, over)) \cup ToSet(Kept(acts, open))
    <3> HIDE DEF over, open
    <3> QED
      BY <1>2, ConcatSet
  <2> QED
    BY <1>2, <2>1
<1> HIDE DEF calls
<1>4. Len(calls) \in Nat /\ DOMAIN calls = 1..Len(calls) /\ \A i \in 1..Len(calls) : calls[i] \in Act
  BY <1>3
<1>5. \A act \in Act : Call(act) \in BlockOf(S)
  BY ActType DEF Block, BlockOf
<1>6. made \in Seq(BlockOf(S)) /\ Len(made) = Len(calls)
  <2> HIDE DEF Call
  <2>1. made \in [1..Len(calls) -> BlockOf(S)]
    BY <1>4, <1>5
  <2> QED
    BY <1>4, <2>1, MapSeq
<1>7. text \in Seq(BlockOf(S))
  <2>1. Text \in BlockOf(S)
    BY PlainTypes
  <2>2. \A T, t : t \in T => <<>> \in Seq(T) /\ <<t>> \in Seq(T)
    OBVIOUS
  <2>3. <<>> \in Seq(BlockOf(S)) /\ <<Text>> \in Seq(BlockOf(S))
    BY <2>1, <2>2
  <2> HIDE DEF S
  <2> QED
    BY <2>3
<1> HIDE DEF text, made
<1>8. blocks \in Seq(BlockOf(S)) /\ (blocks = <<>> => Len(calls) = 0)
  <2>1. blocks \in Seq(BlockOf(S)) /\ Len(blocks) = Len(text) + Len(made) /\ Len(text) \in Nat
    BY <1>6, <1>7
  <2> HIDE DEF blocks
  <2> QED
    BY <1>4, <1>6, <2>1
<1> HIDE DEF blocks
<1>9. <<>> \in Seq(Invocations)
  OBVIOUS
<1>10. CopilotTurn(acts) \in TurnOf(S)
  BY <1>1, <1>8, <1>9 DEF Turn, TurnOf
<1>11. ASSUME NEW i \in DOMAIN acts, acts[i].do = "call" PROVE blocks # <<>>
  <2>1. ToSet(calls) # {}
    <3>1. CASE Ended(acts, acts[i].id)
      <4>1. PICK j \in DOMAIN acts : acts[j].do = "done" /\ acts[j].id = acts[i].id
        BY <3>1 DEF Ended
      <4>2. j \in over \cap DOMAIN acts
        BY <1>11, <4>1
      <4> QED
        BY <1>3, <4>2
    <3>2. CASE ~Ended(acts, acts[i].id)
      <4>1. i \in open \cap DOMAIN acts
        BY <1>11, <3>2
      <4> QED
        BY <1>3, <4>1
    <3> QED
      BY <3>1, <3>2
  <2>2. Len(calls) # 0
    BY <1>4, <2>1 DEF ToSet
  <2> QED
    BY <1>8, <2>2
<1> QED
  BY <1>1, <1>10, <1>11 DEF Turn, IsEmpty

(* It has a turn of the assistant if the main agent made a call.             *)
LEMMA CopilotTrajectoryIs ==
    ASSUME NEW seen \in Seq(Act)
    PROVE  /\ CopilotTrajectory(seen) \in Seq(TurnOf({NoTurn}))
           /\ \A i \in DOMAIN seen : MainAgent(seen[i]) /\ seen[i].do = "call" =>
                 Assistants(CopilotTrajectory(seen)) # {}
<1> DEFINE S == {NoTurn}
           groups == TurnActs(seen)
           turns == [i \in DOMAIN groups |-> CopilotTurn(groups[i])]
           I == {i \in DOMAIN turns : ~IsEmpty(turns[i])}
           kept == Kept(turns, I)
           R == CopilotTrajectory(seen)
<1>1. R = <<UserTurn>> \o kept
  BY DEF CopilotTrajectory
<1>2. /\ groups \in Seq(Seq(Act))
      /\ \A i \in DOMAIN seen : MainAgent(seen[i]) /\ seen[i].do # "stop" =>
            \E g \in DOMAIN groups : seen[i] \in ToSet(groups[g])
  BY TurnActsIs
<1> HIDE DEF groups
<1>3. Len(groups) \in Nat /\ DOMAIN groups = 1..Len(groups) /\ \A g \in 1..Len(groups) : groups[g] \in Seq(Act)
  BY <1>2
<1>4. turns \in Seq(TurnOf(S)) /\ DOMAIN turns = DOMAIN groups
  <2>1. turns \in [1..Len(groups) -> TurnOf(S)]
    BY <1>3, CopilotTurnIs
  <2> QED
    BY <1>3, <2>1, MapSeq
<1>5. \A g \in DOMAIN groups : turns[g] = CopilotTurn(groups[g]) /\ turns[g].role = "assistant"
  BY <1>3, CopilotTurnIs
<1> HIDE DEF turns
<1>6. kept \in Seq(TurnOf(S)) /\ ToSet(kept) = {turns[i] : i \in I \cap DOMAIN turns}
  BY <1>4, KeptIs
<1> HIDE DEF kept, R
<1>7. <<UserTurn>> \in Seq(TurnOf(S))
  <2>1. UserTurn \in TurnOf(S)
    BY PlainTypes
  <2> QED
    BY <2>1
<1>8. R \in Seq(TurnOf(S)) /\ ToSet(kept) \subseteq ToSet(R)
  <2> DEFINE first == <<UserTurn>>
  <2>1. first \in Seq(TurnOf(S)) /\ R = first \o kept
    BY <1>1, <1>7
  <2> HIDE DEF first
  <2> QED
    BY <1>6, <2>1, ConcatSet
<1>9. ASSUME NEW i \in DOMAIN seen, MainAgent(seen[i]), seen[i].do = "call"
      PROVE  Assistants(R) # {}
  <2>1. PICK g \in DOMAIN groups : seen[i] \in ToSet(groups[g])
    BY <1>2, <1>9
  <2>2. groups[g] \in Seq(Act) /\ \E j \in DOMAIN groups[g] : groups[g][j].do = "call"
    BY <1>3, <1>9, <2>1 DEF ToSet
  <2>3. ~IsEmpty(turns[g])
    BY <1>5, <2>2, CopilotTurnIs
  <2>4. turns[g] \in ToSet(R)
    BY <1>4, <1>6, <1>8, <2>3
  <2>5. PICK k \in DOMAIN R : R[k] = turns[g]
    BY <2>4 DEF ToSet
  <2> QED
    BY <1>5, <2>5 DEF Assistants
<1> QED
  BY <1>8, <1>9 DEF R

(* A copilot trajectory has the detected skill if the main agent made a      *)
(* call.                                                                     *)
LEMMA CopilotBuildIs ==
    ASSUME NEW seen \in Seq(Act), NEW skill \in Names,
           skill # "none" => \E i \in DOMAIN seen :
              seen[i].do = "call" /\ seen[i].tool = "skill" /\ seen[i].name = skill
    PROVE  LET R == CopilotBuild(seen, skill).turns IN
           /\ R \in Seq(TurnOf({NoTurn}))
           /\ (skill # "none" /\ \E i \in DOMAIN seen : MainAgent(seen[i]) /\ seen[i].do = "call")
                 => skill \in SkillsOf(R)
<1> DEFINE S == {NoTurn}
           turns == CopilotTrajectory(seen)
           by == {i \in DOMAIN seen :
                     seen[i].do = "call" /\ seen[i].tool = "skill" /\ seen[i].name = skill}
           id == seen[Last_(by)].id
           one == Invocation(skill, "skill_tool", <<"call", id>>)
           known == SkillBlocks(turns)
           invs == IF skill = "none" THEN known ELSE <<one>>
           R == CopilotBuild(seen, skill).turns
<1>1. R = CopilotAttachAll(turns, invs)
  BY DEF CopilotBuild
<1>2. /\ turns \in Seq(TurnOf(S))
      /\ \A i \in DOMAIN seen : MainAgent(seen[i]) /\ seen[i].do = "call" => Assistants(turns) # {}
  BY CopilotTrajectoryIs
<1> HIDE DEF turns, R
<1>3. known \in Seq(Invocations)
  BY <1>2, SkillBlocksType
<1> HIDE DEF known
<1>4. skill # "none" => one \in Invocations /\ one.skill = skill
  <2> SUFFICES ASSUME skill # "none" PROVE one \in Invocations /\ one.skill = skill
    OBVIOUS
  <2>1. by \subseteq 1..Len(seen) /\ by # {} /\ Len(seen) \in Nat
    OBVIOUS
  <2>2. Last_(by) \in DOMAIN seen
    <3> HIDE DEF by
    <3> QED
      BY <2>1, LastIn
  <2>3. id \in Nat
    BY <2>2, ActType
  <2> HIDE DEF id
  <2> QED
    BY <2>3 DEF Invocation, Invocations
<1> HIDE DEF one
<1>5. invs \in Seq(Invocations) /\ (skill # "none" => 1 \in DOMAIN invs /\ invs[1].skill = skill)
  BY <1>3, <1>4
<1> HIDE DEF invs
<1>6. /\ R \in Seq(TurnOf(S))
      /\ Assistants(turns) # {} => \A i \in DOMAIN invs : invs[i].skill \in SkillsOf(R)
  BY <1>1, <1>2, <1>5, CopilotAttachAllIs
<1> QED
  BY <1>2, <1>5, <1>6 DEF R
=============================================================================
