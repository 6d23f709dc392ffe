------------------------- MODULE ConversationProofs -------------------------
(* Theorems about conversations, for every transcript, every stream of     *)
(* events and every body, whatever models, prices, texts and limits.       *)
EXTENDS Conversation, FiniteSetTheorems, SequenceTheorems, TLAPS

(***************************************************************************)
(* The loops.  Each loop of the code is a fold, and a fold is the last of  *)
(* the states that the loop runs through.  FoldLeft names a recursive      *)
(* function on the sets of indices; F is the body of the loop.             *)
(***************************************************************************)
LEMMA LeastOf ==
  ASSUME NEW C, C \subseteq Nat, C # {}
  PROVE  \E m \in C : \A n \in C : m <= n
<1>1. IsWellFoundedOn(OpToRel(<, Nat), Nat)
  BY NatLessThanWellFounded
<1>2. PICK m \in C : \A n \in C : ~ (<<n, m>> \in OpToRel(<, Nat))
  BY <1>1, WFMin
<1>3. \A n \in C : ~ (n < m)
  BY <1>2 DEF OpToRel
<1> QED
  BY <1>3

(* What holds at the start of a run and is kept by its steps holds along.  *)
LEMMA AlongTheRun ==
  ASSUME NEW n \in Nat, NEW P, 0 \in P, \A k \in 1..n : k - 1 \in P => k \in P
  PROVE  0..n \subseteq P
<1> DEFINE Bad == {k \in 0..n : k \notin P}
<1> SUFFICES ASSUME Bad # {} PROVE FALSE
  OBVIOUS
<1>1. PICK k \in Bad : \A i \in Bad : k <= i
  <2>1. Bad \subseteq Nat
    OBVIOUS
  <2> HIDE DEF Bad
  <2> QED
    BY <2>1, LeastOf
<1>2. k \in 1..n /\ k \notin P
  OBVIOUS
<1>3. k - 1 \in P
  <2>1. k - 1 \in 0..n /\ ~ (k <= k - 1)
    BY <1>2
  <2> QED
    BY <1>1, <2>1
<1> QED
  BY <1>2, <1>3

LEMMA MaxOfSome ==
  ASSUME NEW n \in Nat, NEW T \in SUBSET (1..n), T # {}
  PROVE  Max(T) \in T /\ \A i \in T : i <= Max(T)
<1> DEFINE Caps == {m \in Nat : \A i \in T : i <= m}
<1>1. n \in Caps /\ Caps \subseteq Nat
  OBVIOUS
<1>2. PICK m \in Caps : \A c \in Caps : m <= c
  <2> HIDE DEF Caps
  <2> QED
    BY <1>1, LeastOf
<1>3. m \in T
  <2> SUFFICES ASSUME m \notin T PROVE FALSE
    OBVIOUS
  <2>1. m - 1 \in Caps /\ m \in Nat
    <3>1. PICK i \in T : TRUE
      OBVIOUS
    <3>2. \A j \in T : j \in Nat /\ j <= m /\ j # m
      OBVIOUS
    <3> QED
      BY <3>1, <3>2
  <2> QED
    BY <1>2, <2>1
<1>4. \A i \in T : m >= i
  OBVIOUS
<1> QED
  BY <1>3, <1>4 DEF Max

LEMMA MaxUpTo ==
  ASSUME NEW k \in Nat \ {0}
  PROVE  Max(1..k) = k /\ (1..k) \ {Max(1..k)} = 1..k - 1
<1>1. 1..k \in SUBSET (1..k) /\ 1..k # {} /\ k \in 1..k /\ k \in Nat
  OBVIOUS
<1>2. Max(1..k) \in 1..k /\ k <= Max(1..k)
  BY <1>1, MaxOfSome
<1> QED
  BY <1>2

FoldsTo(g, F, b, s, n) ==
  g = [T \in SUBSET (1..n) |-> IF T = {} THEN b ELSE F[<<g[T \ {Max(T)}], s[Max(T)]>>]]

LEMMA FoldExists ==
  ASSUME NEW S, NEW I, NEW F \in [S \X I -> S], NEW b \in S, NEW s \in Seq(I)
  PROVE  \E g \in [SUBSET (1..Len(s)) -> S] : FoldsTo(g, F, b, s, Len(s))
<1>0. Len(s) \in Nat /\ \A i \in 1..Len(s) : s[i] \in I
  OBVIOUS
<1> DEFINE P == {n \in 0..Len(s) : \E g \in [SUBSET (1..n) -> S] : FoldsTo(g, F, b, s, n)}
<1>1. 0 \in P
  <2> DEFINE g == [T \in SUBSET (1..0) |-> b]
  <2>1. g \in [SUBSET (1..0) -> S]
    OBVIOUS
  <2>2. \A T \in SUBSET (1..0) : T = {}
    OBVIOUS
  <2>3. FoldsTo(g, F, b, s, 0)
    BY <2>2 DEF FoldsTo
  <2>4. 0 \in 0..Len(s)
    BY <1>0
  <2> HIDE DEF g
  <2> QED
    BY <2>1, <2>3, <2>4
<1>2. ASSUME NEW n \in 1..Len(s), n - 1 \in P
      PROVE  n \in P
  <2>0. n \in Nat /\ n - 1 \in Nat
    BY <1>0
  <2>1. PICK f \in [SUBSET (1..n - 1) -> S] : FoldsTo(f, F, b, s, n - 1)
    BY <1>2
  <2> DEFINE g == [T \in SUBSET (1..n) |->
                     IF T = {} THEN b ELSE F[<<f[T \ {Max(T)}], s[Max(T)]>>]]
  <2>2. ASSUME NEW T \in SUBSET (1..n), T # {}
        PROVE  Max(T) \in 1..n /\ s[Max(T)] \in I /\ T \ {Max(T)} \in SUBSET (1..n - 1)
    <3>1. Max(T) \in T /\ \A i \in T : i <= Max(T)
      BY <2>0, <2>2, MaxOfSome
    <3> HIDE DEF P, g
    <3>2. Max(T) \in 1..n
      BY <3>1
    <3>3. Max(T) \in 1..Len(s)
      BY <1>0, <2>0, <3>2
    <3>4. ASSUME NEW i \in T, i # Max(T)
          PROVE  i \in 1..n - 1
      <4>1. i <= Max(T) /\ i \in 1..n
        BY <3>1, <3>4
      <4> QED
        BY <2>0, <3>2, <3>4, <4>1
    <3> QED
      BY <1>0, <3>2, <3>3, <3>4
  <2>3. g \in [SUBSET (1..n) -> S]
    <3>1. ASSUME NEW T \in SUBSET (1..n), T # {}
          PROVE  F[<<f[T \ {Max(T)}], s[Max(T)]>>] \in S
      BY <2>2, <3>1
    <3> QED
      BY <3>1
  <2>4. ASSUME NEW R \in SUBSET (1..n - 1)
        PROVE  g[R] = f[R]
    <3>1. R \in SUBSET (1..n)
      BY <2>0
    <3> QED
      BY <2>1, <3>1 DEF FoldsTo
  <2>5. ASSUME NEW T \in SUBSET (1..n), T # {}
        PROVE  g[T \ {Max(T)}] = f[T \ {Max(T)}]
    BY <2>2, <2>4, <2>5
  <2>6. g = [T \in SUBSET (1..n) |->
               IF T = {} THEN b ELSE F[<<g[T \ {Max(T)}], s[Max(T)]>>]]
    BY <2>5
  <2> HIDE DEF g
  <2>7. FoldsTo(g, F, b, s, n)
    BY <2>6 DEF FoldsTo
  <2> QED
    BY <2>3, <2>7
<1> HIDE DEF P
<1>3. 0..Len(s) \subseteq P
  BY <1>0, <1>1, <1>2, AlongTheRun
<1>4. Len(s) \in P
  BY <1>0, <1>3
<1> QED
  BY <1>4 DEF P

LEMMA MaxIsAnIndex ==
  ASSUME NEW I, NEW s \in Seq(I), NEW T \in SUBSET (1..Len(s)), T # {}
  PROVE  s[Max(T)] \in I
<1>0. Len(s) \in Nat /\ \A k \in 1..Len(s) : s[k] \in I
  OBVIOUS
<1>1. Max(T) \in T
  BY <1>0, MaxOfSome
<1> QED
  BY <1>0, <1>1

(* A solution of the equation, at the sets of first indices, is a run.     *)
SolvesFold(h, S, F, b, s) ==
  /\ h[{}] = b
  /\ \A T \in SUBSET (1..Len(s)) : T # {} /\ h[T \ {Max(T)}] \in S =>
       h[T] = F[<<h[T \ {Max(T)}], s[Max(T)]>>]

RunsTo(end, S, F, b, s) ==
  \E run \in [0..Len(s) -> S] :
    /\ run[0] = b /\ run[Len(s)] = end
    /\ \A k \in 1..Len(s) : run[k - 1] \in S /\ run[k] = F[<<run[k - 1], s[k]>>]

LEMMA FoldEnds ==
  ASSUME NEW S, NEW I, NEW F \in [S \X I -> S], NEW b \in S, NEW s \in Seq(I), NEW h,
         SolvesFold(h, S, F, b, s)
  PROVE  RunsTo(h[1..Len(s)], S, F, b, s)
<1> DEFINE P == {k \in 0..Len(s) : h[1..k] \in S}
<1>0. Len(s) \in Nat /\ \A k \in 1..Len(s) : s[k] \in I
  OBVIOUS
<1>1. 1..0 = {} /\ 0 \in 0..Len(s)
  BY <1>0
<1>2. ASSUME NEW k \in 1..Len(s), h[1..k - 1] \in S
      PROVE  h[1..k] = F[<<h[1..k - 1], s[k]>>] /\ h[1..k] \in S
  <2>1. k \in Nat \ {0} /\ \A i \in 1..k : i \in 1..Len(s)
    BY <1>0
  <2>2. 1..k \in SUBSET (1..Len(s)) /\ 1..k # {}
    <3>1. k \in 1..k
      BY ONLY <2>1
    <3> QED
      BY ONLY <2>1, <3>1
  <2>3. Max(1..k) = k /\ (1..k) \ {Max(1..k)} = 1..k - 1
    BY <2>1, MaxUpTo
  <2>4. h[1..k] = F[<<h[1..k - 1], s[k]>>]
    BY <1>2, <2>2, <2>3 DEF SolvesFold
  <2> QED
    BY <1>0, <1>2, <2>4
<1>3. ASSUME NEW k \in 1..Len(s)
      PROVE  k \in 0..Len(s) /\ k - 1 \in 0..Len(s)
  BY <1>0
<1>4. \A k \in 0..Len(s) : h[1..k] \in S
  <2>1. 0 \in P
    BY <1>1 DEF SolvesFold
  <2>2. \A k \in 1..Len(s) : k - 1 \in P => k \in P
    BY <1>2, <1>3
  <2> HIDE DEF P
  <2>3. 0..Len(s) \subseteq P
    BY <1>0, <2>1, <2>2, AlongTheRun
  <2> QED
    BY <2>3 DEF P
<1> DEFINE run == [k \in 0..Len(s) |-> h[1..k]]
<1>5. run \in [0..Len(s) -> S]
  BY <1>4
<1>6. run[0] = b /\ run[Len(s)] = h[1..Len(s)]
  BY <1>0, <1>1 DEF SolvesFold
<1>7. \A k \in 1..Len(s) : run[k - 1] \in S /\ run[k] = F[<<run[k - 1], s[k]>>]
  BY <1>2, <1>3, <1>4
<1> QED
  BY <1>5, <1>6, <1>7 DEF RunsTo


(* The beginnings of sequences.                                            *)
Begins(s, t) == Len(s) <= Len(t) /\ SubSeq(t, 1, Len(s)) = s

LEMMA SequenceBegins ==
  ASSUME NEW S, NEW s \in Seq(S), NEW t \in Seq(S)
  PROVE  Begins(s, s \o t) /\ s \o t \in Seq(S)
<1>1. /\ s \o t \in Seq(S) /\ Len(s \o t) = Len(s) + Len(t) /\ Len(s) \in Nat /\ Len(t) \in Nat
      /\ \A i \in 1..Len(s) : (s \o t)[i] = s[i] /\ s[i] \in S
  BY ConcatProperties
<1>2. SubSeq(s \o t, 1, Len(s)) = s
  BY <1>1
<1> QED
  BY <1>1, <1>2 DEF Begins

LEMMA BeginsIsTransitive ==
  ASSUME NEW S, NEW s \in Seq(S), NEW t \in Seq(S), NEW u \in Seq(S), Begins(s, t), Begins(t, u)
  PROVE  Begins(s, u)
<1>1. Len(s) \in Nat /\ Len(t) \in Nat /\ Len(u) \in Nat /\ Len(s) <= Len(t) /\ Len(t) <= Len(u)
  BY DEF Begins
<1>2. ASSUME NEW i \in 1..Len(s)
      PROVE  u[i] = s[i]
  <2>1. i \in 1..Len(t)
    BY <1>1
  <2>2. SubSeq(t, 1, Len(s))[i] = t[i] /\ SubSeq(u, 1, Len(t))[i] = u[i]
    BY <1>1, <2>1
  <2> QED
    BY <2>2 DEF Begins
<1>3. SubSeq(u, 1, Len(s)) = s
  BY <1>1, <1>2
<1> QED
  BY <1>1, <1>3 DEF Begins

LEMMA IdsAreStrings ==
  ASSUME NEW m \in Messages
  PROVE  IdsOf(m) \subseteq Strings
<1>1. m.calls \in Seq(ToolCalls)
  BY DEF Messages
<1>2. ASSUME NEW i \in DOMAIN m.calls PROVE m.calls[i].id \in Strings
  <2>1. m.calls[i] \in ToolCalls
    BY <1>1
  <2> QED
    BY <2>1 DEF ToolCalls
<1> QED
  BY <1>2 DEF IdsOf, ToSet

(***************************************************************************)
(* Transcripts.                                                            *)
(***************************************************************************)
(* Where the loop of validate_turn stands.                                 *)
Marks == [ok : BOOLEAN, pending : SUBSET Strings]

(* The loop of validate_turn.                                              *)
LEMMA MessagesAreRead ==
  ASSUME NEW s \in Seq(Messages)
  PROVE  \E run \in [0..Len(s) -> Marks] :
           /\ run[0] = Start
           /\ \A k \in 1..Len(s) : run[k] = ReadMessage(run[k - 1], s[k])
           /\ FoldLeft(ReadMessage, Start, s) = run[Len(s)]
<1>1. ASSUME NEW x \in Marks, NEW y \in Messages
      PROVE  ReadMessage(x, y) \in Marks
  <2>1. IdsOf(y) \subseteq Strings
    BY IdsAreStrings
  <2>2. /\ x.ok \in BOOLEAN /\ x.pending \in SUBSET Strings
    BY DEF Marks
  <2> QED
    BY <2>1, <2>2 DEF Marks, ReadMessage
<1>2. Start \in Marks /\ s \in Seq(Messages) /\ DOMAIN s = 1..Len(s)
  BY DEF Start, Marks
<1> DEFINE F == [p \in Marks \X Messages |-> ReadMessage(p[1], p[2])]
           Solves(g) == g = [T \in SUBSET DOMAIN s |->
                               IF T = {} THEN Start ELSE ReadMessage(g[T \ {Max(T)}], s[Max(T)])]
           h == CHOOSE g : Solves(g)
<1>3. /\ F \in [Marks \X Messages -> Marks]
      /\ \A x \in Marks, y \in Messages : F[<<x, y>>] = ReadMessage(x, y)
  BY <1>1
<1> HIDE DEF F
<1>4. PICK g \in [SUBSET (1..Len(s)) -> Marks] : FoldsTo(g, F, Start, s, Len(s))
  BY <1>2, <1>3, FoldExists
<1>5. ASSUME NEW T \in SUBSET (1..Len(s)), T # {}
      PROVE  s[Max(T)] \in Messages
  BY <1>2, <1>5, MaxIsAnIndex
<1>6. Solves(g)
  <2>1. ASSUME NEW T \in SUBSET (1..Len(s)), T # {}
        PROVE  F[<<g[T \ {Max(T)}], s[Max(T)]>>] = ReadMessage(g[T \ {Max(T)}], s[Max(T)])
    BY <1>3, <1>5, <2>1
  <2> QED
    BY <1>2, <1>4, <2>1 DEF FoldsTo
<1>7. Solves(h) /\ FoldLeft(ReadMessage, Start, s) = h[DOMAIN s]
  BY <1>6 DEF FoldLeft, MapThenFoldSet
<1> HIDE DEF h
<1>8. SolvesFold(h, Marks, F, Start, s)
  BY <1>2, <1>3, <1>5, <1>7 DEF SolvesFold
<1> HIDE DEF Solves
<1>9. RunsTo(h[1..Len(s)], Marks, F, Start, s)
  BY <1>2, <1>3, <1>8, FoldEnds
<1>10. PICK run \in [0..Len(s) -> Marks] :
         /\ run[0] = Start /\ run[Len(s)] = h[1..Len(s)]
         /\ \A k \in 1..Len(s) : run[k - 1] \in Marks /\ run[k] = F[<<run[k - 1], s[k]>>]
  BY <1>9 DEF RunsTo
<1>11. \A k \in 1..Len(s) : s[k] \in Messages
  BY <1>2
<1>12. \A k \in 1..Len(s) : run[k] = ReadMessage(run[k - 1], s[k])
  BY <1>3, <1>10, <1>11
<1> QED
  BY <1>2, <1>7, <1>10, <1>12

(* A message that fits where these calls wait for their results.           *)
Fits(pending, m) ==
  \/ m.role = "user" /\ pending = {} /\ m.calls = <<>>
  \/ m.role = "assistant" /\ pending = {} /\ CallsProper(m)
  \/ m.role = "tool" /\ m.calls = <<>> /\ m.callId \in pending

LEMMA MessageRead ==
  ASSUME NEW state \in Marks, NEW m \in Messages
  PROVE  /\ ReadMessage(state, m).ok = (state.ok /\ Fits(state.pending, m))
         /\ ReadMessage(state, m).pending =
              IF m.role = "assistant" THEN IdsOf(m)
              ELSE IF m.role = "tool" THEN state.pending \ {m.callId} ELSE state.pending
<1>1. ReadMessage(state, m).ok = (state.ok /\ Fits(state.pending, m))
  BY DEF ReadMessage, Fits
<1>2. CASE m.role = "assistant"
  BY <1>1, <1>2 DEF ReadMessage
<1>3. CASE m.role = "tool"
  BY <1>1, <1>3 DEF ReadMessage
<1>4. CASE m.role # "assistant" /\ m.role # "tool"
  BY <1>1, <1>4 DEF ReadMessage
<1> QED
  BY <1>2, <1>3, <1>4

(* A message without calls is proper: there is nothing to pair.            *)
LEMMA NoCallsAreProper ==
  ASSUME NEW m, m.calls = <<>>
  PROVE  CallsProper(m) /\ IdsOf(m) = {}
<1>1. ToSet(m.calls) = {} /\ Len(m.calls) = 0
  BY DEF ToSet
<1>2. Cardinality({}) = 0
  BY FS_EmptySet
<1> QED
  BY <1>1, <1>2 DEF CallsProper, IdsOf

(* Message i and the results that follow it, up to k.                      *)
Round(s, i, k) ==
  /\ i \in 1..Len(s) /\ k \in i..Len(s)
  /\ s[i].role # "tool" /\ \A j \in i + 1..k : s[j].role = "tool"

Heard(s, i, k) == {s[j].callId : j \in i + 1..k}

LEMMA EveryMessageHasARound ==
  ASSUME NEW s \in Seq(Messages), NEW k \in 1..Len(s), s[1].role # "tool"
  PROVE  \E i \in 1..k : Round(s, i, k)
<1> DEFINE T == {i \in 1..k : s[i].role # "tool"}
<1>0. Len(s) \in Nat /\ k \in Nat /\ 1 \in T
  OBVIOUS
<1>1. Max(T) \in T /\ \A i \in T : i <= Max(T)
  <2>1. T \in SUBSET (1..k) /\ T # {}
    BY <1>0
  <2> HIDE DEF T
  <2> QED
    BY <1>0, <2>1, MaxOfSome
<1> DEFINE i == Max(T)
<1>2. i \in 1..k /\ s[i].role # "tool"
  BY <1>1
<1>3. ASSUME NEW j \in i + 1..k, s[j].role # "tool" PROVE FALSE
  <2>1. j \in T /\ j \in Int /\ i \in Int /\ ~ (j <= i)
    BY <1>2, <1>3
  <2> HIDE DEF T
  <2> QED
    BY <1>1, <2>1
<1> HIDE DEF i
<1>4. i \in 1..Len(s) /\ k \in i..Len(s)
  BY <1>0, <1>2
<1> QED
  BY <1>2, <1>3, <1>4 DEF Round

(* A round that cannot go on holds every result of its message.            *)
LEMMA RoundIsOver ==
  ASSUME NEW s \in Seq(Messages), NEW i, NEW k, Round(s, i, k),
         k # Len(s) => s[k + 1].role # "tool"
  PROVE  ResultsAfter(s, i) = i + 1..k
<1>0. i \in Nat /\ k \in Nat /\ Len(s) \in Nat /\ i <= k /\ k <= Len(s)
  BY DEF Round
<1>1. ASSUME NEW l \in i + 1..k
      PROVE  l \in ResultsAfter(s, i)
  <2>1. l \in i + 1..Len(s) /\ \A j \in i + 1..l : j \in i + 1..k
    BY <1>0
  <2> QED
    BY <2>1 DEF ResultsAfter, Round
<1>2. ASSUME NEW l \in ResultsAfter(s, i), l \notin i + 1..k
      PROVE  FALSE
  <2>1. l \in i + 1..Len(s) /\ \A j \in i + 1..l : s[j].role = "tool"
    BY DEF ResultsAfter
  <2>2. k + 1 \in i + 1..l /\ k # Len(s)
    BY <1>0, <1>2, <2>1
  <2> QED
    BY <2>1, <2>2
<1>3. ResultsAfter(s, i) \subseteq i + 1..k
  BY <1>2
<1>4. i + 1..k \subseteq ResultsAfter(s, i)
  BY <1>1
<1> QED
  BY <1>3, <1>4

LEMMA EveryRoundIsOver ==
  ASSUME NEW s \in Seq(Messages), NEW i \in 1..Len(s), s[i].role # "tool"
  PROVE  \E k \in i..Len(s) : Round(s, i, k) /\ (k # Len(s) => s[k + 1].role # "tool")
<1> DEFINE T == {k \in 1..Len(s) : k >= i /\ \A j \in i + 1..k : s[j].role = "tool"}
<1>0. Len(s) \in Nat /\ i \in Nat /\ i \in T
  OBVIOUS
<1>1. Max(T) \in T /\ \A k \in T : k <= Max(T)
  <2>1. T \in SUBSET (1..Len(s)) /\ T # {}
    BY <1>0
  <2> HIDE DEF T
  <2> QED
    BY <1>0, <2>1, MaxOfSome
<1>2. PICK k : k = Max(T)
  OBVIOUS
<1>3. /\ k \in i..Len(s) /\ k \in Nat
      /\ \A j \in i + 1..k : s[j].role = "tool"
  BY <1>0, <1>1, <1>2
<1>4. ASSUME k # Len(s), s[k + 1].role = "tool" PROVE FALSE
  <2>1. k + 1 \in 1..Len(s) /\ k + 1 >= i
    BY <1>0, <1>3, <1>4
  <2>2. ASSUME NEW j \in i + 1..k + 1 PROVE s[j].role = "tool"
    <3>1. j \in i + 1..k \/ j = k + 1
      BY <1>0, <1>3
    <3> QED
      BY <1>3, <1>4, <3>1
  <2>3. k + 1 \in T /\ ~ (k + 1 <= k)
    BY <1>3, <2>1, <2>2
  <2> HIDE DEF T
  <2> QED
    BY <1>1, <1>2, <2>3
<1> QED
  BY <1>3, <1>4 DEF Round

(* The ids of the results of a round are as many as the results exactly    *)
(* when no two results have the same.                                      *)
LEMMA ResultsCounted ==
  ASSUME NEW s \in Seq(Messages), NEW i \in Nat, NEW k \in Nat
  PROVE  /\ Cardinality(i + 1..k) \in Nat /\ IsFiniteSet(i + 1..k)
         /\ IsFiniteSet(Heard(s, i, k))
         /\ Cardinality(Heard(s, i, k)) = Cardinality(i + 1..k) <=>
              \A a, b \in i + 1..k : a # b => s[a].callId # s[b].callId
<1> DEFINE f == [j \in i + 1..k |-> s[j].callId]
<1>1. IsFiniteSet(i + 1..k) /\ Cardinality(i + 1..k) \in Nat
  <2>1. i + 1 \in Int /\ k \in Int
    OBVIOUS
  <2>2. IsFiniteSet(i + 1..k)
    BY <2>1, FS_Interval
  <2> QED
    BY <2>2, FS_CardinalityType
<1>2. f \in Surjection(i + 1..k, Heard(s, i, k))
  BY DEF Surjection, Heard
<1>3. f \in Injection(i + 1..k, Heard(s, i, k)) <=>
        \A a, b \in i + 1..k : a # b => s[a].callId # s[b].callId
  BY <1>2 DEF Injection, Surjection, IsInjective
<1> HIDE DEF f
<1> QED
  BY <1>1, <1>2, <1>3, FS_Surjection

(* While every message fits, the calls that wait are those of the round's  *)
(* message without the ones that were heard, each of them heard once.      *)
Waits(s, run, k) ==
  /\ k = 0 => run[k].pending = {}
  /\ \A i \in 1..Len(s) : Round(s, i, k) =>
       /\ run[k].pending = IdsOf(s[i]) \ Heard(s, i, k)
       /\ Heard(s, i, k) \subseteq IdsOf(s[i])
       /\ \A a, b \in i + 1..k : a # b => s[a].callId # s[b].callId

LEMMA WaitingIsKnown ==
  ASSUME NEW s \in Seq(Messages), NEW run \in [0..Len(s) -> Marks], run[0] = Start,
         NEW k \in 1..Len(s), run[k] = ReadMessage(run[k - 1], s[k]),
         Fits(run[k - 1].pending, s[k]), Waits(s, run, k - 1)
  PROVE  Waits(s, run, k)
<1>0. /\ Len(s) \in Nat /\ k \in Nat /\ k # 0 /\ k - 1 \in 0..Len(s)
      /\ s[k] \in Messages /\ run[k - 1] \in Marks
  OBVIOUS
<1> DEFINE before == run[k - 1].pending
<1>1. run[k].pending =
        IF s[k].role = "assistant" THEN IdsOf(s[k])
        ELSE IF s[k].role = "tool" THEN before \ {s[k].callId} ELSE before
  BY <1>0, MessageRead
<1> HIDE DEF before
<1> SUFFICES ASSUME NEW i \in 1..Len(s), Round(s, i, k)
             PROVE  /\ run[k].pending = IdsOf(s[i]) \ Heard(s, i, k)
                    /\ Heard(s, i, k) \subseteq IdsOf(s[i])
                    /\ \A a, b \in i + 1..k : a # b => s[a].callId # s[b].callId
  BY <1>0 DEF Waits
<1>2. i \in Nat /\ i <= k
  BY <1>0 DEF Round
<1>3. CASE i = k
  <2>1. i + 1..k = {} /\ Heard(s, i, k) = {}
    BY <1>0, <1>3 DEF Heard
  <2>2. s[k].role # "tool"
    BY <1>3 DEF Round
  <2>3. run[k].pending = IdsOf(s[k])
    <3>1. CASE s[k].role = "assistant"
      BY <1>1, <3>1
    <3>2. CASE s[k].role # "assistant"
      <4>1. before = {} /\ s[k].calls = <<>>
        BY <2>2, <3>2 DEF Fits, before
      <4> QED
        BY <1>1, <2>2, <3>2, <4>1, NoCallsAreProper
    <3> QED
      BY <3>1, <3>2
  <2> QED
    BY <1>3, <2>1, <2>3
<1>4. CASE i # k
  <2>1. k \in i + 1..k /\ s[k].role = "tool"
    BY <1>0, <1>2, <1>4 DEF Round
  <2>2. Round(s, i, k - 1)
    BY <1>0, <1>2, <1>4 DEF Round
  <2>3. /\ before = IdsOf(s[i]) \ Heard(s, i, k - 1)
        /\ Heard(s, i, k - 1) \subseteq IdsOf(s[i])
        /\ \A a, b \in i + 1..k - 1 : a # b => s[a].callId # s[b].callId
    BY <2>2 DEF Waits, before
  <2>4. s[k].callId \in before /\ run[k].pending = before \ {s[k].callId}
    BY <1>1, <2>1 DEF Fits, before
  <2>5. \A j \in i + 1..k : j \in i + 1..k - 1 \/ j = k
    BY <1>0, <1>2
  <2>6. \A j \in i + 1..k - 1 : j \in i + 1..k /\ s[j].callId # s[k].callId
    BY <1>0, <1>2, <2>3, <2>4 DEF Heard
  <2>7. Heard(s, i, k) = Heard(s, i, k - 1) \cup {s[k].callId}
    BY <2>1, <2>5, <2>6 DEF Heard
  <2>8. \A a, b \in i + 1..k : a # b => s[a].callId # s[b].callId
    BY <2>3, <2>5, <2>6
  <2> QED
    BY <2>3, <2>4, <2>7, <2>8
<1> QED
  BY <1>3, <1>4

(* A fitting conversation holds its rounds complete and in place.          *)
LEMMA ValidIsPaired ==
  ASSUME NEW s \in Seq(Messages), ValidTurn(s)
  PROVE  WellPaired(s)
<1>0. Len(s) \in 1..MaxMessages /\ Len(s) \in Nat
  BY DEF ValidTurn
<1>1. PICK run \in [0..Len(s) -> Marks] :
         /\ run[0] = Start
         /\ \A k \in 1..Len(s) : run[k] = ReadMessage(run[k - 1], s[k])
         /\ FoldLeft(ReadMessage, Start, s) = run[Len(s)]
  BY MessagesAreRead
<1>2. run[Len(s)] = Start
  BY <1>1 DEF ValidTurn
<1>3. ASSUME NEW k \in 1..Len(s)
      PROVE  /\ k \in 0..Len(s) /\ k - 1 \in 0..Len(s) /\ s[k] \in Messages
             /\ run[k].ok = (run[k - 1].ok /\ Fits(run[k - 1].pending, s[k]))
  <2>1. k \in 0..Len(s) /\ k - 1 \in 0..Len(s) /\ s[k] \in Messages
    BY <1>0
  <2>2. run[k - 1] \in Marks
    BY <2>1
  <2>3. ReadMessage(run[k - 1], s[k]).ok = (run[k - 1].ok /\ Fits(run[k - 1].pending, s[k]))
    BY ONLY <2>1, <2>2, MessageRead
  <2> QED
    BY <1>1, <2>1, <2>3
<1>4. \A k \in 0..Len(s) : run[k].ok = TRUE
  <2> DEFINE P == {d \in 0..Len(s) : run[Len(s) - d].ok = TRUE}
  <2>1. 0 \in P
    BY <1>0, <1>2 DEF Start
  <2>2. ASSUME NEW d \in 1..Len(s), d - 1 \in P
        PROVE  d \in P
    <3>1. Len(s) - d + 1 \in 1..Len(s) /\ Len(s) - (d - 1) = Len(s) - d + 1
          /\ (Len(s) - d + 1) - 1 = Len(s) - d /\ d \in 0..Len(s)
      BY <1>0
    <3>2. run[Len(s) - d + 1].ok = TRUE
      BY <2>2, <3>1
    <3>3. run[Len(s) - d] \in Marks
      BY <1>0
    <3>4. run[Len(s) - d].ok \in BOOLEAN
      BY <3>3 DEF Marks
    <3>5. run[Len(s) - d + 1].ok =
            (run[Len(s) - d].ok /\ Fits(run[Len(s) - d].pending, s[Len(s) - d + 1]))
      BY <1>3, <3>1
    <3>6. run[Len(s) - d].ok = TRUE
      BY <3>2, <3>4, <3>5
    <3> QED
      BY <3>1, <3>6
  <2> HIDE DEF P
  <2>3. 0..Len(s) \subseteq P
    BY <1>0, <2>1, <2>2, AlongTheRun
  <2>4. ASSUME NEW k \in 0..Len(s)
        PROVE  Len(s) - k \in 0..Len(s) /\ Len(s) - (Len(s) - k) = k
    BY <1>0
  <2> QED
    BY <2>3, <2>4 DEF P
<1>5. \A k \in 1..Len(s) : Fits(run[k - 1].pending, s[k])
  BY <1>3, <1>4
<1>6. \A k \in 0..Len(s) : Waits(s, run, k)
  <2> DEFINE P == {k \in 0..Len(s) : Waits(s, run, k)}
  <2>1. 0 \in P
    <3>1. run[0].pending = {} /\ 0 \in 0..Len(s)
      BY <1>0, <1>1 DEF Start
    <3>2. \A i \in 1..Len(s) : ~ Round(s, i, 0)
      BY <1>0 DEF Round
    <3> QED
      BY <3>1, <3>2 DEF Waits
  <2>2. \A k \in 1..Len(s) : k - 1 \in P => k \in P
    BY <1>1, <1>3, <1>5, WaitingIsKnown
  <2> HIDE DEF P
  <2>3. 0..Len(s) \subseteq P
    BY <1>0, <2>1, <2>2, AlongTheRun
  <2> QED
    BY <2>3 DEF P
<1>7. s[1].role # "tool"
  <2>1. Fits(run[0].pending, s[1]) /\ run[0].pending = {}
    <3>1. 1 \in 1..Len(s) /\ 1 - 1 = 0
      BY <1>0
    <3>2. Fits(run[1 - 1].pending, s[1])
      BY <1>5, <3>1
    <3> QED
      BY <1>1, <3>1, <3>2 DEF Start
  <2> QED
    BY <2>1 DEF Fits
<1>8. ASSUME NEW i \in 1..Len(s)
      PROVE  /\ s[i].role \in {"user", "assistant", "tool"}
             /\ s[i].role # "assistant" => s[i].calls = <<>>
  BY <1>5 DEF Fits
<1>9. ASSUME NEW i \in 1..Len(s), s[i].role # "tool"
      PROVE  /\ CallsProper(s[i])
             /\ {s[k].callId : k \in ResultsAfter(s, i)} = IdsOf(s[i])
             /\ Cardinality(ResultsAfter(s, i)) = Len(s[i].calls)
  <2>1. CallsProper(s[i])
    BY <1>5, <1>9, NoCallsAreProper DEF Fits
  <2>2. PICK k \in i..Len(s) : Round(s, i, k) /\ (k # Len(s) => s[k + 1].role # "tool")
    BY <1>9, EveryRoundIsOver
  <2>3. ResultsAfter(s, i) = i + 1..k /\ i \in Nat /\ k \in Nat
    BY <1>0, <2>2, RoundIsOver
  <2>4. run[k].pending = {}
    <3>1. CASE k = Len(s)
      BY <1>2, <3>1 DEF Start
    <3>2. CASE k # Len(s)
      <4>1. k + 1 \in 1..Len(s) /\ (k + 1) - 1 = k
        BY <1>0, <2>2, <2>3, <3>2
      <4>2. Fits(run[k].pending, s[k + 1])
        BY <1>5, <4>1
      <4> QED
        BY <2>2, <3>2, <4>2 DEF Fits
    <3> QED
      BY <3>1, <3>2
  <2>5. /\ run[k].pending = IdsOf(s[i]) \ Heard(s, i, k)
        /\ Heard(s, i, k) \subseteq IdsOf(s[i])
        /\ \A a, b \in i + 1..k : a # b => s[a].callId # s[b].callId
    <3>1. k \in 0..Len(s)
      BY <1>0, <2>2
    <3>2. Waits(s, run, k)
      BY <1>6, <3>1
    <3> QED
      BY <2>2, <3>2 DEF Waits
  <2>6. Heard(s, i, k) = IdsOf(s[i])
    BY <2>4, <2>5
  <2>7. Cardinality(Heard(s, i, k)) = Cardinality(i + 1..k)
    BY <2>3, <2>5, ResultsCounted
  <2> QED
    BY <2>1, <2>3, <2>6, <2>7 DEF Heard, CallsProper
<1> QED
  <2>1. DOMAIN s = 1..Len(s)
    OBVIOUS
  <2>2. \A i \in DOMAIN s : s[i].role # "tool" =>
          /\ CallsProper(s[i])
          /\ {s[k].callId : k \in ResultsAfter(s, i)} = IdsOf(s[i])
          /\ Cardinality(ResultsAfter(s, i)) = Len(s[i].calls)
    BY <1>9, <2>1
  <2>3. \A i \in DOMAIN s : /\ s[i].role \in {"user", "assistant", "tool"}
                            /\ s[i].role # "assistant" => s[i].calls = <<>>
    BY <1>8, <2>1
  <2> QED
    BY <1>0, <1>7, <2>2, <2>3 DEF WellPaired

(* A conversation whose rounds are complete and in place fits throughout.  *)
LEMMA PairedIsValid ==
  ASSUME NEW s \in Seq(Messages), WellPaired(s)
  PROVE  ValidTurn(s)
<1>0. Len(s) \in 1..MaxMessages /\ Len(s) \in Nat /\ Len(s) # 0 /\ s[1].role # "tool"
  BY TranscriptAssumption DEF WellPaired
<1>1. PICK run \in [0..Len(s) -> Marks] :
         /\ run[0] = Start
         /\ \A k \in 1..Len(s) : run[k] = ReadMessage(run[k - 1], s[k])
         /\ FoldLeft(ReadMessage, Start, s) = run[Len(s)]
  BY MessagesAreRead
<1>2. ASSUME NEW i \in 1..Len(s)
      PROVE  /\ s[i].role \in {"user", "assistant", "tool"}
             /\ s[i].role # "assistant" => s[i].calls = <<>>
             /\ s[i].role # "tool" =>
                  /\ CallsProper(s[i])
                  /\ {s[k].callId : k \in ResultsAfter(s, i)} = IdsOf(s[i])
                  /\ Cardinality(ResultsAfter(s, i)) = Len(s[i].calls)
  <2>1. i \in DOMAIN s
    OBVIOUS
  <2> QED
    BY <2>1 DEF WellPaired
<1>3. ASSUME NEW i, NEW k, Round(s, i, k), k # Len(s) => s[k + 1].role # "tool"
      PROVE  Heard(s, i, k) = IdsOf(s[i])
  <2>1. i \in 1..Len(s) /\ s[i].role # "tool"
    BY <1>3 DEF Round
  <2>2. ResultsAfter(s, i) = i + 1..k
    BY <1>3, RoundIsOver
  <2> QED
    BY <1>2, <2>1, <2>2 DEF Heard
<1>4. ASSUME NEW i, NEW k, Round(s, i, k), k # Len(s), s[k + 1].role = "tool"
      PROVE  /\ s[k + 1].callId \in IdsOf(s[i])
             /\ s[k + 1].callId \notin Heard(s, i, k)
  <2>1. i \in 1..Len(s) /\ s[i].role # "tool" /\ i \in Nat /\ k \in Nat /\ i <= k /\ k < Len(s)
    BY <1>0, <1>4 DEF Round
  <2>2. PICK l \in i..Len(s) : Round(s, i, l) /\ (l # Len(s) => s[l + 1].role # "tool")
    BY <2>1, EveryRoundIsOver
  <2>3. l \in Nat /\ l <= Len(s)
    BY <1>0, <2>1, <2>2
  <2>4. k + 1 \in i + 1..l
    <3> SUFFICES ASSUME ~ (k + 1 <= l) PROVE FALSE
      BY <2>1, <2>3
    <3>1. l # Len(s) /\ (l = k \/ l + 1 \in i + 1..k)
      BY <1>0, <2>1, <2>2, <2>3
    <3>2. s[l + 1].role # "tool"
      BY <2>2, <3>1
    <3>3. CASE l = k
      BY <1>4, <3>2, <3>3
    <3>4. CASE l + 1 \in i + 1..k
      BY <1>4, <3>2, <3>4 DEF Round
    <3> QED
      BY <3>1, <3>3, <3>4
  <2>5. ResultsAfter(s, i) = i + 1..l
    BY <2>2, RoundIsOver
  <2>6. /\ Heard(s, i, l) = IdsOf(s[i])
        /\ Cardinality(i + 1..l) = Cardinality(IdsOf(s[i]))
    BY <1>2, <2>1, <2>5 DEF Heard, CallsProper
  <2>7. \A a, b \in i + 1..l : a # b => s[a].callId # s[b].callId
    BY <2>1, <2>3, <2>6, ResultsCounted
  <2>8. \A j \in i + 1..k : j \in i + 1..l /\ j # k + 1
    BY <2>1, <2>3, <2>4
  <2> QED
    BY <2>4, <2>6, <2>7, <2>8 DEF Heard
<1> DEFINE P == {k \in 0..Len(s) : run[k].ok = TRUE /\ Waits(s, run, k)}
<1>5. 0 \in P
  <2>1. run[0].pending = {} /\ run[0].ok = TRUE /\ 0 \in 0..Len(s)
    BY <1>0, <1>1 DEF Start
  <2>2. \A i \in 1..Len(s) : ~ Round(s, i, 0)
    BY <1>0 DEF Round
  <2> QED
    BY <2>1, <2>2 DEF Waits
<1>6. ASSUME NEW k \in 0..Len(s), Waits(s, run, k),
             k # Len(s) => s[k + 1].role # "tool"
      PROVE  run[k].pending = {}
  <2>1. CASE k = 0
    BY <1>6, <2>1 DEF Waits
  <2>2. CASE k # 0
    <3>1. k \in 1..Len(s)
      BY <2>2
    <3>2. PICK i \in 1..k : Round(s, i, k)
      BY <1>0, <3>1, EveryMessageHasARound
    <3>3. Heard(s, i, k) = IdsOf(s[i]) /\ i \in 1..Len(s)
      BY <1>3, <1>6, <3>2 DEF Round
    <3> QED
      BY <1>6, <3>2, <3>3 DEF Waits
  <2> QED
    BY <2>1, <2>2
<1>7. ASSUME NEW k \in 1..Len(s), k - 1 \in P
      PROVE  k \in P
  <2>0. /\ k \in 0..Len(s) /\ k - 1 \in 0..Len(s) /\ s[k] \in Messages /\ k \in Nat
        /\ (k - 1) + 1 = k /\ k - 1 # Len(s) /\ run[k - 1] \in Marks
    BY <1>0
  <2>1. run[k - 1].ok = TRUE /\ Waits(s, run, k - 1)
    BY <1>7
  <2>2. Fits(run[k - 1].pending, s[k])
    <3>1. CASE s[k].role # "tool"
      <4>1. run[k - 1].pending = {}
        <5>1. s[(k - 1) + 1].role # "tool"
          BY <2>0, <3>1
        <5> HIDE DEF P
        <5> QED
          BY <1>6, <2>0, <2>1, <5>1
      <4> QED
        BY <1>2, <3>1, <4>1 DEF Fits
    <3>2. CASE s[k].role = "tool"
      <4>1. k - 1 \in 1..Len(s)
        BY <1>0, <2>0, <3>2
      <4>2. PICK i \in 1..k - 1 : Round(s, i, k - 1)
        BY <1>0, <4>1, EveryMessageHasARound
      <4>3. s[(k - 1) + 1].role = "tool"
        BY <2>0, <3>2
      <4>4. s[k].callId \in IdsOf(s[i]) /\ s[k].callId \notin Heard(s, i, k - 1)
        BY <1>4, <2>0, <4>2, <4>3
      <4>5. i \in 1..Len(s)
        BY <4>2 DEF Round
      <4>6. s[k].callId \in run[k - 1].pending
        BY <2>1, <4>2, <4>4, <4>5 DEF Waits
      <4>7. s[k].calls = <<>>
        BY <1>2, <3>2
      <4> QED
        BY <3>2, <4>6, <4>7 DEF Fits
    <3> QED
      BY <3>1, <3>2
  <2>3. run[k].ok = TRUE
    <3>1. ReadMessage(run[k - 1], s[k]).ok = (run[k - 1].ok /\ Fits(run[k - 1].pending, s[k]))
      BY ONLY <2>0, MessageRead
    <3> QED
      BY <1>1, <2>1, <2>2, <3>1
  <2>4. Waits(s, run, k)
    BY <1>1, <2>1, <2>2, WaitingIsKnown
  <2> QED
    BY <2>0, <2>3, <2>4
<1> HIDE DEF P
<1>8. 0..Len(s) \subseteq P
  BY <1>0, <1>5, <1>7, AlongTheRun
<1>9. /\ Len(s) \in 0..Len(s) /\ run[Len(s)] \in Marks
      /\ run[Len(s)].ok = TRUE /\ Waits(s, run, Len(s))
  BY <1>0, <1>8 DEF P
<1>10. run[Len(s)].pending = {}
  BY <1>6, <1>9
<1>11. run[Len(s)] = Start
  BY <1>9, <1>10 DEF Start, Marks
<1> QED
  BY <1>0, <1>1, <1>11 DEF ValidTurn

(* validate_turn, which reads a transcript once and keeps nothing but the  *)
(* calls that wait, accepts exactly the conversations in which every call  *)
(* has its one result in its place, whatever is in them (README: "with     *)
(* matched call/result pairs").                                            *)
THEOREM ValidMeansPaired ==
  ASSUME NEW s \in Seq(Messages)
  PROVE  ValidTurn(s) <=> WellPaired(s)
<1>1. ValidTurn(s) => WellPaired(s)
  BY ValidIsPaired
<1>2. WellPaired(s) => ValidTurn(s)
  BY PairedIsValid
<1> QED
  BY <1>1, <1>2

(***************************************************************************)
(* What sequences of parts say: FlattenSeq is the end of a run, too.       *)
(***************************************************************************)
LEMMA FlattenRuns ==
  ASSUME NEW S, NEW s \in Seq(Seq(S))
  PROVE  \E run \in [0..Len(s) -> Seq(S)] :
           /\ run[0] = <<>>
           /\ \A k \in 1..Len(s) : run[k] = run[k - 1] \o s[k]
           /\ FlattenSeq(s) = run[Len(s)]
<1> DEFINE F == [p \in Seq(S) \X Seq(S) |-> p[1] \o p[2]]
<1>0. /\ Len(s) \in Nat /\ DOMAIN s = 1..Len(s) /\ <<>> \in Seq(S)
      /\ \A k \in 1..Len(s) : s[k] \in Seq(S)
  BY EmptySeq
<1>1. /\ F \in [Seq(S) \X Seq(S) -> Seq(S)]
      /\ \A x, y \in Seq(S) : F[<<x, y>>] = x \o y
  BY ConcatProperties
<1> HIDE DEF F
<1>2. PICK g \in [SUBSET (1..Len(s)) -> Seq(S)] : FoldsTo(g, F, <<>>, s, Len(s))
  BY <1>0, <1>1, FoldExists
<1>3. SolvesFold(g, Seq(S), F, <<>>, s)
  BY <1>2 DEF FoldsTo, SolvesFold
<1>4. RunsTo(g[1..Len(s)], Seq(S), F, <<>>, s)
  BY <1>0, <1>1, <1>3, FoldEnds
<1>5. PICK run \in [0..Len(s) -> Seq(S)] :
         /\ run[0] = <<>>
         /\ \A k \in 1..Len(s) : run[k - 1] \in Seq(S) /\ run[k] = F[<<run[k - 1], s[k]>>]
  BY <1>4 DEF RunsTo
<1>6. \A k \in 1..Len(s) : run[k] = run[k - 1] \o s[k]
  BY <1>0, <1>1, <1>5
<1>7. CASE Len(s) = 0
  <2>1. s = <<>>
    BY <1>7, EmptySeq
  <2>2. FlattenSeq(s) = s
    BY <1>7 DEF FlattenSeq
  <2> QED
    BY <1>5, <1>6, <1>7, <2>1, <2>2
<1>8. CASE Len(s) # 0
  <2> DEFINE Solves(f) == f = [i \in 1..Len(s) |-> IF i = 1 THEN s[i] ELSE f[i - 1] \o s[i]]
             h == CHOOSE f : Solves(f)
             f0 == [i \in 1..Len(s) |-> run[i]]
  <2>1. Solves(f0)
    <3>1. ASSUME NEW i \in 1..Len(s)
          PROVE  run[i] = IF i = 1 THEN s[i] ELSE f0[i - 1] \o s[i]
      <4>1. CASE i = 1
        <5>1. 1 - 1 = 0 /\ s[1] \in Seq(S)
          BY <1>0, <4>1
        <5>2. run[1] = <<>> \o s[1]
          BY <1>5, <1>6, <4>1, <5>1
        <5>3. <<>> \o s[1] = s[1]
          BY <5>1, ConcatEmptySeq
        <5> QED
          BY <4>1, <5>2, <5>3
      <4>2. CASE i # 1
        <5>1. i - 1 \in 1..Len(s)
          BY <1>0, <4>2
        <5> QED
          BY <1>6, <4>2, <5>1
      <4> QED
        BY <4>1, <4>2
    <3>2. \A i \in 1..Len(s) : f0[i] = run[i]
      OBVIOUS
    <3> QED
      BY <3>1
  <2>2. Solves(h) /\ FlattenSeq(s) = h[Len(s)]
    BY <1>8, <2>1 DEF FlattenSeq
  <2> HIDE DEF h, f0
  <2> DEFINE P == {k \in 0..Len(s) : k = 0 \/ h[k] = run[k]}
  <2>3. 0 \in P
    BY <1>0
  <2>4. ASSUME NEW k \in 1..Len(s), k - 1 \in P
        PROVE  k \in P
    <3>1. k \in 0..Len(s) /\ h[k] = IF k = 1 THEN s[k] ELSE h[k - 1] \o s[k]
      <4>1. k \in 0..Len(s)
        BY <1>0
      <4>2. h = [i \in 1..Len(s) |-> IF i = 1 THEN s[i] ELSE h[i - 1] \o s[i]]
        BY <2>2
      <4>3. h[k] = [i \in 1..Len(s) |-> IF i = 1 THEN s[i] ELSE h[i - 1] \o s[i]][k]
        BY ONLY <4>2
      <4> QED
        BY ONLY <4>1, <4>3, k \in 1..Len(s)
    <3>2. CASE k = 1
      <4>1. run[1] = <<>> \o s[1] /\ s[1] \in Seq(S)
        <5>1. 1 - 1 = 0 /\ s[1] \in Seq(S)
          BY <1>0, <3>2
        <5> QED
          BY <1>5, <1>6, <3>2, <5>1
      <4>2. <<>> \o s[1] = s[1]
        BY <4>1, ConcatEmptySeq
      <4> QED
        BY <3>1, <3>2, <4>1, <4>2
    <3>3. CASE k # 1
      <4>1. k - 1 # 0
        BY <1>0, <3>3
      <4>2. h[k - 1] = run[k - 1]
        BY <2>4, <4>1
      <4> QED
        BY <1>6, <3>1, <3>3, <4>2
    <3> QED
      BY <3>2, <3>3
  <2> HIDE DEF P
  <2>5. 0..Len(s) \subseteq P
    BY <1>0, <2>3, <2>4, AlongTheRun
  <2>6. h[Len(s)] = run[Len(s)]
    <3>1. Len(s) \in P
      BY <1>0, <2>5
    <3> QED
      BY <1>8, <3>1 DEF P
  <2> QED
    BY <1>5, <1>6, <2>2, <2>6
<1> QED
  BY <1>7, <1>8

(* One element more.                                                       *)
OneMore(w, v, e, n) ==
  /\ Len(w) = n + 1 /\ DOMAIN w = 1..n + 1
  /\ w[n + 1] = e /\ \A k \in 1..n : w[k] = v[k]

LEMMA Appended ==
  ASSUME NEW S, NEW v \in Seq(S), NEW e \in S, NEW n \in Nat, n = Len(v)
  PROVE  Append(v, e) \in Seq(S) /\ OneMore(Append(v, e), v, e, n)
<1>1. PICK w \in Seq(S) : w = Append(v, e)
  BY AppendProperties
<1>2. /\ Len(w) = n + 1 /\ w[n + 1] = e
      /\ \A k \in 1..n : w[k] = v[k]
  <2>1. /\ Len(w) = Len(v) + 1 /\ w[Len(v) + 1] = e
        /\ \A k \in 1..Len(v) : w[k] = v[k]
    BY ONLY v \in Seq(S), e \in S, <1>1, AppendProperties
  <2> QED
    BY <2>1
<1>3. DOMAIN w = 1..n + 1
  BY <1>2
<1>4. OneMore(w, v, e, n)
  BY <1>2, <1>3 DEF OneMore
<1> QED
  BY ONLY <1>1, <1>4

LEMMA FlattenNext ==
  ASSUME NEW S, NEW s \in Seq(Seq(S)), NEW e \in Seq(S)
  PROVE  FlattenSeq(s) \in Seq(S) /\ FlattenSeq(Append(s, e)) = FlattenSeq(s) \o e
<1>1. PICK n \in Nat : n = Len(s)
  OBVIOUS
<1>2. PICK t \in Seq(Seq(S)) : t = Append(s, e) /\ OneMore(t, s, e, n)
  BY <1>1, Appended
<1>3. PICK r \in [0..n -> Seq(S)] :
         /\ r[0] = <<>> /\ \A k \in 1..n : r[k] = r[k - 1] \o s[k]
         /\ FlattenSeq(s) = r[n]
  BY <1>1, FlattenRuns
<1>4. PICK q \in [0..n + 1 -> Seq(S)] :
         /\ q[0] = <<>> /\ \A k \in 1..n + 1 : q[k] = q[k - 1] \o t[k]
         /\ FlattenSeq(t) = q[n + 1]
  <2>1. \E q \in [0..Len(t) -> Seq(S)] :
          /\ q[0] = <<>> /\ \A k \in 1..Len(t) : q[k] = q[k - 1] \o t[k]
          /\ FlattenSeq(t) = q[Len(t)]
    BY FlattenRuns
  <2> QED
    BY <1>2, <2>1 DEF OneMore
<1> DEFINE P == {k \in 0..n : q[k] = r[k]}
<1>5. 0 \in P
  BY <1>3, <1>4
<1>6. ASSUME NEW k \in 1..n, k - 1 \in P
      PROVE  k \in P
  <2>1. k \in 0..n /\ k \in 1..n + 1 /\ q[k - 1] = r[k - 1]
    BY <1>6
  <2> QED
    BY <1>2, <1>3, <1>4, <2>1 DEF OneMore
<1> HIDE DEF P
<1>7. 0..n \subseteq P
  BY <1>5, <1>6, AlongTheRun
<1>8. q[n] = r[n]
  <2>1. n \in 0..n
    OBVIOUS
  <2> QED
    BY <1>7, <2>1 DEF P
<1>9. q[n + 1] = q[n] \o e
  <2>1. n + 1 \in 1..n + 1 /\ n + 1 - 1 = n
    OBVIOUS
  <2>2. PICK m : m = n + 1
    OBVIOUS
  <2>3. q[m] = q[m - 1] \o t[m]
    BY <1>4, <2>1, <2>2
  <2>4. m - 1 = n /\ t[m] = e
    BY <1>2, <2>2 DEF OneMore
  <2> QED
    BY <2>2, <2>3, <2>4
<1>10. FlattenSeq(s) \in Seq(S)
  <2>1. n \in 0..n
    OBVIOUS
  <2> QED
    BY <1>3, <2>1
<1> QED
  BY <1>2, <1>3, <1>4, <1>8, <1>9, <1>10

(* G gives each line what it says.                                         *)
Spoken(G, v) == FlattenSeq([n \in DOMAIN v |-> G[v[n]]])

LEMMA SpokenNext ==
  ASSUME NEW G \in [Lines -> Seq(Parts)], NEW v \in Seq(Lines), NEW l \in Lines
  PROVE  Spoken(G, v) \in Seq(Parts) /\ Spoken(G, Append(v, l)) = Spoken(G, v) \o G[l]
<1>1. PICK n \in Nat : n = Len(v) /\ DOMAIN v = 1..n
  OBVIOUS
<1>2. PICK w \in Seq(Lines) : w = Append(v, l) /\ OneMore(w, v, l, n)
  BY <1>1, Appended
<1>3. PICK s \in Seq(Seq(Parts)) :
         /\ s = [k \in DOMAIN v |-> G[v[k]]] /\ Len(s) = n /\ \A k \in 1..n : s[k] = G[v[k]]
  <2> DEFINE s == [k \in DOMAIN v |-> G[v[k]]]
  <2>1. s \in [1..n -> Seq(Parts)]
    BY <1>1
  <2>2. s \in Seq(Seq(Parts)) /\ Len(s) = n /\ \A k \in 1..n : s[k] = G[v[k]]
    BY <1>1, <2>1
  <2> HIDE DEF s
  <2>3. s = [k \in DOMAIN v |-> G[v[k]]]
    BY DEF s
  <2> QED
    BY <2>2, <2>3
<1>4. [k \in DOMAIN w |-> G[w[k]]] = Append(s, G[l])
  <2> DEFINE t == [k \in DOMAIN w |-> G[w[k]]]
  <2>1. t \in [1..n + 1 -> Seq(Parts)] /\ \A k \in 1..n + 1 : t[k] = G[w[k]]
    <3>1. DOMAIN w = 1..n + 1 /\ Len(w) = n + 1
      BY <1>2 DEF OneMore
    <3>2. \A k \in 1..n + 1 : G[w[k]] \in Seq(Parts)
      BY <3>1
    <3> QED
      BY <3>1, <3>2
  <2>2. t \in Seq(Seq(Parts)) /\ Len(t) = n + 1
    BY <2>1
  <2>3. G[l] \in Seq(Parts)
    OBVIOUS
  <2>4. PICK q \in Seq(Seq(Parts)) : q = Append(s, G[l]) /\ OneMore(q, s, G[l], n)
    BY <1>3, <2>3, Appended
  <2> HIDE DEF t
  <2>5. \A k \in 1..n + 1 : t[k] = q[k]
    <3>1. \A k \in 1..n + 1 : k \in 1..n \/ k = n + 1
      OBVIOUS
    <3>2. \A k \in 1..n : t[k] = q[k]
      BY <1>2, <1>3, <2>1, <2>4, <3>1 DEF OneMore
    <3>3. t[n + 1] = q[n + 1]
      BY <1>2, <2>1, <2>4 DEF OneMore
    <3> QED
      BY <3>1, <3>2, <3>3
  <2>6. t = q
    BY <2>2, <2>4, <2>5, SeqEqual DEF OneMore
  <2> QED
    BY <2>4, <2>6 DEF t
<1>5. FlattenSeq(s) \in Seq(Parts) /\ FlattenSeq(Append(s, G[l])) = FlattenSeq(s) \o G[l]
  BY FlattenNext
<1>6. Spoken(G, v) = FlattenSeq(s) /\ Spoken(G, Append(v, l)) = FlattenSeq(Append(s, G[l]))
  BY <1>2, <1>3, <1>4 DEF Spoken
<1> QED
  BY ONLY <1>5, <1>6

(***************************************************************************)
(* Charges.                                                                *)
(***************************************************************************)
LEMMA Division ==
  ASSUME NEW n \in Nat, NEW d \in Nat \ {0}
  PROVE  /\ n \div d \in Nat /\ n \div d <= n
         /\ d * (n \div d) <= n /\ n < d * (n \div d) + d
<1>1. /\ n = d * (n \div d) + (n % d) /\ n % d \in 0..d - 1 /\ n \div d \in Int
  OBVIOUS
<1> DEFINE q == n \div d
           r == n % d
<1>2. n = d * q + r /\ r \in Int /\ 0 <= r /\ r < d /\ q \in Int
  BY <1>1
<1> HIDE DEF q, r
<1>3. q >= 0
  <2> SUFFICES ASSUME q <= -1 PROVE FALSE
    BY <1>2
  <2>1. d * q <= -d
    BY <1>2
  <2> QED
    BY <1>2, <2>1
<1>4. d * q >= q
  BY <1>2, <1>3
<1> QED
  BY <1>2, <1>3, <1>4 DEF q

(* The quotient of a sum that was rounded up.                              *)
LEMMA RoundedUp ==
  ASSUME NEW x \in Nat
  PROVE  LET bill == Quotient(x + Million - 1)
         IN bill \in Nat /\ (bill - 1) * Million < x /\ x <= bill * Million
<1> DEFINE n == x + Million - 1
           q == n \div Million
<1>1. n \in Nat /\ Million \in Nat \ {0} /\ n = x + Million - 1
  BY ChargesAssumption
<1> HIDE DEF n
<1>2. q \in Nat /\ Million * q <= n /\ n < Million * q + Million
  BY <1>1, Division
<1>3. Quotient(n) = q
  BY <1>1 DEF Quotient
<1> HIDE DEF q
<1>4. (q - 1) * Million = Million * q - Million /\ q * Million = Million * q /\ Million * q \in Int
  BY <1>1, <1>2
<1>5. (q - 1) * Million < x /\ x <= q * Million
  BY <1>1, <1>2, <1>4
<1> QED
  BY <1>2, <1>3, <1>5 DEF n

LEMMA QuotientIsMonotonic ==
  ASSUME NEW x \in Int, NEW y \in Nat, x <= y
  PROVE  Quotient(x) <= Quotient(y) /\ Quotient(x) \in Int /\ Quotient(y) \in Nat
<1>0. Million \in Nat \ {0}
  BY ChargesAssumption
<1> DEFINE q == y \div Million
<1>1. q \in Nat /\ Million * q <= y /\ y < Million * q + Million
  BY <1>0, Division
<1>2. Quotient(y) = q
  BY DEF Quotient
<1> HIDE DEF q
<1>3. CASE x >= 0
  <2> DEFINE p == x \div Million
  <2>1. p \in Nat /\ Million * p <= x /\ x < Million * p + Million
    BY <1>0, <1>3, Division
  <2>2. Quotient(x) = p
    BY <1>3 DEF Quotient
  <2> HIDE DEF p
  <2>3. p <= q
    <3> SUFFICES ASSUME p >= q + 1 PROVE FALSE
      BY <1>1, <2>1
    <3>1. Million * p >= Million * q + Million
      BY <1>0, <1>1, <2>1
    <3>2. Million * p \in Int /\ Million * q \in Int
      BY <1>0, <1>1, <2>1
    <3> QED
      BY <1>0, <1>1, <2>1, <3>1, <3>2
  <2> QED
    BY <1>1, <1>2, <2>1, <2>2, <2>3
<1>4. CASE x < 0
  <2>1. (-x) \div Million \in Nat
    BY <1>0, <1>4, Division
  <2>2. Quotient(x) = -((-x) \div Million)
    BY <1>4 DEF Quotient
  <2> QED
    BY <1>1, <1>2, <2>1, <2>2
<1> QED
  BY <1>3, <1>4

LEMMA QuotientFits ==
  ASSUME NEW n \in I64
  PROVE  Quotient(n) \in I64
<1>0. Million \in Nat \ {0} /\ MaxInt \in Nat /\ n \in Int
  BY ChargesAssumption DEF I64
<1>1. CASE n >= 0
  <2>1. n \div Million \in Nat /\ n \div Million <= n
    BY <1>0, <1>1, Division
  <2> QED
    BY <1>0, <1>1, <2>1 DEF Quotient, I64
<1>2. CASE n < 0
  <2>1. (-n) \div Million \in Nat /\ (-n) \div Million <= -n
    BY <1>0, <1>2, Division
  <2> QED
    BY <1>0, <1>2, <2>1 DEF Quotient, I64
<1> QED
  BY <1>0, <1>1, <1>2

Counts == {o \in Seq(Int) : Len(o) <= 1}

LEMMA CountsAreThereOrNot ==
  ASSUME NEW o \in Counts
  PROVE  OrZero(o) \in Int /\ (o # None => o[1] \in Int)
<1>1. o # None => o[1] \in Int
  <2> SUFFICES ASSUME o # None PROVE o[1] \in Int
    OBVIOUS
  <2>1. o \in Seq(Int) /\ Len(o) \in Nat \ {0}
    BY EmptySeq DEF Counts, None
  <2> QED
    BY <2>1
<1> QED
  BY <1>1 DEF OrZero

LEMMA PricesFit ==
  ASSUME NEW m, NEW input \in Int, NEW output \in Int, m.inputPrice \in Int, m.outputPrice \in Int
  PROVE  LET x == input * m.inputPrice + output * m.outputPrice
         IN /\ x \in Int
            /\ PerMillion(input, output, m) # None =>
                 /\ PerMillion(input, output, m) = Some(Quotient(x + Million - 1))
                 /\ Quotient(x + Million - 1) \in I64
<1> DEFINE i == input * m.inputPrice
           o == output * m.outputPrice
<1>1. i \in Int /\ o \in Int /\ i + o \in Int
  OBVIOUS
<1>2. PerMillion(input, output, m) =
        IF {i, o, i + o, i + o + Million - 1} \subseteq I64
        THEN Some(Quotient(i + o + Million - 1)) ELSE None
  BY DEF PerMillion
<1> HIDE DEF i, o
<1>3. PerMillion(input, output, m) # None =>
        /\ PerMillion(input, output, m) = Some(Quotient(i + o + Million - 1))
        /\ i + o + Million - 1 \in I64
  BY <1>2
<1>4. PerMillion(input, output, m) # None => Quotient(i + o + Million - 1) \in I64
  BY <1>3, QuotientFits
<1> QED
  BY <1>1, <1>3, <1>4 DEF i, o

Priced(m) ==
  /\ m.inputPrice \in Nat /\ m.outputPrice \in Nat /\ m.maxInput \in Nat /\ m.maxOutput \in Nat
  /\ Reservation(m) # None

(* A bill is a 64-bit number of micros, and never less than nothing unless *)
(* the provider took tokens back.                                          *)
LEMMA ChargesFit ==
  ASSUME NEW m, NEW u, Priced(m), IsUsage(u)
  PROVE  UsageCharge(m, u) \in Charged
<1>1. /\ u.cost \in Counts /\ u.input \in Counts /\ u.output \in Counts
      /\ u.written \in Counts /\ u.read \in Counts
  BY DEF IsUsage, Counts
<1>2. CASE Costed(m, u)
  <2>1. u.cost[1] \in Int /\ u.cost[1] >= 0 /\ u.cost[1] < MostCost
    BY <1>1, <1>2, CountsAreThereOrNot DEF Costed
  <2>2. (u.cost[1] + 1) \div 2 \in I64
    BY <2>1, ChargesAssumption DEF I64
  <2> QED
    BY <1>2, <2>2 DEF UsageCharge, Charged
<1>3. CASE ~ Costed(m, u) /\ ~ Counted(u)
  BY <1>3 DEF UsageCharge, Charged
<1>4. CASE ~ Costed(m, u) /\ Counted(u)
  <2> DEFINE written == u.input[1] + OrZero(u.written)
             input == written + OrZero(u.read)
  <2>1. /\ u.input[1] \in Int /\ u.output[1] \in Int
        /\ OrZero(u.written) \in Int /\ OrZero(u.read) \in Int
    BY <1>1, <1>4, CountsAreThereOrNot DEF Counted
  <2>2. input \in Int
    BY <2>1
  <2>3. UsageCharge(m, u) = IF {written, input} \subseteq I64
                            THEN PerMillion(input, u.output[1], m) ELSE None
    BY <1>4 DEF UsageCharge
  <2> HIDE DEF written, input
  <2>4. UsageCharge(m, u) # None => UsageCharge(m, u) = PerMillion(input, u.output[1], m)
    BY <2>3
  <2>5. m.inputPrice \in Int /\ m.outputPrice \in Int
    BY DEF Priced
  <2>6. UsageCharge(m, u) # None => \E n \in I64 : UsageCharge(m, u) = Some(n)
    <3> DEFINE n == Quotient(input * m.inputPrice + u.output[1] * m.outputPrice + Million - 1)
    <3>1. PerMillion(input, u.output[1], m) # None =>
            PerMillion(input, u.output[1], m) = Some(n) /\ n \in I64
      BY <2>1, <2>2, <2>5, PricesFit
    <3> HIDE DEF n
    <3> QED
      BY <2>4, <3>1
  <2> QED
    BY <2>6 DEF Charged
<1> QED
  BY <1>2, <1>3, <1>4

(* The bill of usage is fair.                                              *)
LEMMA ChargesAreFair ==
  ASSUME NEW m, NEW u, Priced(m), IsUsage(u), UsageCharge(m, u) # None
  PROVE  FairPrice(m, u, UsageCharge(m, u)[1])
<1>1. /\ u.cost \in Counts /\ u.input \in Counts /\ u.output \in Counts
      /\ u.written \in Counts /\ u.read \in Counts
  BY DEF IsUsage, Counts
<1>2. CASE Costed(m, u)
  <2>1. u.cost[1] \in Int
    BY <1>1, <1>2, CountsAreThereOrNot DEF Costed
  <2>2. UsageCharge(m, u)[1] = (u.cost[1] + 1) \div 2
    BY <1>2 DEF UsageCharge, Some
  <2>3. 2 * ((u.cost[1] + 1) \div 2) - u.cost[1] \in {0, 1}
    BY <2>1
  <2> QED
    BY <1>2, <2>2, <2>3 DEF FairPrice
<1>3. CASE ~ Costed(m, u)
  <2>0. Counted(u)
    BY <1>3 DEF UsageCharge
  <2> DEFINE written == u.input[1] + OrZero(u.written)
             input == written + OrZero(u.read)
             output == u.output[1]
             x == input * m.inputPrice + output * m.outputPrice
             y == m.maxInput * m.inputPrice + m.maxOutput * m.outputPrice
             bill == Quotient(x + Million - 1)
  <2>1. /\ u.input[1] \in Nat /\ output \in Nat
        /\ OrZero(u.written) \in Int /\ OrZero(u.read) \in Int
    BY <1>1, <2>0, CountsAreThereOrNot DEF Counted
  <2>2. input \in Int /\ (OrZero(u.written) >= 0 /\ OrZero(u.read) >= 0 => input \in Nat)
    BY <2>1
  <2>3. UsageCharge(m, u) = IF {written, input} \subseteq I64
                            THEN PerMillion(input, output, m) ELSE None
    BY <1>3, <2>0 DEF UsageCharge
  <2>4. /\ m.inputPrice \in Nat /\ m.outputPrice \in Nat
        /\ m.maxInput \in Nat /\ m.maxOutput \in Nat
        /\ Million \in Nat \ {0}
    BY ChargesAssumption DEF Priced
  <2> SUFFICES /\ OrZero(u.written) >= 0 /\ OrZero(u.read) >= 0 =>
                    (bill - 1) * Million < x /\ x <= bill * Million
               /\ input <= m.maxInput /\ output <= m.maxOutput => bill <= Reservation(m)[1]
    <3>1. FairPrice(m, u, UsageCharge(m, u)[1]) =
            /\ OrZero(u.written) >= 0 /\ OrZero(u.read) >= 0 =>
                 (UsageCharge(m, u)[1] - 1) * Million < x /\ x <= UsageCharge(m, u)[1] * Million
            /\ input <= m.maxInput /\ output <= m.maxOutput =>
                 UsageCharge(m, u)[1] <= Reservation(m)[1]
      BY <1>3 DEF FairPrice
    <3> HIDE DEF written, input, output
    <3>2. PerMillion(input, output, m) # None /\ UsageCharge(m, u) = PerMillion(input, output, m)
      BY <2>3
    <3>3. PerMillion(input, output, m) = Some(bill)
      BY <2>1, <2>2, <2>4, <3>2, PricesFit
    <3>4. UsageCharge(m, u)[1] = bill
      BY <3>2, <3>3 DEF Some
    <3> HIDE DEF bill, x
    <3> QED
      BY <3>1, <3>4
  <2> HIDE DEF written, input, output
  <2>5. x \in Int /\ y \in Nat
    <3>1. /\ input * m.inputPrice \in Int /\ output * m.outputPrice \in Int
          /\ m.maxInput * m.inputPrice \in Nat /\ m.maxOutput * m.outputPrice \in Nat
      BY <2>1, <2>2, <2>4
    <3> QED
      BY <3>1
  <2>6. input \in Nat => x \in Nat
    <3>1. input \in Nat => input * m.inputPrice \in Nat /\ output * m.outputPrice \in Nat
      BY <2>1, <2>4
    <3> QED
      BY <3>1
  <2>7. input <= m.maxInput /\ output <= m.maxOutput => x <= y
    <3>1. input <= m.maxInput => input * m.inputPrice <= m.maxInput * m.inputPrice
      BY <2>2, <2>4
    <3>2. output <= m.maxOutput => output * m.outputPrice <= m.maxOutput * m.outputPrice
      BY <2>1, <2>4
    <3>3. /\ input * m.inputPrice \in Int /\ output * m.outputPrice \in Int
          /\ m.maxInput * m.inputPrice \in Int /\ m.maxOutput * m.outputPrice \in Int
      BY <2>1, <2>2, <2>4
    <3> QED
      BY <3>1, <3>2, <3>3
  <2>8. Reservation(m) = Some(Quotient(y + Million - 1))
    <3>1. PerMillion(m.maxInput, m.maxOutput, m) # None
      BY DEF Priced, Reservation
    <3> QED
      BY <2>4, <3>1, PricesFit DEF Reservation
  <2>9. Reservation(m)[1] = Quotient(y + Million - 1)
    BY <2>8 DEF Some
  <2> HIDE DEF x, y
  <2>10. input \in Nat => (bill - 1) * Million < x /\ x <= bill * Million
    BY <2>6, RoundedUp
  <2>11. input <= m.maxInput /\ output <= m.maxOutput => bill <= Reservation(m)[1]
    <3>1. /\ x + Million - 1 \in Int /\ y + Million - 1 \in Nat
          /\ x <= y => x + Million - 1 <= y + Million - 1
      BY <2>4, <2>5
    <3>2. x <= y => bill <= Quotient(y + Million - 1)
      BY <3>1, QuotientIsMonotonic
    <3> QED
      BY <2>7, <2>9, <3>2
  <2> QED
    BY <2>2, <2>10, <2>11
<1> QED
  BY <1>2, <1>3

(***************************************************************************)
(* Streams and bodies.                                                     *)
(***************************************************************************)
CallMaps == UNION {[D -> CallParts] : D \in SUBSET (0..MaxCalls - 1)}
SmallDeltas == {d \in Deltas : d.index < MaxCalls}

LEMMA CallMapsAreMaps ==
  ASSUME NEW calls
  PROVE  calls \in CallMaps <=>
           /\ calls = [i \in DOMAIN calls |-> calls[i]]
           /\ DOMAIN calls \subseteq 0..MaxCalls - 1
           /\ \A i \in DOMAIN calls : calls[i] \in CallParts
<1>1. ASSUME NEW D \in SUBSET (0..MaxCalls - 1), calls \in [D -> CallParts]
      PROVE  /\ calls = [i \in DOMAIN calls |-> calls[i]]
             /\ DOMAIN calls \subseteq 0..MaxCalls - 1
             /\ \A i \in DOMAIN calls : calls[i] \in CallParts
  BY <1>1
<1>2. ASSUME calls = [i \in DOMAIN calls |-> calls[i]],
             DOMAIN calls \subseteq 0..MaxCalls - 1,
             \A i \in DOMAIN calls : calls[i] \in CallParts
      PROVE  calls \in CallMaps
  <2>1. calls \in [DOMAIN calls -> CallParts]
    BY <1>2
  <2> QED
    BY <1>2, <2>1 DEF CallMaps
<1> QED
  BY <1>1, <1>2 DEF CallMaps

(* The loop over the tool call deltas of an event.                         *)
LEMMA DeltasAreAdded ==
  ASSUME NEW s \in Seq(SmallDeltas), NEW b \in CallMaps
  PROVE  \E run \in [0..Len(s) -> CallMaps] :
           /\ run[0] = b
           /\ \A k \in 1..Len(s) : run[k] = AddDelta(run[k - 1], s[k])
           /\ FoldLeft(AddDelta, b, s) = run[Len(s)]
<1>1. ASSUME NEW x \in CallMaps, NEW y \in SmallDeltas
      PROVE  AddDelta(x, y) \in CallMaps
  <2>1. /\ y.index \in 0..MaxCalls - 1 /\ y.id \in Strings /\ y.args \in Strings
    BY StreamAssumption DEF SmallDeltas, Deltas
  <2>2. DOMAIN x \subseteq 0..MaxCalls - 1 /\ \A i \in DOMAIN x : x[i] \in CallParts
    BY CallMapsAreMaps
  <2> DEFINE old(i) == IF i \in DOMAIN x THEN x[i] ELSE [id |-> <<>>, args |-> <<>>]
             D == DOMAIN x \cup {y.index}
             new(i) == IF i = y.index
                       THEN [id |-> old(i).id \o y.id, args |-> old(i).args \o y.args]
                       ELSE old(i)
  <2>3. <<>> \in Strings
    BY EmptySeq DEF Strings
  <2>4. ASSUME NEW i \in D
        PROVE  old(i) \in CallParts
    BY <2>2, <2>3 DEF CallParts
  <2>5. ASSUME NEW i \in D
        PROVE  new(i) \in CallParts
    <3>1. old(i).id \in Strings /\ old(i).args \in Strings
      BY <2>4 DEF CallParts
    <3>2. old(i).id \o y.id \in Strings /\ old(i).args \o y.args \in Strings
      <4> HIDE DEF old
      <4> QED
        BY <2>1, <3>1, ConcatProperties DEF Strings
    <3> QED
      BY <2>4, <3>2 DEF CallParts
  <2>6. AddDelta(x, y) = [i \in D |-> new(i)]
    BY DEF AddDelta
  <2>7. D \in SUBSET (0..MaxCalls - 1)
    BY <2>1, <2>2
  <2> HIDE DEF D, new
  <2>8. AddDelta(x, y) \in [D -> CallParts]
    BY <2>5, <2>6
  <2> QED
    BY <2>7, <2>8 DEF CallMaps
<1>2. b \in CallMaps /\ s \in Seq(SmallDeltas) /\ DOMAIN s = 1..Len(s)
  OBVIOUS
<1> DEFINE F == [p \in CallMaps \X SmallDeltas |-> AddDelta(p[1], p[2])]
           Solves(g) == g = [T \in SUBSET DOMAIN s |->
                               IF T = {} THEN b ELSE AddDelta(g[T \ {Max(T)}], s[Max(T)])]
           h == CHOOSE g : Solves(g)
<1>3. /\ F \in [CallMaps \X SmallDeltas -> CallMaps]
      /\ \A x \in CallMaps, y \in SmallDeltas : F[<<x, y>>] = AddDelta(x, y)
  BY <1>1
<1> HIDE DEF F
<1>4. PICK g \in [SUBSET (1..Len(s)) -> CallMaps] : FoldsTo(g, F, b, s, Len(s))
  BY <1>2, <1>3, FoldExists
<1>5. ASSUME NEW T \in SUBSET (1..Len(s)), T # {}
      PROVE  s[Max(T)] \in SmallDeltas
  BY <1>2, <1>5, MaxIsAnIndex
<1>6. Solves(g)
  <2>1. ASSUME NEW T \in SUBSET (1..Len(s)), T # {}
        PROVE  F[<<g[T \ {Max(T)}], s[Max(T)]>>] = AddDelta(g[T \ {Max(T)}], s[Max(T)])
    BY <1>3, <1>5, <2>1
  <2> QED
    BY <1>2, <1>4, <2>1 DEF FoldsTo
<1>7. Solves(h) /\ FoldLeft(AddDelta, b, s) = h[DOMAIN s]
  BY <1>6 DEF FoldLeft, MapThenFoldSet
<1> HIDE DEF h
<1>8. SolvesFold(h, CallMaps, F, b, s)
  BY <1>2, <1>3, <1>5, <1>7 DEF SolvesFold
<1> HIDE DEF Solves
<1>9. RunsTo(h[1..Len(s)], CallMaps, F, b, s)
  BY <1>2, <1>3, <1>8, FoldEnds
<1>10. PICK run \in [0..Len(s) -> CallMaps] :
         /\ run[0] = b /\ run[Len(s)] = h[1..Len(s)]
         /\ \A k \in 1..Len(s) : run[k - 1] \in CallMaps /\ run[k] = F[<<run[k - 1], s[k]>>]
  BY <1>9 DEF RunsTo
<1>11. \A k \in 1..Len(s) : s[k] \in SmallDeltas
  BY <1>2
<1>12. \A k \in 1..Len(s) : run[k] = AddDelta(run[k - 1], s[k])
  BY <1>3, <1>10, <1>11
<1> QED
  BY <1>2, <1>7, <1>10, <1>12


Slots == {None} \cup {Some(c) : c \in CallParts}

LEMMA SlotsGiveCalls ==
  ASSUME NEW list \in Seq(ToolCalls), NEW slot \in Slots
  PROVE  AddCall(list, slot) \in Seq(ToolCalls)
<1>1. CASE slot = None
  BY <1>1 DEF AddCall
<1>2. CASE slot # None
  <2>1. PICK c \in CallParts : slot = Some(c)
    BY <1>2 DEF Slots
  <2>2. [id |-> c.id, object |-> Parsed(c.args) = "object"] \in ToolCalls
    BY DEF CallParts, ToolCalls
  <2>3. AddCall(list, slot) = Append(list, [id |-> c.id, object |-> Parsed(c.args) = "object"])
    BY <1>2, <2>1 DEF AddCall, Some
  <2> QED
    BY <2>2, <2>3, AppendProperties
<1> QED
  BY <1>1, <1>2

(* The calls of an answer, one after the other.                            *)
LEMMA CallsAreCollected ==
  ASSUME NEW s \in Seq(Slots)
  PROVE  \E run \in [0..Len(s) -> Seq(ToolCalls)] :
           /\ run[0] = <<>>
           /\ \A k \in 1..Len(s) : run[k] = AddCall(run[k - 1], s[k])
           /\ FoldLeft(AddCall, <<>>, s) = run[Len(s)]
<1>1. ASSUME NEW x \in Seq(ToolCalls), NEW y \in Slots
      PROVE  AddCall(x, y) \in Seq(ToolCalls)
  BY SlotsGiveCalls
<1>2. <<>> \in Seq(ToolCalls) /\ s \in Seq(Slots) /\ DOMAIN s = 1..Len(s)
  BY EmptySeq
<1> DEFINE F == [p \in Seq(ToolCalls) \X Slots |-> AddCall(p[1], p[2])]
           Solves(g) == g = [T \in SUBSET DOMAIN s |->
                               IF T = {} THEN <<>> ELSE AddCall(g[T \ {Max(T)}], s[Max(T)])]
           h == CHOOSE g : Solves(g)
<1>3. /\ F \in [Seq(ToolCalls) \X Slots -> Seq(ToolCalls)]
      /\ \A x \in Seq(ToolCalls), y \in Slots : F[<<x, y>>] = AddCall(x, y)
  BY <1>1
<1> HIDE DEF F
<1>4. PICK g \in [SUBSET (1..Len(s)) -> Seq(ToolCalls)] : FoldsTo(g, F, <<>>, s, Len(s))
  BY <1>2, <1>3, FoldExists
<1>5. ASSUME NEW T \in SUBSET (1..Len(s)), T # {}
      PROVE  s[Max(T)] \in Slots
  BY <1>2, <1>5, MaxIsAnIndex
<1>6. Solves(g)
  <2>1. ASSUME NEW T \in SUBSET (1..Len(s)), T # {}
        PROVE  F[<<g[T \ {Max(T)}], s[Max(T)]>>] = AddCall(g[T \ {Max(T)}], s[Max(T)])
    BY <1>3, <1>5, <2>1
  <2> QED
    BY <1>2, <1>4, <2>1 DEF FoldsTo
<1>7. Solves(h) /\ FoldLeft(AddCall, <<>>, s) = h[DOMAIN s]
  BY <1>6 DEF FoldLeft, MapThenFoldSet
<1> HIDE DEF h
<1>8. SolvesFold(h, Seq(ToolCalls), F, <<>>, s)
  BY <1>2, <1>3, <1>5, <1>7 DEF SolvesFold
<1> HIDE DEF Solves
<1>9. RunsTo(h[1..Len(s)], Seq(ToolCalls), F, <<>>, s)
  BY <1>2, <1>3, <1>8, FoldEnds
<1>10. PICK run \in [0..Len(s) -> Seq(ToolCalls)] :
         /\ run[0] = <<>> /\ run[Len(s)] = h[1..Len(s)]
         /\ \A k \in 1..Len(s) : run[k - 1] \in Seq(ToolCalls) /\ run[k] = F[<<run[k - 1], s[k]>>]
  BY <1>9 DEF RunsTo
<1>11. \A k \in 1..Len(s) : s[k] \in Slots
  BY <1>2
<1>12. \A k \in 1..Len(s) : run[k] = AddCall(run[k - 1], s[k])
  BY <1>3, <1>10, <1>11
<1> QED
  BY <1>2, <1>7, <1>10, <1>12


(* What a body said so far.                                                *)
Saids == [text : Strings, calls : Seq(ToolCalls)]
Silent == [text |-> <<>>, calls |-> <<>>]

(* The loop over the items of a body.                                      *)
LEMMA ItemsAreRead ==
  ASSUME NEW s \in Seq(Items)
  PROVE  \E run \in [0..Len(s) -> Saids] :
           /\ run[0] = Silent
           /\ \A k \in 1..Len(s) : run[k] = ReadItem(run[k - 1], s[k])
           /\ FoldLeft(ReadItem, Silent, s) = run[Len(s)]
<1>1. ASSUME NEW x \in Saids, NEW y \in Items
      PROVE  ReadItem(x, y) \in Saids
  <2>1. /\ x.text \in Strings /\ x.calls \in Seq(ToolCalls) /\ y.text \in Strings
        /\ Some(y) \in {Some(c) : c \in Items} /\ y.id \in Strings /\ y.args \in Strings
    BY DEF Saids, Items
  <2>2. CASE y.kind = "text"
    <3>1. x.text \o y.text \in Strings
      BY <2>1, ConcatProperties DEF Strings
    <3>2. ReadItem(x, y) = [x EXCEPT !.text = x.text \o y.text]
      BY <2>2 DEF ReadItem
    <3> QED
      BY <3>1, <3>2 DEF Saids
  <2>3. CASE y.kind = "call"
    <3>1. [id |-> y.id, object |-> Parsed(y.args) = "object"] \in ToolCalls
      BY <2>1 DEF ToolCalls
    <3>2. AddCall(x.calls, Some(y)) =
            Append(x.calls, [id |-> y.id, object |-> Parsed(y.args) = "object"])
      BY DEF AddCall, Some, None
    <3>3. AddCall(x.calls, Some(y)) \in Seq(ToolCalls)
      BY <2>1, <3>1, <3>2, AppendProperties
    <3>4. ReadItem(x, y) = [x EXCEPT !.calls = AddCall(x.calls, Some(y))]
      BY <2>3 DEF ReadItem
    <3> QED
      BY <3>3, <3>4 DEF Saids
  <2>4. CASE y.kind \notin {"text", "call"}
    BY <2>4 DEF ReadItem
  <2> QED
    BY <2>2, <2>3, <2>4
<1>2. Silent \in Saids /\ s \in Seq(Items) /\ DOMAIN s = 1..Len(s)
  BY EmptySeq DEF Silent, Saids, Strings
<1> DEFINE F == [p \in Saids \X Items |-> ReadItem(p[1], p[2])]
           Solves(g) == g = [T \in SUBSET DOMAIN s |->
                               IF T = {} THEN Silent ELSE ReadItem(g[T \ {Max(T)}], s[Max(T)])]
           h == CHOOSE g : Solves(g)
<1>3. /\ F \in [Saids \X Items -> Saids]
      /\ \A x \in Saids, y \in Items : F[<<x, y>>] = ReadItem(x, y)
  BY <1>1
<1> HIDE DEF F
<1>4. PICK g \in [SUBSET (1..Len(s)) -> Saids] : FoldsTo(g, F, Silent, s, Len(s))
  BY <1>2, <1>3, FoldExists
<1>5. ASSUME NEW T \in SUBSET (1..Len(s)), T # {}
      PROVE  s[Max(T)] \in Items
  BY <1>2, <1>5, MaxIsAnIndex
<1>6. Solves(g)
  <2>1. ASSUME NEW T \in SUBSET (1..Len(s)), T # {}
        PROVE  F[<<g[T \ {Max(T)}], s[Max(T)]>>] = ReadItem(g[T \ {Max(T)}], s[Max(T)])
    BY <1>3, <1>5, <2>1
  <2> QED
    BY <1>2, <1>4, <2>1 DEF FoldsTo
<1>7. Solves(h) /\ FoldLeft(ReadItem, Silent, s) = h[DOMAIN s]
  BY <1>6 DEF FoldLeft, MapThenFoldSet
<1> HIDE DEF h
<1>8. SolvesFold(h, Saids, F, Silent, s)
  BY <1>2, <1>3, <1>5, <1>7 DEF SolvesFold
<1> HIDE DEF Solves
<1>9. RunsTo(h[1..Len(s)], Saids, F, Silent, s)
  BY <1>2, <1>3, <1>8, FoldEnds
<1>10. PICK run \in [0..Len(s) -> Saids] :
         /\ run[0] = Silent /\ run[Len(s)] = h[1..Len(s)]
         /\ \A k \in 1..Len(s) : run[k - 1] \in Saids /\ run[k] = F[<<run[k - 1], s[k]>>]
  BY <1>9 DEF RunsTo
<1>11. \A k \in 1..Len(s) : s[k] \in Items
  BY <1>2
<1>12. \A k \in 1..Len(s) : run[k] = ReadItem(run[k - 1], s[k])
  BY <1>3, <1>10, <1>11
<1> QED
  BY <1>2, <1>7, <1>10, <1>12

Parses == [text : Strings, calls : CallMaps, charge : Charged,
           finished : BOOLEAN, done : BOOLEAN, failed : BOOLEAN]

Metered(l) == Said(l) /\ l.usage # None

(* What one event does to what was read before it.                         *)
LEMMA EventRead ==
  ASSUME Priced(model), NEW p \in Parses, NEW l \in Lines, l.kind = "event"
  PROVE  LET r == ReadEvent(p, l)
         IN /\ r \in Parses /\ Begins(p.text, r.text)
            /\ r.charge = IF Metered(l) THEN UsageCharge(model, l.usage[1]) ELSE p.charge
<1>0. /\ l.text \in Strings /\ l.calls \in Seq(Deltas)
      /\ l.usage # None => IsUsage(l.usage[1])
  BY StreamAssumption
<1>1. /\ p.text \in Strings /\ p.calls \in CallMaps /\ p.charge \in Charged
      /\ p.finished \in BOOLEAN /\ p.done \in BOOLEAN /\ p.failed \in BOOLEAN
  BY DEF Parses
<1> DEFINE charge == IF l.usage = None THEN p.charge ELSE UsageCharge(model, l.usage[1])
           metered == [p EXCEPT !.charge = IF l.usage = None THEN @
                                           ELSE UsageCharge(model, l.usage[1])]
           spoken == [metered EXCEPT !.finished = @ \/ l.finish # "none", !.text = @ \o l.text]
<1>2. charge \in Charged
  BY <1>0, <1>1, ChargesFit
<1>3. charge = IF Metered(l) THEN UsageCharge(model, l.usage[1]) ELSE p.charge
  BY DEF Metered, Said
<1>4. /\ metered \in Parses /\ metered.charge = charge
      /\ metered.text = p.text /\ metered.calls = p.calls
  BY <1>1, <1>2 DEF Parses
<1>5. p.text \o l.text \in Strings /\ Begins(p.text, p.text) /\ Begins(p.text, p.text \o l.text)
  <2>1. PICK a \in Seq(Parts) : a = p.text
    BY <1>1 DEF Strings
  <2>2. PICK c \in Seq(Parts) : c = l.text
    BY <1>0 DEF Strings
  <2>3. Begins(a, a)
    BY SubSeqFull DEF Begins
  <2>4. Begins(a, a \o c) /\ a \o c \in Seq(Parts)
    BY SequenceBegins
  <2> QED
    BY <2>1, <2>2, <2>3, <2>4 DEF Strings
<1>6. /\ spoken \in Parses /\ spoken.charge = charge /\ spoken.text = p.text \o l.text
      /\ spoken.calls = p.calls
  <2> HIDE DEF metered
  <2>1. metered.finished \in BOOLEAN /\ (metered.finished \/ l.finish # "none") \in BOOLEAN
    BY <1>4 DEF Parses
  <2> QED
    BY <1>4, <1>5, <2>1 DEF Parses
<1>7. ReadEvent(p, l) =
        IF l.finish \notin {"none", "stop", "tool_calls"} THEN [metered EXCEPT !.failed = TRUE]
        ELSE IF \E d \in ToSet(l.calls) : d.index >= MaxCalls THEN [spoken EXCEPT !.failed = TRUE]
        ELSE [spoken EXCEPT !.calls = FoldLeft(AddDelta, @, l.calls)]
  BY DEF ReadEvent
<1> HIDE DEF metered, spoken, charge
<1>8. CASE l.finish \notin {"none", "stop", "tool_calls"}
  <2> DEFINE r == [metered EXCEPT !.failed = TRUE]
  <2>1. r \in Parses /\ r.text = p.text /\ r.charge = charge
    BY <1>4 DEF Parses
  <2> HIDE DEF r
  <2>2. ReadEvent(p, l) = r
    BY <1>7, <1>8 DEF r
  <2> QED
    BY <1>3, <1>5, <2>1, <2>2
<1>9. CASE /\ l.finish \in {"none", "stop", "tool_calls"}
           /\ \E d \in ToSet(l.calls) : d.index >= MaxCalls
  <2> DEFINE r == [spoken EXCEPT !.failed = TRUE]
  <2>1. r \in Parses /\ r.text = p.text \o l.text /\ r.charge = charge
    BY <1>6 DEF Parses
  <2> HIDE DEF r
  <2>2. ReadEvent(p, l) = r
    BY <1>7, <1>9 DEF r
  <2> QED
    BY <1>3, <1>5, <2>1, <2>2
<1>10. CASE /\ l.finish \in {"none", "stop", "tool_calls"}
            /\ ~ \E d \in ToSet(l.calls) : d.index >= MaxCalls
  <2>1. l.calls \in Seq(SmallDeltas)
    <3>1. ASSUME NEW n \in 1..Len(l.calls)
          PROVE  l.calls[n] \in SmallDeltas
      <4>1. l.calls[n] \in Deltas /\ n \in DOMAIN l.calls
        BY <1>0
      <4>2. ~ (l.calls[n].index >= MaxCalls)
        BY <1>10, <4>1 DEF ToSet
      <4>3. l.calls[n].index < MaxCalls
        BY <4>1, <4>2, StreamAssumption DEF Deltas
      <4> QED
        BY <4>1, <4>3 DEF SmallDeltas
    <3>2. Len(l.calls) \in Nat /\ l.calls = [n \in 1..Len(l.calls) |-> l.calls[n]]
      BY <1>0
    <3> QED
      BY <3>1, <3>2
  <2>2. PICK c \in Seq(SmallDeltas) : c = l.calls
    BY <2>1
  <2>3. PICK b \in CallMaps : b = p.calls
    BY <1>1
  <2>4. PICK run \in [0..Len(c) -> CallMaps] : FoldLeft(AddDelta, b, c) = run[Len(c)]
    BY DeltasAreAdded
  <2>5. FoldLeft(AddDelta, b, c) \in CallMaps
    BY <2>4
  <2> DEFINE r == [spoken EXCEPT !.calls = FoldLeft(AddDelta, @, l.calls)]
  <2>6. r = [spoken EXCEPT !.calls = FoldLeft(AddDelta, b, c)]
    BY <1>6, <2>2, <2>3
  <2>7. r \in Parses /\ r.text = p.text \o l.text /\ r.charge = charge
    BY <1>6, <2>5, <2>6 DEF Parses
  <2>8. ReadEvent(p, l) = r
    BY <1>7, <1>10
  <2> HIDE DEF r
  <2> QED
    BY <1>3, <1>5, <2>7, <2>8
<1> QED
  BY <1>8, <1>9, <1>10

(* What one line does to what was read before it: text is never taken      *)
(* back, the last usage counts, and nothing is read after an error.        *)
LEMMA LineRead ==
  ASSUME Priced(model), NEW p \in Parses, NEW l \in Lines
  PROVE  LET r == ReadLine(p, l)
         IN /\ r \in Parses /\ Begins(p.text, r.text)
            /\ p.failed => r = p
            /\ ~ p.failed =>
                 r.charge = IF Metered(l) THEN UsageCharge(model, l.usage[1]) ELSE p.charge
<1>0. l.kind \in {"noise", "done", "broken", "event"} /\ p.failed \in BOOLEAN /\ p.text \in Strings
  BY StreamAssumption DEF Parses
<1>1. Begins(p.text, p.text)
  BY <1>0, SubSeqFull DEF Begins, Strings
<1>2. CASE p.failed \/ l.kind = "noise"
  <2>1. ReadLine(p, l) = p
    BY <1>0, <1>2 DEF ReadLine
  <2> QED
    BY <1>1, <1>2, <2>1 DEF Metered, Said
<1>3. CASE ~ p.failed /\ l.kind = "done"
  <2>1. ReadLine(p, l) = [p EXCEPT !.done = TRUE]
    BY <1>3 DEF ReadLine
  <2> QED
    BY <1>1, <1>3, <2>1 DEF Metered, Said, Parses
<1>4. CASE ~ p.failed /\ l.kind = "broken"
  <2>1. ReadLine(p, l) = [p EXCEPT !.failed = TRUE]
    BY <1>4 DEF ReadLine
  <2> QED
    BY <1>1, <1>4, <2>1 DEF Metered, Said, Parses
<1>5. CASE ~ p.failed /\ l.kind = "event"
  <2>1. ReadLine(p, l) = ReadEvent(p, l)
    BY <1>5 DEF ReadLine
  <2> QED
    BY <1>5, <2>1, EventRead
<1> QED
  BY <1>0, <1>2, <1>3, <1>4, <1>5

(* The loop over the lines that a chunk ends.                              *)
LEMMA LinesAreRead ==
  ASSUME Priced(model), NEW s \in Seq(Lines), NEW b \in Parses
  PROVE  \E run \in [0..Len(s) -> Parses] :
           /\ run[0] = b
           /\ \A k \in 1..Len(s) : run[k] = ReadLine(run[k - 1], s[k])
           /\ FoldLeft(ReadLine, b, s) = run[Len(s)]
<1>1. ASSUME NEW x \in Parses, NEW y \in Lines
      PROVE  ReadLine(x, y) \in Parses
  BY LineRead
<1>2. b \in Parses /\ s \in Seq(Lines) /\ DOMAIN s = 1..Len(s)
  OBVIOUS
<1> DEFINE F == [p \in Parses \X Lines |-> ReadLine(p[1], p[2])]
           Solves(g) == g = [T \in SUBSET DOMAIN s |->
                               IF T = {} THEN b ELSE ReadLine(g[T \ {Max(T)}], s[Max(T)])]
           h == CHOOSE g : Solves(g)
<1>3. /\ F \in [Parses \X Lines -> Parses]
      /\ \A x \in Parses, y \in Lines : F[<<x, y>>] = ReadLine(x, y)
  BY <1>1
<1> HIDE DEF F
<1>4. PICK g \in [SUBSET (1..Len(s)) -> Parses] : FoldsTo(g, F, b, s, Len(s))
  BY <1>2, <1>3, FoldExists
<1>5. ASSUME NEW T \in SUBSET (1..Len(s)), T # {}
      PROVE  s[Max(T)] \in Lines
  BY <1>2, <1>5, MaxIsAnIndex
<1>6. Solves(g)
  <2>1. ASSUME NEW T \in SUBSET (1..Len(s)), T # {}
        PROVE  F[<<g[T \ {Max(T)}], s[Max(T)]>>] = ReadLine(g[T \ {Max(T)}], s[Max(T)])
    BY <1>3, <1>5, <2>1
  <2> QED
    BY <1>2, <1>4, <2>1 DEF FoldsTo
<1>7. Solves(h) /\ FoldLeft(ReadLine, b, s) = h[DOMAIN s]
  BY <1>6 DEF FoldLeft, MapThenFoldSet
<1> HIDE DEF h
<1>8. SolvesFold(h, Parses, F, b, s)
  BY <1>2, <1>3, <1>5, <1>7 DEF SolvesFold
<1> HIDE DEF Solves
<1>9. RunsTo(h[1..Len(s)], Parses, F, b, s)
  BY <1>2, <1>3, <1>8, FoldEnds
<1>10. PICK run \in [0..Len(s) -> Parses] :
         /\ run[0] = b /\ run[Len(s)] = h[1..Len(s)]
         /\ \A k \in 1..Len(s) : run[k - 1] \in Parses /\ run[k] = F[<<run[k - 1], s[k]>>]
  BY <1>9 DEF RunsTo
<1>11. \A k \in 1..Len(s) : s[k] \in Lines
  BY <1>2
<1>12. \A k \in 1..Len(s) : run[k] = ReadLine(run[k - 1], s[k])
  BY <1>3, <1>10, <1>11
<1> QED
  BY <1>2, <1>7, <1>10, <1>12

(* What a line says of an index, as functions.                             *)
LEMMA IdsAreSpelled ==
  ASSUME NEW s \in Seq(Deltas), NEW i
  PROVE  \E f \in [0..Len(s) -> Seq(Parts)] :
           /\ f[0] = <<>> /\ f[Len(s)] = IdIn(s, i)
           /\ \A k \in 1..Len(s) : f[k] = f[k - 1] \o (IF s[k].index = i THEN s[k].id ELSE <<>>)
<1> DEFINE t == [k \in DOMAIN s |-> IF s[k].index = i THEN s[k].id ELSE <<>>]
<1>1. DOMAIN s = 1..Len(s) /\ Len(s) \in Nat
  OBVIOUS
<1>2. \A k \in 1..Len(s) : s[k].id \in Seq(Parts)
  <2>1. \A k \in 1..Len(s) : s[k] \in Deltas
    BY <1>1
  <2> QED
    BY <2>1 DEF Deltas, Strings
<1>3. t \in [1..Len(s) -> Seq(Parts)]
  BY <1>1, <1>2, EmptySeq
<1>4. /\ \A k \in 1..Len(s) : t[k] = IF s[k].index = i THEN s[k].id ELSE <<>>
      /\ FlattenSeq(t) = IdIn(s, i)
  BY <1>1 DEF IdIn
<1> HIDE DEF t
<1>5. t \in Seq(Seq(Parts)) /\ Len(t) = Len(s)
  BY <1>1, <1>3
<1>6. \E f \in [0..Len(t) -> Seq(Parts)] :
        /\ f[0] = <<>>
        /\ \A k \in 1..Len(t) : f[k] = f[k - 1] \o t[k]
        /\ FlattenSeq(t) = f[Len(t)]
  BY <1>5, FlattenRuns
<1> QED
  BY <1>4, <1>5, <1>6

LEMMA ArgsAreSpelled ==
  ASSUME NEW s \in Seq(Deltas), NEW i
  PROVE  \E f \in [0..Len(s) -> Seq(Parts)] :
           /\ f[0] = <<>> /\ f[Len(s)] = ArgsIn(s, i)
           /\ \A k \in 1..Len(s) : f[k] = f[k - 1] \o (IF s[k].index = i THEN s[k].args ELSE <<>>)
<1> DEFINE t == [k \in DOMAIN s |-> IF s[k].index = i THEN s[k].args ELSE <<>>]
<1>1. DOMAIN s = 1..Len(s) /\ Len(s) \in Nat
  OBVIOUS
<1>2. \A k \in 1..Len(s) : s[k].args \in Seq(Parts)
  <2>1. \A k \in 1..Len(s) : s[k] \in Deltas
    BY <1>1
  <2> QED
    BY <2>1 DEF Deltas, Strings
<1>3. t \in [1..Len(s) -> Seq(Parts)]
  BY <1>1, <1>2, EmptySeq
<1>4. /\ \A k \in 1..Len(s) : t[k] = IF s[k].index = i THEN s[k].args ELSE <<>>
      /\ FlattenSeq(t) = ArgsIn(s, i)
  BY <1>1 DEF ArgsIn
<1> HIDE DEF t
<1>5. t \in Seq(Seq(Parts)) /\ Len(t) = Len(s)
  BY <1>1, <1>3
<1>6. \E f \in [0..Len(t) -> Seq(Parts)] :
        /\ f[0] = <<>>
        /\ \A k \in 1..Len(t) : f[k] = f[k - 1] \o t[k]
        /\ FlattenSeq(t) = f[Len(t)]
  BY <1>5, FlattenRuns
<1> QED
  BY <1>4, <1>5, <1>6

(* What the calls have under an index, named or not.                       *)
Part(calls, i) == IF i \in DOMAIN calls THEN calls[i] ELSE [id |-> <<>>, args |-> <<>>]

LEMMA PartsAreStrings ==
  ASSUME NEW calls \in CallMaps, NEW i
  PROVE  /\ Part(calls, i).id \in Seq(Parts) /\ Part(calls, i).args \in Seq(Parts)
         /\ Part(calls, i) = [id |-> Part(calls, i).id, args |-> Part(calls, i).args]
<1>1. \A j \in DOMAIN calls : calls[j] \in CallParts
  BY CallMapsAreMaps
<1>2. <<>> \in Seq(Parts)
  BY EmptySeq
<1> QED
  BY <1>1, <1>2 DEF Part, CallParts, Strings

LEMMA DeltaIsAdded ==
  ASSUME NEW calls \in CallMaps, NEW d \in SmallDeltas, NEW i, NEW r, r = AddDelta(calls, d)
  PROVE  /\ DOMAIN r = DOMAIN calls \cup {d.index}
         /\ Part(r, i).id = Part(calls, i).id \o (IF d.index = i THEN d.id ELSE <<>>)
         /\ Part(r, i).args = Part(calls, i).args \o (IF d.index = i THEN d.args ELSE <<>>)
<1> DEFINE D == DOMAIN calls \cup {d.index}
           new(j) == IF j = d.index
                     THEN [id |-> Part(calls, j).id \o d.id, args |-> Part(calls, j).args \o d.args]
                     ELSE Part(calls, j)
<1>1. r = [j \in D |-> new(j)]
  BY DEF AddDelta, Part
<1>2. DOMAIN r = D /\ \A j \in D : r[j] = new(j)
  BY <1>1
<1>3. /\ Part(calls, i).id \o <<>> = Part(calls, i).id
      /\ Part(calls, i).args \o <<>> = Part(calls, i).args
  <2>1. PICK a \in Seq(Parts) : a = Part(calls, i).id
    BY PartsAreStrings
  <2>2. PICK c \in Seq(Parts) : c = Part(calls, i).args
    BY PartsAreStrings
  <2> QED
    BY <2>1, <2>2, ConcatEmptySeq
<1> HIDE DEF new
<1>4. CASE d.index = i
  <2>1. PICK x : x = Part(calls, i).id \o d.id
    OBVIOUS
  <2>2. PICK y : y = Part(calls, i).args \o d.args
    OBVIOUS
  <2>3. Part(r, i).id = x /\ Part(r, i).args = y
    <3>1. new(i) = [id |-> x, args |-> y]
      BY <1>4, <2>1, <2>2 DEF new
    <3>2. Part(r, i) = [id |-> x, args |-> y]
      BY <1>2, <1>4, <3>1 DEF Part
    <3> QED
      BY <3>2
  <2>4. /\ d.id = (IF d.index = i THEN d.id ELSE <<>>)
        /\ d.args = (IF d.index = i THEN d.args ELSE <<>>)
    BY <1>4
  <2> QED
    BY <1>2, <2>1, <2>2, <2>3, <2>4, Zenon
<1>5. CASE d.index # i
  <2>1. Part(r, i) = Part(calls, i)
    BY <1>2, <1>5 DEF Part, new
  <2> QED
    BY <1>1, <1>2, <1>3, <1>5, <2>1
<1> QED
  BY <1>4, <1>5

(* What the deltas of an event make of the calls.                          *)
LEMMA DeltasSpell ==
  ASSUME NEW s \in Seq(SmallDeltas), NEW b \in CallMaps
  PROVE  LET r == FoldLeft(AddDelta, b, s)
         IN /\ r \in CallMaps
            /\ DOMAIN r = DOMAIN b \cup {d.index : d \in ToSet(s)}
            /\ \A i : /\ Part(r, i).id = Part(b, i).id \o IdIn(s, i)
                      /\ Part(r, i).args = Part(b, i).args \o ArgsIn(s, i)
<1>1. PICK n \in Nat : n = Len(s)
  OBVIOUS
<1>2. PICK run \in [0..n -> CallMaps] :
        /\ run[0] = b
        /\ \A k \in 1..n : run[k] = AddDelta(run[k - 1], s[k])
        /\ FoldLeft(AddDelta, b, s) = run[n]
  BY <1>1, DeltasAreAdded
<1>3. \A k \in 1..n : s[k] \in SmallDeltas /\ k \in 0..n /\ k - 1 \in 0..n
  BY <1>1
<1>4. ASSUME NEW k \in 1..n, NEW i
      PROVE  /\ run[k - 1] \in CallMaps /\ run[k] \in CallMaps
             /\ DOMAIN run[k] = DOMAIN run[k - 1] \cup {s[k].index}
             /\ Part(run[k], i).id =
                  Part(run[k - 1], i).id \o (IF s[k].index = i THEN s[k].id ELSE <<>>)
             /\ Part(run[k], i).args =
                  Part(run[k - 1], i).args \o (IF s[k].index = i THEN s[k].args ELSE <<>>)
  <2>1. PICK c \in CallMaps : c = run[k - 1]
    BY <1>3
  <2>2. PICK d \in SmallDeltas : d = s[k]
    BY <1>3
  <2>3. run[k] = AddDelta(c, d) /\ run[k] \in CallMaps
    BY <1>2, <1>3, <2>1, <2>2
  <2> QED
    BY <2>1, <2>2, <2>3, DeltaIsAdded
<1>5. n \in 0..n
  OBVIOUS
<1>6. s \in Seq(Deltas)
  <2>1. \A k \in 1..n : s[k] \in Deltas
    BY <1>3 DEF SmallDeltas
  <2>2. s \in [1..n -> Deltas]
    BY <1>1, <2>1
  <2> QED
    BY <2>2
<1>7. DOMAIN run[n] = DOMAIN b \cup {d.index : d \in ToSet(s)}
  <2> DEFINE P == {k \in 0..n : DOMAIN run[k] = DOMAIN b \cup {s[j].index : j \in 1..k}}
  <2>1. 0 \in P
    <3>1. 1..0 = {} /\ 0 \in 0..n
      OBVIOUS
    <3> QED
      BY <1>2, <3>1
  <2>2. ASSUME NEW k \in 1..n, k - 1 \in P
        PROVE  k \in P
    <3>1. 1..k = (1..k - 1) \cup {k}
      OBVIOUS
    <3>2. DOMAIN run[k - 1] = DOMAIN b \cup {s[j].index : j \in 1..k - 1}
      BY <2>2
    <3>3. DOMAIN run[k] = DOMAIN run[k - 1] \cup {s[k].index}
      BY <1>4
    <3>4. DOMAIN run[k] = DOMAIN b \cup {s[j].index : j \in 1..k}
      BY <3>1, <3>2, <3>3
    <3> QED
      BY <1>3, <3>4
  <2> HIDE DEF P
  <2>3. 0..n \subseteq P
    BY <2>1, <2>2, AlongTheRun
  <2>4. DOMAIN run[n] = DOMAIN b \cup {s[j].index : j \in 1..n}
    BY <1>5, <2>3 DEF P
  <2>5. ToSet(s) = {s[j] : j \in 1..n}
    BY <1>1 DEF ToSet
  <2> QED
    BY <2>4, <2>5
<1>8. ASSUME NEW i
      PROVE  Part(run[n], i).id = Part(b, i).id \o IdIn(s, i)
  <2>1. PICK f \in [0..n -> Seq(Parts)] :
           /\ f[0] = <<>> /\ f[n] = IdIn(s, i)
           /\ \A k \in 1..n : f[k] = f[k - 1] \o (IF s[k].index = i THEN s[k].id ELSE <<>>)
    BY <1>1, <1>6, IdsAreSpelled
  <2>2. PICK a \in Seq(Parts) : a = Part(b, i).id
    BY PartsAreStrings
  <2> DEFINE P == {k \in 0..n : Part(run[k], i).id = a \o f[k]}
  <2>3. 0 \in P
    <3>1. a \o <<>> = a /\ 0 \in 0..n
      BY ConcatEmptySeq
    <3> QED
      BY <1>2, <2>1, <2>2, <3>1
  <2>4. ASSUME NEW k \in 1..n, k - 1 \in P
        PROVE  k \in P
    <3>1. PICK e \in Seq(Parts) : e = IF s[k].index = i THEN s[k].id ELSE <<>>
      <4>1. s[k].id \in Seq(Parts)
        BY <1>3 DEF SmallDeltas, Deltas, Strings
      <4> QED
        BY <4>1, EmptySeq
    <3>2. PICK g \in Seq(Parts) : g = f[k - 1]
      BY <1>3
    <3>3. Part(run[k - 1], i).id = a \o g
      BY <2>4, <3>2
    <3>4. Part(run[k], i).id = (a \o g) \o e
      <4>1. Part(run[k], i).id = Part(run[k - 1], i).id \o e
        BY <1>4, <3>1
      <4> QED
        BY <3>3, <4>1, Zenon
    <3>5. f[k] = g \o e
      BY <2>1, <3>1, <3>2
    <3>6. (a \o g) \o e = a \o (g \o e)
      BY ONLY a \in Seq(Parts), g \in Seq(Parts), e \in Seq(Parts), ConcatAssociative
    <3> QED
      BY <1>3, <3>4, <3>5, <3>6
  <2> HIDE DEF P
  <2>5. 0..n \subseteq P
    BY <2>3, <2>4, AlongTheRun
  <2> QED
    BY <1>5, <2>1, <2>2, <2>5 DEF P
<1>9. ASSUME NEW i
      PROVE  Part(run[n], i).args = Part(b, i).args \o ArgsIn(s, i)
  <2>1. PICK f \in [0..n -> Seq(Parts)] :
           /\ f[0] = <<>> /\ f[n] = ArgsIn(s, i)
           /\ \A k \in 1..n : f[k] = f[k - 1] \o (IF s[k].index = i THEN s[k].args ELSE <<>>)
    BY <1>1, <1>6, ArgsAreSpelled
  <2>2. PICK a \in Seq(Parts) : a = Part(b, i).args
    BY PartsAreStrings
  <2> DEFINE P == {k \in 0..n : Part(run[k], i).args = a \o f[k]}
  <2>3. 0 \in P
    <3>1. a \o <<>> = a /\ 0 \in 0..n
      BY ConcatEmptySeq
    <3> QED
      BY <1>2, <2>1, <2>2, <3>1
  <2>4. ASSUME NEW k \in 1..n, k - 1 \in P
        PROVE  k \in P
    <3>1. PICK e \in Seq(Parts) : e = IF s[k].index = i THEN s[k].args ELSE <<>>
      <4>1. s[k].args \in Seq(Parts)
        BY <1>3 DEF SmallDeltas, Deltas, Strings
      <4> QED
        BY <4>1, EmptySeq
    <3>2. PICK g \in Seq(Parts) : g = f[k - 1]
      BY <1>3
    <3>3. Part(run[k - 1], i).args = a \o g
      BY <2>4, <3>2
    <3>4. Part(run[k], i).args = (a \o g) \o e
      <4>1. Part(run[k], i).args = Part(run[k - 1], i).args \o e
        BY <1>4, <3>1
      <4> QED
        BY <3>3, <4>1, Zenon
    <3>5. f[k] = g \o e
      BY <2>1, <3>1, <3>2
    <3>6. (a \o g) \o e = a \o (g \o e)
      BY ONLY a \in Seq(Parts), g \in Seq(Parts), e \in Seq(Parts), ConcatAssociative
    <3> QED
      BY <1>3, <3>4, <3>5, <3>6
  <2> HIDE DEF P
  <2>5. 0..n \subseteq P
    BY <2>3, <2>4, AlongTheRun
  <2> QED
    BY <1>5, <2>1, <2>2, <2>5 DEF P
<1>10. run[n] \in CallMaps
  BY <1>5
<1> QED
  BY <1>2, <1>7, <1>8, <1>9, <1>10

(* What a line says, appended to what the lines before it said.            *)
LEMMA LinesSay ==
  ASSUME NEW v \in Seq(Lines), NEW l \in Lines
  PROVE  /\ Text(v) \in Seq(Parts)
         /\ Text(Append(v, l)) = Text(v) \o (IF Said(l) THEN l.text ELSE <<>>)
         /\ Named(Append(v, l)) = Named(v) \cup {d.index : d \in ToSet(CallsOf(l))}
         /\ \A i : /\ Id(v, i) \in Seq(Parts) /\ Args(v, i) \in Seq(Parts)
                   /\ Id(Append(v, l), i) = Id(v, i) \o IdIn(CallsOf(l), i)
                   /\ Args(Append(v, l), i) = Args(v, i) \o ArgsIn(CallsOf(l), i)
<1>1. ASSUME NEW x \in Lines
      PROVE  /\ (IF Said(x) THEN x.text ELSE <<>>) \in Seq(Parts)
             /\ CallsOf(x) \in Seq(Deltas)
  BY StreamAssumption, EmptySeq DEF Said, CallsOf, Strings
<1>2. ASSUME NEW x \in Lines, NEW i
      PROVE  IdIn(CallsOf(x), i) \in Seq(Parts) /\ ArgsIn(CallsOf(x), i) \in Seq(Parts)
  <2>1. PICK s \in Seq(Deltas) : s = CallsOf(x)
    BY <1>1
  <2>2. Len(s) \in 0..Len(s)
    OBVIOUS
  <2>3. PICK f \in [0..Len(s) -> Seq(Parts)] : f[Len(s)] = IdIn(s, i)
    BY IdsAreSpelled
  <2>4. PICK g \in [0..Len(s) -> Seq(Parts)] : g[Len(s)] = ArgsIn(s, i)
    BY ArgsAreSpelled
  <2> QED
    BY <2>1, <2>2, <2>3, <2>4
<1>3. PICK n \in Nat : n = Len(v) /\ DOMAIN v = 1..n
  OBVIOUS
<1>4. PICK w \in Seq(Lines) : w = Append(v, l) /\ OneMore(w, v, l, n)
  BY <1>3, Appended
<1>5. ASSUME NEW u \in Seq(Lines), NEW k \in DOMAIN u
      PROVE  u[k] \in Lines
  OBVIOUS
<1>6. Text(v) \in Seq(Parts) /\ Text(w) = Text(v) \o (IF Said(l) THEN l.text ELSE <<>>)
  <2>1. PICK G \in [Lines -> Seq(Parts)] : \A x \in Lines : G[x] = IF Said(x) THEN x.text ELSE <<>>
    <3> DEFINE G == [x \in Lines |-> IF Said(x) THEN x.text ELSE <<>>]
    <3>1. G \in [Lines -> Seq(Parts)] /\ \A x \in Lines : G[x] = IF Said(x) THEN x.text ELSE <<>>
      BY <1>1
    <3> HIDE DEF G
    <3> QED
      BY <3>1
  <2>2. ASSUME NEW u \in Seq(Lines)
        PROVE  Text(u) = Spoken(G, u)
    <3>1. [k \in DOMAIN u |-> IF Said(u[k]) THEN u[k].text ELSE <<>>] = [k \in DOMAIN u |-> G[u[k]]]
      BY <1>5, <2>1
    <3> QED
      BY <3>1 DEF Text, Spoken
  <2>3. Spoken(G, v) \in Seq(Parts) /\ Spoken(G, w) = Spoken(G, v) \o G[l]
    <3>1. Spoken(G, v) \in Seq(Parts) /\ Spoken(G, Append(v, l)) = Spoken(G, v) \o G[l]
      BY SpokenNext
    <3> QED
      BY ONLY <1>4, <3>1, Zenon
  <2>4. /\ Text(v) = Spoken(G, v) /\ Text(w) = Spoken(G, w)
        /\ G[l] = (IF Said(l) THEN l.text ELSE <<>>)
    BY <2>1, <2>2
  <2> QED
    BY ONLY <2>3, <2>4
<1>7. ASSUME NEW i
      PROVE  Id(v, i) \in Seq(Parts) /\ Id(w, i) = Id(v, i) \o IdIn(CallsOf(l), i)
  <2>1. PICK G \in [Lines -> Seq(Parts)] : \A x \in Lines : G[x] = IdIn(CallsOf(x), i)
    <3> DEFINE G == [x \in Lines |-> IdIn(CallsOf(x), i)]
    <3>1. G \in [Lines -> Seq(Parts)] /\ \A x \in Lines : G[x] = IdIn(CallsOf(x), i)
      BY <1>2
    <3> HIDE DEF G
    <3> QED
      BY <3>1
  <2>2. ASSUME NEW u \in Seq(Lines)
        PROVE  Id(u, i) = Spoken(G, u)
    <3>1. [k \in DOMAIN u |-> IdIn(CallsOf(u[k]), i)] = [k \in DOMAIN u |-> G[u[k]]]
      BY <1>5, <2>1
    <3> QED
      BY <3>1 DEF Id, Spoken
  <2>3. Spoken(G, v) \in Seq(Parts) /\ Spoken(G, w) = Spoken(G, v) \o G[l]
    <3>1. Spoken(G, v) \in Seq(Parts) /\ Spoken(G, Append(v, l)) = Spoken(G, v) \o G[l]
      BY SpokenNext
    <3> QED
      BY ONLY <1>4, <3>1, Zenon
  <2>4. Id(v, i) = Spoken(G, v) /\ Id(w, i) = Spoken(G, w) /\ G[l] = IdIn(CallsOf(l), i)
    BY <2>1, <2>2
  <2> QED
    BY ONLY <2>3, <2>4
<1>8. ASSUME NEW i
      PROVE  Args(v, i) \in Seq(Parts) /\ Args(w, i) = Args(v, i) \o ArgsIn(CallsOf(l), i)
  <2>1. PICK G \in [Lines -> Seq(Parts)] : \A x \in Lines : G[x] = ArgsIn(CallsOf(x), i)
    <3> DEFINE G == [x \in Lines |-> ArgsIn(CallsOf(x), i)]
    <3>1. G \in [Lines -> Seq(Parts)] /\ \A x \in Lines : G[x] = ArgsIn(CallsOf(x), i)
      BY <1>2
    <3> HIDE DEF G
    <3> QED
      BY <3>1
  <2>2. ASSUME NEW u \in Seq(Lines)
        PROVE  Args(u, i) = Spoken(G, u)
    <3>1. [k \in DOMAIN u |-> ArgsIn(CallsOf(u[k]), i)] = [k \in DOMAIN u |-> G[u[k]]]
      BY <1>5, <2>1
    <3> QED
      BY <3>1 DEF Args, Spoken
  <2>3. Spoken(G, v) \in Seq(Parts) /\ Spoken(G, w) = Spoken(G, v) \o G[l]
    <3>1. Spoken(G, v) \in Seq(Parts) /\ Spoken(G, Append(v, l)) = Spoken(G, v) \o G[l]
      BY SpokenNext
    <3> QED
      BY ONLY <1>4, <3>1, Zenon
  <2>4. Args(v, i) = Spoken(G, v) /\ Args(w, i) = Spoken(G, w) /\ G[l] = ArgsIn(CallsOf(l), i)
    BY <2>1, <2>2
  <2> QED
    BY ONLY <2>3, <2>4
<1>9. Named(w) = Named(v) \cup {d.index : d \in ToSet(CallsOf(l))}
  <2>1. DOMAIN w = 1..n + 1 /\ w[n + 1] = l /\ \A k \in 1..n : w[k] = v[k]
    BY <1>4 DEF OneMore
  <2>2. 1..n + 1 = (1..n) \cup {n + 1}
    OBVIOUS
  <2> DEFINE R(x) == {d.index : d \in ToSet(CallsOf(x))}
  <2>3. Named(w) = UNION {R(w[k]) : k \in DOMAIN w} /\ Named(v) = UNION {R(v[k]) : k \in DOMAIN v}
    BY DEF Named
  <2> HIDE DEF R
  <2>4. Named(w) = Named(v) \cup R(l)
    BY <1>3, <2>1, <2>2, <2>3
  <2> QED
    BY <2>4 DEF R
<1> QED
  BY <1>4, <1>6, <1>7, <1>8, <1>9

(* What reading a line that is no error makes of what was read before it.  *)
Reads(p, l, r) ==
  /\ l.kind # "broken" /\ (Said(l) => l.finish \in Finishes)
  /\ r.done <=> p.done \/ l.kind = "done"
  /\ r.finished <=> p.finished \/ (Said(l) /\ l.finish # "none")
  /\ r.text = p.text \o (IF Said(l) THEN l.text ELSE <<>>)
  /\ DOMAIN r.calls = DOMAIN p.calls \cup {d.index : d \in ToSet(CallsOf(l))}
  /\ \A i : /\ Part(r.calls, i).id = Part(p.calls, i).id \o IdIn(CallsOf(l), i)
            /\ Part(r.calls, i).args = Part(p.calls, i).args \o ArgsIn(CallsOf(l), i)

LEMMA NothingSaid ==
  ASSUME NEW l, ~ Said(l)
  PROVE  /\ ToSet(CallsOf(l)) = {}
         /\ \A i : IdIn(CallsOf(l), i) = <<>> /\ ArgsIn(CallsOf(l), i) = <<>>
<1>1. CallsOf(l) = <<>> /\ <<>> \in Seq(Deltas) /\ Len(<<>>) = 0
  BY EmptySeq DEF CallsOf
<1>2. ToSet(<<>>) = {}
  BY DEF ToSet
<1>3. ASSUME NEW i
      PROVE  IdIn(<<>>, i) = <<>> /\ ArgsIn(<<>>, i) = <<>>
  <2>1. PICK s \in Seq(Deltas) : s = <<>> /\ Len(s) = 0
    BY <1>1
  <2>2. PICK f : f[0] = <<>> /\ f[Len(s)] = IdIn(s, i)
    BY IdsAreSpelled
  <2>3. PICK g : g[0] = <<>> /\ g[Len(s)] = ArgsIn(s, i)
    BY ArgsAreSpelled
  <2> QED
    BY <2>1, <2>2, <2>3
<1> QED
  BY <1>1, <1>2, <1>3

LEMMA LineReads ==
  ASSUME Priced(model), NEW p \in Parses, NEW l \in Lines, ~ p.failed,
         NEW r, r = ReadLine(p, l), ~ r.failed
  PROVE  Reads(p, l, r)
<1>0. /\ l.kind \in {"noise", "done", "broken", "event"}
      /\ l.kind = "event" => l.text \in Strings /\ l.calls \in Seq(Deltas)
  BY StreamAssumption
<1>1. /\ p.text \in Seq(Parts) /\ p.calls \in CallMaps
      /\ p.finished \in BOOLEAN /\ p.done \in BOOLEAN /\ p.failed \in BOOLEAN
  BY DEF Parses, Strings
<1>2. ASSUME NEW i
      PROVE  /\ Part(p.calls, i).id \o <<>> = Part(p.calls, i).id
             /\ Part(p.calls, i).args \o <<>> = Part(p.calls, i).args
  <2>1. PICK c \in CallMaps : c = p.calls
    BY <1>1
  <2>2. Part(c, i).id \in Seq(Parts) /\ Part(c, i).args \in Seq(Parts)
    BY PartsAreStrings
  <2> QED
    BY <2>1, <2>2, ConcatEmptySeq
<1>3. p.text \o <<>> = p.text
  BY <1>1, ConcatEmptySeq
<1>4. CASE ~ Said(l)
  <2>1. l.kind \in {"noise", "done"}
    <3>1. l.kind # "broken"
      <4> SUFFICES ASSUME l.kind = "broken" PROVE FALSE
        OBVIOUS
      <4>1. r = [p EXCEPT !.failed = TRUE]
        BY DEF ReadLine
      <4> QED
        BY <4>1 DEF Parses
    <3> QED
      BY <1>0, <1>4, <3>1 DEF Said
  <2>2. r = IF l.kind = "done" THEN [p EXCEPT !.done = TRUE] ELSE p
    BY <2>1 DEF ReadLine
  <2>3. /\ r.done <=> p.done \/ l.kind = "done"
        /\ r.finished = p.finished /\ r.text = p.text /\ r.calls = p.calls
    BY <2>1, <2>2 DEF Parses
  <2>4. /\ ToSet(CallsOf(l)) = {}
        /\ \A i : IdIn(CallsOf(l), i) = <<>> /\ ArgsIn(CallsOf(l), i) = <<>>
    BY <1>4, NothingSaid
  <2>5. /\ l.kind # "broken" /\ (Said(l) => l.finish \in Finishes)
        /\ r.finished <=> p.finished \/ (Said(l) /\ l.finish # "none")
    BY <1>1, <1>4, <2>1, <2>3
  <2>6. r.text = p.text \o (IF Said(l) THEN l.text ELSE <<>>)
    BY <1>3, <1>4, <2>3
  <2>7. DOMAIN r.calls = DOMAIN p.calls \cup {d.index : d \in ToSet(CallsOf(l))}
    BY <2>3, <2>4
  <2>8. \A i : /\ Part(r.calls, i).id = Part(p.calls, i).id \o IdIn(CallsOf(l), i)
               /\ Part(r.calls, i).args = Part(p.calls, i).args \o ArgsIn(CallsOf(l), i)
    BY <1>2, <2>3, <2>4
  <2> QED
    BY <2>1, <2>3, <2>5, <2>6, <2>7, <2>8 DEF Reads
<1>5. CASE Said(l)
  <2>0. l.kind = "event" /\ CallsOf(l) = l.calls
    BY <1>5 DEF Said, CallsOf
  <2> DEFINE metered == [p EXCEPT !.charge = IF l.usage = None THEN @
                                           ELSE UsageCharge(model, l.usage[1])]
             spoken == [metered EXCEPT !.finished = @ \/ l.finish # "none", !.text = @ \o l.text]
  <2>1. r = IF l.finish \notin {"none", "stop", "tool_calls"} THEN [metered EXCEPT !.failed = TRUE]
            ELSE IF \E d \in ToSet(l.calls) : d.index >= MaxCalls
                 THEN [spoken EXCEPT !.failed = TRUE]
            ELSE [spoken EXCEPT !.calls = FoldLeft(AddDelta, @, l.calls)]
    BY <2>0 DEF ReadLine, ReadEvent
  <2>2. "failed" \in DOMAIN p /\ {"calls", "finished", "text", "done"} \subseteq DOMAIN p
    BY DEF Parses
  <2>3. /\ DOMAIN metered = DOMAIN p /\ metered.text = p.text /\ metered.finished = p.finished
        /\ metered.done = p.done /\ metered.calls = p.calls
    BY <2>2
  <2> HIDE DEF metered
  <2>4. /\ DOMAIN spoken = DOMAIN p /\ spoken.text = p.text \o l.text
        /\ spoken.finished = (p.finished \/ l.finish # "none")
        /\ spoken.done = p.done /\ spoken.calls = p.calls
    BY <2>2, <2>3
  <2> HIDE DEF spoken
  <2>5. l.finish \in Finishes
    <3> SUFFICES ASSUME l.finish \notin Finishes PROVE FALSE
      OBVIOUS
    <3>1. r = [metered EXCEPT !.failed = TRUE]
      BY <2>1 DEF Finishes
    <3> QED
      BY <2>2, <2>3, <3>1
  <2>6. ~ \E d \in ToSet(l.calls) : d.index >= MaxCalls
    <3> SUFFICES ASSUME \E d \in ToSet(l.calls) : d.index >= MaxCalls PROVE FALSE
      OBVIOUS
    <3>1. r = [spoken EXCEPT !.failed = TRUE]
      BY <2>1, <2>5 DEF Finishes
    <3> QED
      BY <2>2, <2>4, <3>1
  <2>7. r = [spoken EXCEPT !.calls = FoldLeft(AddDelta, p.calls, l.calls)]
    BY <2>1, <2>4, <2>5, <2>6 DEF Finishes
  <2>8. /\ r.done = p.done /\ r.text = p.text \o l.text
        /\ r.finished = (p.finished \/ l.finish # "none")
        /\ r.calls = FoldLeft(AddDelta, p.calls, l.calls)
    BY <2>2, <2>4, <2>7
  <2>9. PICK s \in Seq(SmallDeltas) : s = l.calls
    <3>1. PICK c \in Seq(Deltas) : c = l.calls
      BY <1>0, <2>0
    <3>2. ASSUME NEW n \in 1..Len(c)
          PROVE  c[n] \in SmallDeltas
      <4>1. c[n] \in Deltas /\ n \in DOMAIN c
        OBVIOUS
      <4>2. ~ (c[n].index >= MaxCalls)
        BY <2>6, <3>1, <4>1 DEF ToSet
      <4>3. c[n].index < MaxCalls
        BY <4>1, <4>2, StreamAssumption DEF Deltas
      <4> QED
        BY <4>1, <4>3 DEF SmallDeltas
    <3>3. c \in [1..Len(c) -> SmallDeltas] /\ Len(c) \in Nat
      BY <3>2
    <3>4. c \in Seq(SmallDeltas)
      BY <3>3
    <3> QED
      BY <3>1, <3>4
  <2>10. PICK b \in CallMaps : b = p.calls
    BY <1>1
  <2>11. PICK q : q = FoldLeft(AddDelta, b, s)
    OBVIOUS
  <2>12. /\ DOMAIN q = DOMAIN b \cup {d.index : d \in ToSet(s)}
         /\ \A i : /\ Part(q, i).id = Part(b, i).id \o IdIn(s, i)
                   /\ Part(q, i).args = Part(b, i).args \o ArgsIn(s, i)
    BY <2>11, DeltasSpell
  <2>13. r.calls = q
    BY <2>8, <2>9, <2>10, <2>11
  <2>14. /\ l.kind # "broken" /\ (Said(l) => l.finish \in Finishes)
         /\ r.done <=> p.done \/ l.kind = "done"
         /\ r.finished <=> p.finished \/ (Said(l) /\ l.finish # "none")
    BY <1>1, <1>5, <2>0, <2>5, <2>8
  <2>15. r.text = p.text \o (IF Said(l) THEN l.text ELSE <<>>)
    BY <1>5, <2>8
  <2> QED
    BY <2>0, <2>9, <2>10, <2>12, <2>13, <2>14, <2>15 DEF Reads
<1> QED
  BY <1>4, <1>5

(* What lines that were read without an error said is what was read.       *)
SaidBy(v, p) ==
  /\ p.done <=> \E n \in DOMAIN v : v[n].kind = "done"
  /\ p.finished <=> \E n \in DOMAIN v : Said(v[n]) /\ v[n].finish # "none"
  /\ \A n \in DOMAIN v : v[n].kind # "broken" /\ (Said(v[n]) => v[n].finish \in Finishes)
  /\ p.text = Text(v)
  /\ DOMAIN p.calls = Named(v)
  /\ \A i : Part(p.calls, i).id = Id(v, i) /\ Part(p.calls, i).args = Args(v, i)

LEMMA NothingIsSaid ==
  SaidBy(<<>>, NoParse)
<1>1. DOMAIN <<>> = {} /\ Len(<<>>) = 0 /\ [k \in {} |-> <<>>] = <<>>
  OBVIOUS
<1>2. /\ ~ NoParse.done /\ ~ NoParse.finished /\ NoParse.text = <<>> /\ NoParse.calls = <<>>
  BY DEF NoParse
<1>3. FlattenSeq(<<>>) = <<>>
  BY <1>1 DEF FlattenSeq
<1>4. Text(<<>>) = <<>> /\ Named(<<>>) = {}
  <2>1. [n \in {} |-> IF Said(<<>>[n]) THEN <<>>[n].text ELSE <<>>] = <<>>
    OBVIOUS
  <2> QED
    BY <1>1, <1>3, <2>1 DEF Text, Named
<1>5. ASSUME NEW i
      PROVE  /\ Id(<<>>, i) = <<>> /\ Args(<<>>, i) = <<>>
             /\ Part(<<>>, i) = [id |-> <<>>, args |-> <<>>]
  <2>1. /\ [n \in {} |-> IdIn(CallsOf(<<>>[n]), i)] = <<>>
        /\ [n \in {} |-> ArgsIn(CallsOf(<<>>[n]), i)] = <<>>
    OBVIOUS
  <2> QED
    BY <1>1, <1>3, <2>1 DEF Id, Args, Part
<1>6. \A i : Part(NoParse.calls, i).id = Id(<<>>, i) /\ Part(NoParse.calls, i).args = Args(<<>>, i)
  BY <1>2, <1>5
<1> QED
  BY <1>1, <1>2, <1>4, <1>6 DEF SaidBy

LEMMA SaidNext ==
  ASSUME NEW v \in Seq(Lines), NEW l \in Lines, NEW p, NEW r, SaidBy(v, p), Reads(p, l, r)
  PROVE  SaidBy(Append(v, l), r)
<1>1. PICK n \in Nat : n = Len(v) /\ DOMAIN v = 1..n
  OBVIOUS
<1>2. PICK w \in Seq(Lines) : w = Append(v, l) /\ OneMore(w, v, l, n)
  BY <1>1, Appended
<1>3. DOMAIN w = (1..n) \cup {n + 1} /\ w[n + 1] = l /\ \A k \in 1..n : w[k] = v[k]
  <2>1. 1..n + 1 = (1..n) \cup {n + 1}
    OBVIOUS
  <2> QED
    BY <1>2, <2>1 DEF OneMore
<1>4. /\ Text(w) = Text(v) \o (IF Said(l) THEN l.text ELSE <<>>)
      /\ Named(w) = Named(v) \cup {d.index : d \in ToSet(CallsOf(l))}
      /\ \A i : /\ Id(w, i) = Id(v, i) \o IdIn(CallsOf(l), i)
                /\ Args(w, i) = Args(v, i) \o ArgsIn(CallsOf(l), i)
  BY <1>2, LinesSay
<1>5. r.done <=> \E k \in DOMAIN w : w[k].kind = "done"
  BY <1>1, <1>3 DEF SaidBy, Reads
<1>6. r.finished <=> \E k \in DOMAIN w : Said(w[k]) /\ w[k].finish # "none"
  BY <1>1, <1>3 DEF SaidBy, Reads
<1>7. \A k \in DOMAIN w : w[k].kind # "broken" /\ (Said(w[k]) => w[k].finish \in Finishes)
  BY <1>1, <1>3 DEF SaidBy, Reads
<1>8. r.text = Text(w) /\ DOMAIN r.calls = Named(w)
  BY <1>4, Zenon DEF SaidBy, Reads
<1>9. ASSUME NEW i
      PROVE  Part(r.calls, i).id = Id(w, i) /\ Part(r.calls, i).args = Args(w, i)
  <2>1. Part(p.calls, i).id = Id(v, i) /\ Part(p.calls, i).args = Args(v, i)
    BY DEF SaidBy
  <2>2. /\ Part(r.calls, i).id = Part(p.calls, i).id \o IdIn(CallsOf(l), i)
        /\ Part(r.calls, i).args = Part(p.calls, i).args \o ArgsIn(CallsOf(l), i)
    BY DEF Reads
  <2>3. /\ Id(w, i) = Id(v, i) \o IdIn(CallsOf(l), i)
        /\ Args(w, i) = Args(v, i) \o ArgsIn(CallsOf(l), i)
    BY <1>4
  <2> QED
    BY ONLY <2>1, <2>2, <2>3, Zenon
<1>10. SaidBy(w, r)
  BY <1>5, <1>6, <1>7, <1>8, <1>9 DEF SaidBy
<1> QED
  BY <1>2, <1>10

(* How many indices there are up to one, among a set of them.              *)
LEMMA Placed ==
  ASSUME NEW D \in SUBSET (0..MaxCalls - 1), NEW k \in 1..MaxCalls
  PROVE  /\ IsFiniteSet(D)
         /\ Cardinality({j \in D : j < k}) \in Nat
         /\ k - 1 \notin D => {j \in D : j < k} = {j \in D : j < k - 1}
         /\ k - 1 \in D =>
              /\ Cardinality({j \in D : j < k}) = Cardinality({j \in D : j < k - 1}) + 1
              /\ Place(k - 1, D) = Cardinality({j \in D : j < k})
         /\ \A i \in D : i < k => Place(i, D) \in 1..Cardinality({j \in D : j < k})
<1>1. MaxCalls \in Nat /\ k \in Nat /\ D \subseteq Nat
  BY StreamAssumption
<1>2. IsFiniteSet(D)
  <2>1. IsFiniteSet(0..MaxCalls - 1)
    BY <1>1, FS_Interval
  <2> QED
    BY <2>1, FS_Subset
<1> DEFINE Below == {j \in D : j < k}
           Before == {j \in D : j < k - 1}
<1>3. /\ IsFiniteSet(Below) /\ Cardinality(Below) \in Nat
      /\ IsFiniteSet(Before) /\ Cardinality(Before) \in Nat
  <2>1. Below \in SUBSET D /\ Before \in SUBSET D
    OBVIOUS
  <2> HIDE DEF Below, Before
  <2>2. IsFiniteSet(Below) /\ IsFiniteSet(Before)
    BY <1>2, <2>1, FS_Subset
  <2> QED
    BY <2>2, FS_CardinalityType
<1>4. ASSUME k - 1 \notin D
      PROVE  Below = Before
  <2>1. \A j \in D : j < k <=> j < k - 1
    BY <1>1, <1>4
  <2> QED
    BY <2>1
<1>5. ASSUME k - 1 \in D
      PROVE  Cardinality(Below) = Cardinality(Before) + 1 /\ Place(k - 1, D) = Cardinality(Below)
  <2>1. \A j \in D : j < k <=> j < k - 1 \/ j = k - 1
    BY <1>1
  <2>2. Below = Before \cup {k - 1} /\ k - 1 \notin Before
    <3>1. ~ (k - 1 < k - 1)
      BY <1>1
    <3>2. \A j : j \in Below <=> j \in Before \/ j = k - 1
      BY <1>5, <2>1
    <3> QED
      BY <3>1, <3>2
  <2>3. \A j \in D : j <= k - 1 <=> j < k
    BY <1>1
  <2>4. {j \in D : j <= k - 1} = Below
    BY <2>3
  <2> HIDE DEF Below, Before
  <2>5. Cardinality(Before \cup {k - 1}) = Cardinality(Before) + 1
    BY <1>3, <2>2, FS_AddElement
  <2> QED
    BY <2>2, <2>4, <2>5 DEF Place
<1>6. ASSUME NEW i \in D, i < k
      PROVE  Place(i, D) \in 1..Cardinality(Below)
  <2> DEFINE UpTo == {j \in D : j <= i}
  <2>0. i \in Nat /\ i <= i /\ \A j \in D : j <= i => j < k
    BY <1>1, <1>6
  <2>1. i \in UpTo /\ UpTo \in SUBSET Below /\ UpTo # {}
    BY <2>0
  <2>2. Place(i, D) = Cardinality(UpTo)
    BY DEF Place
  <2> HIDE DEF UpTo, Below
  <2>3. IsFiniteSet(UpTo) /\ Cardinality(UpTo) <= Cardinality(Below)
    BY <1>3, <2>1, FS_Subset
  <2>4. Cardinality(UpTo) \in Nat /\ Cardinality(UpTo) # 0
    BY <2>1, <2>3, FS_CardinalityType, FS_EmptySet
  <2> QED
    BY <1>3, <2>2, <2>3, <2>4
<1> QED
  BY <1>2, <1>3, <1>4, <1>5, <1>6

(* The calls of an answer: those of the map, by their index.               *)
Called(part) == [id |-> part.id, object |-> Parsed(part.args) = "object"]

OrderedCalls(list, calls) ==
  /\ list \in Seq(ToolCalls) /\ Len(list) = Cardinality(DOMAIN calls)
  /\ \A i \in DOMAIN calls : list[Place(i, DOMAIN calls)] = Called(calls[i])

LEMMA CallsComeInOrder ==
  ASSUME NEW calls \in CallMaps
  PROVE  OrderedCalls(CallsInOrder(calls), calls)
<1> DEFINE s == [n \in 1..MaxCalls |-> IF n - 1 \in DOMAIN calls THEN Some(calls[n - 1]) ELSE None]
<1>0. MaxCalls \in Nat
  BY StreamAssumption
<1>1. \A n \in 1..MaxCalls : s[n] \in Slots
  BY CallMapsAreMaps DEF Slots
<1>2. s \in [1..MaxCalls -> Slots]
  BY <1>1
<1>3. /\ CallsInOrder(calls) = FoldLeft(AddCall, <<>>, s)
      /\ \A n \in 1..MaxCalls :
           s[n] = IF n - 1 \in DOMAIN calls THEN Some(calls[n - 1]) ELSE None
  BY DEF CallsInOrder
<1> HIDE DEF s
<1>4. s \in Seq(Slots) /\ Len(s) = MaxCalls
  BY <1>0, <1>2
<1>5. PICK run \in [0..MaxCalls -> Seq(ToolCalls)] :
         /\ run[0] = <<>>
         /\ \A k \in 1..MaxCalls : run[k] = AddCall(run[k - 1], s[k])
         /\ FoldLeft(AddCall, <<>>, s) = run[MaxCalls]
  <2>1. \E run \in [0..Len(s) -> Seq(ToolCalls)] :
           /\ run[0] = <<>>
           /\ \A k \in 1..Len(s) : run[k] = AddCall(run[k - 1], s[k])
           /\ FoldLeft(AddCall, <<>>, s) = run[Len(s)]
    BY <1>4, CallsAreCollected
  <2> QED
    BY <1>4, <2>1
<1>6. PICK D \in SUBSET (0..MaxCalls - 1) :
         D = DOMAIN calls /\ \A i \in D : calls[i] \in CallParts
  BY CallMapsAreMaps
<1> DEFINE P == {k \in 0..MaxCalls :
                   /\ Len(run[k]) = Cardinality({j \in D : j < k})
                   /\ \A i \in D : i < k => run[k][Place(i, D)] = Called(calls[i])}
<1>7. 0 \in P
  <2>1. \A i \in D : ~ (i < 0)
    BY <1>0
  <2>2. {j \in D : j < 0} = {}
    BY <2>1
  <2>3. Len(run[0]) = 0 /\ 0 \in 0..MaxCalls
    BY <1>0, <1>5
  <2> QED
    BY <2>1, <2>2, <2>3, FS_EmptySet
<1>8. ASSUME NEW k \in 1..MaxCalls, k - 1 \in P
      PROVE  k \in P
  <2>1. k \in 0..MaxCalls /\ k - 1 \in 0..MaxCalls /\ k \in Nat
    BY <1>0
  <2>2. PICK list \in Seq(ToolCalls) : list = run[k - 1]
    BY <1>5, <2>1
  <2>3. /\ Len(list) = Cardinality({j \in D : j < k - 1})
        /\ \A i \in D : i < k - 1 => list[Place(i, D)] = Called(calls[i])
    BY <1>8, <2>2
  <2>4. \A i \in D : i \in Nat /\ (i < k <=> i < k - 1 \/ i = k - 1)
    BY <1>0, <2>1
  <2>5. CASE k - 1 \notin D
    <3>1. run[k] = list
      BY <1>3, <1>5, <1>6, <2>2, <2>5 DEF AddCall
    <3>2. {j \in D : j < k} = {j \in D : j < k - 1}
      BY <2>5, Placed
    <3>3. \A i \in D : i < k => i < k - 1
      BY <2>4, <2>5
    <3> QED
      BY <2>1, <2>3, <3>1, <3>2, <3>3
  <2>6. CASE k - 1 \in D
    <3>1. PICK c \in ToolCalls : c = Called(calls[k - 1])
      <4>1. calls[k - 1].id \in Strings
        BY <1>6, <2>6 DEF CallParts
      <4>2. Called(calls[k - 1]) \in ToolCalls
        BY <4>1 DEF Called, ToolCalls
      <4> QED
        BY <4>2
    <3>2. run[k] = Append(list, c)
      <4>1. s[k] = Some(calls[k - 1])
        BY <1>3, <1>6, <2>6
      <4>2. AddCall(list, Some(calls[k - 1])) = Append(list, c)
        BY <3>1 DEF AddCall, Some, None, Called
      <4> QED
        BY <1>5, <2>2, <4>1, <4>2
    <3>3. PICK n \in Nat : n = Len(list)
      OBVIOUS
    <3>4. OneMore(run[k], list, c, n)
      <4>1. OneMore(Append(list, c), list, c, n)
        BY <3>3, Appended
      <4> QED
        BY ONLY <3>2, <4>1
    <3>5. /\ Len(run[k]) = n + 1 /\ run[k][n + 1] = c
          /\ \A m \in 1..n : run[k][m] = list[m]
      BY <3>4 DEF OneMore
    <3>6. /\ Cardinality({j \in D : j < k}) = n + 1
          /\ Place(k - 1, D) = n + 1
      BY <2>3, <2>6, <3>3, Placed
    <3>7. ASSUME NEW i \in D, i < k - 1
          PROVE  Place(i, D) \in 1..n
      <4>1. k - 1 \in 1..MaxCalls
        BY <1>0, <2>1, <2>4, <3>7
      <4> QED
        BY <2>3, <3>3, <3>7, <4>1, Placed
    <3>8. ASSUME NEW i \in D, i < k
          PROVE  run[k][Place(i, D)] = Called(calls[i])
      <4>1. CASE i < k - 1
        BY <2>3, <3>5, <3>7, <4>1
      <4>2. CASE i = k - 1
        BY <3>1, <3>5, <3>6, <4>2
      <4> QED
        BY <2>4, <3>8, <4>1, <4>2
    <3> QED
      BY <2>1, <3>5, <3>6, <3>8
  <2> QED
    BY <2>5, <2>6
<1> HIDE DEF P
<1>9. 0..MaxCalls \subseteq P
  BY <1>0, <1>7, <1>8, AlongTheRun
<1>10. MaxCalls \in 0..MaxCalls
  BY <1>0
<1>11. /\ Len(run[MaxCalls]) = Cardinality({j \in D : j < MaxCalls})
       /\ \A i \in D : i < MaxCalls => run[MaxCalls][Place(i, D)] = Called(calls[i])
  BY <1>9, <1>10 DEF P
<1>12. {j \in D : j < MaxCalls} = D /\ \A i \in D : i < MaxCalls
  <2>1. \A i \in D : i < MaxCalls
    BY <1>0
  <2> QED
    BY <2>1
<1>13. run[MaxCalls] \in Seq(ToolCalls)
  BY <1>5, <1>10
<1> QED
  BY <1>3, <1>5, <1>6, <1>11, <1>12, <1>13 DEF OrderedCalls

(***************************************************************************)
(* The invariant.  What was charged so far is the price of the last usage  *)
(* on the lines that were read.                                            *)
(***************************************************************************)
MeteredUpTo(w, n) == {k \in 1..n : Metered(w[k])}

ChargedUpTo(w, n, charge) ==
  charge = IF MeteredUpTo(w, n) = {} THEN None
           ELSE UsageCharge(model, w[Max(MeteredUpTo(w, n))].usage[1])

(* The parts of the invariant: what was submitted is valid, an answer is   *)
(* an assistant's and, of a stream, all that was read of it; nothing is    *)
(* left of a turn when the next one begins, and only a stream that did not *)
(* fail goes on: what was read is what its lines said, and their price.    *)
Submitted == status # "ready" => ValidTurn(messages)

Complete(calls, text, charge) ==
  /\ OrderedCalls(calls, parse.calls) /\ text = parse.text
  /\ charge = parse.charge /\ charge # None
  /\ parse.finished /\ parse.done

Answered ==
  /\ status # "answered" => answer = NoAnswer
  /\ status = "answered" => answer.message.role = "assistant"
  /\ status = "answered" /\ AdapterOf(model) = "chat_completions" =>
       Complete(answer.message.calls, answer.text, answer.charge)

Streamed ==
  /\ status = "ready" => wire = <<>> /\ sent = 0 /\ parse = NoParse
  /\ AdapterOf(model) # "chat_completions" => parse = NoParse
  /\ status = "working" => ~ parse.failed
  /\ status \in {"working", "answered"} =>
       ChargedUpTo(wire, sent \div 2, parse.charge) /\ SaidBy(Whole, parse)

ConversationInv ==
  /\ ConversationTypeOK /\ ValidModelsAreReachable /\ Submitted /\ Answered /\ Streamed

LEMMA ValidModels ==
  ASSUME NEW m \in Models, ModelValid(m)
  PROVE  HasEndpoint(m) /\ Priced(m) /\ AdapterOf(m) \in WireApis
<1>1. /\ m.provider \in Providers /\ m.wire \in WireApis
      /\ m.inputPrice \in Int /\ m.outputPrice \in Int /\ m.maxInput \in Nat /\ m.maxOutput \in Nat
  BY StreamAssumption, ChargesAssumption DEF I64
<1>2. Priced(m)
  BY <1>1 DEF Priced, ModelValid
<1>3. HasEndpoint(m) /\ AdapterOf(m) \in WireApis
  BY <1>1 DEF HasEndpoint, AdapterOf, ModelValid, Providers, WireApis
<1> QED
  BY <1>2, <1>3

(* One more line was read.                                                 *)
LEMMA MeteredNext ==
  ASSUME NEW w \in Seq(Lines), NEW n \in 1..Len(w)
  PROVE  /\ Metered(w[n]) => MeteredUpTo(w, n) # {} /\ Max(MeteredUpTo(w, n)) = n
         /\ ~ Metered(w[n]) => MeteredUpTo(w, n) = MeteredUpTo(w, n - 1)
<1>0. n \in Nat /\ n \in 1..n
  OBVIOUS
<1>1. MeteredUpTo(w, n) \in SUBSET (1..n)
  BY DEF MeteredUpTo
<1>2. CASE Metered(w[n])
  <2>1. n \in MeteredUpTo(w, n)
    BY <1>0, <1>2 DEF MeteredUpTo
  <2>2. Max(MeteredUpTo(w, n)) \in 1..n /\ n <= Max(MeteredUpTo(w, n))
    BY <1>0, <1>1, <2>1, MaxOfSome
  <2> QED
    BY <1>2, <2>1, <2>2
<1>3. CASE ~ Metered(w[n])
  <2>1. \A k \in 1..n : k \in 1..n - 1 \/ k = n
    BY <1>0
  <2>2. \A k \in 1..n - 1 : k \in 1..n
    BY <1>0
  <2> QED
    BY <1>3, <2>1, <2>2 DEF MeteredUpTo
<1> QED
  BY <1>2, <1>3

(* One more line, of as many as were read.                                 *)
LEMMA OneLineMore ==
  ASSUME NEW w \in Seq(Lines), NEW n \in 1..Len(w)
  PROVE  /\ SubSeq(w, 1, n - 1) \in Seq(Lines)
         /\ SubSeq(w, 1, n) = Append(SubSeq(w, 1, n - 1), w[n])
<1>1. PICK m \in Nat : m = Len(w) /\ \A k \in 1..m : w[k] \in Lines
  OBVIOUS
<1>2. n \in Nat /\ 1 \in 1..Len(w) /\ n \in 1..Len(w) /\ w[n] \in Lines /\ n - 1 \in Int
  BY <1>1
<1>3. PICK u \in Seq(Lines) : u = SubSeq(w, 1, n - 1)
  <2>1. \A k \in 1..n - 1 : w[k] \in Lines
    BY <1>1
  <2>2. 1 \in Int /\ n - 1 \in Int
    BY <1>2
  <2>3. SubSeq(w, 1, n - 1) \in Seq(Lines)
    BY <2>1, <2>2, SubSeqProperties
  <2> QED
    BY <2>3, Zenon
<1>4. SubSeq(w, 1, n) = SubSeq(w, 1, n - 1) \o <<w[n]>>
  BY <1>2, SubSeqRecursiveSecond
<1>5. Append(u, w[n]) = u \o <<w[n]>>
  BY <1>2, AppendIsConcat
<1> QED
  BY ONLY <1>3, <1>4, <1>5, Zenon

(* What a chunk does to what was read before it.                           *)
LEMMA ChunkRead ==
  ASSUME Priced(model), NEW w \in Seq(Lines), NEW n \in Nat, NEW e \in Nat, n <= e, e <= Len(w),
         NEW b \in Parses
  PROVE  LET r == FoldLeft(ReadLine, b, SubSeq(w, n + 1, e))
         IN /\ r \in Parses /\ Begins(b.text, r.text)
            /\ ~ r.failed /\ ChargedUpTo(w, n, b.charge) => ChargedUpTo(w, e, r.charge)
            /\ ~ r.failed /\ SaidBy(SubSeq(w, 1, n), b) => SaidBy(SubSeq(w, 1, e), r)
<1> DEFINE s == SubSeq(w, n + 1, e)
<1>0. Len(w) \in Nat /\ \A i \in 1..Len(w) : w[i] \in Lines
  OBVIOUS
<1>1. /\ s \in Seq(Lines) /\ Len(s) = e - n
      /\ \A k \in 1..e - n : s[k] = w[n + k]
  <2>1. n + 1 \in Int /\ e \in Int /\ \A i \in n + 1..e : w[i] \in Lines
    BY <1>0
  <2>2. /\ s \in Seq(Lines) /\ Len(s) = IF n + 1 <= e THEN e - (n + 1) + 1 ELSE 0
        /\ \A k \in 1..e - (n + 1) + 1 : s[k] = w[n + 1 + k - 1]
    BY <2>1, SubSeqProperties
  <2>3. e - (n + 1) + 1 = e - n /\ \A k \in 1..e - n : n + 1 + k - 1 = n + k
    OBVIOUS
  <2> HIDE DEF s
  <2> QED
    BY <2>2, <2>3
<1> HIDE DEF s
<1>2. Len(s) \in Nat
  BY <1>1
<1>3. PICK run \in [0..Len(s) -> Parses] :
         /\ run[0] = b
         /\ \A k \in 1..Len(s) : run[k] = ReadLine(run[k - 1], s[k])
         /\ FoldLeft(ReadLine, b, s) = run[Len(s)]
  BY <1>1, LinesAreRead
<1> DEFINE Q(k) == /\ Begins(b.text, run[k].text)
                   /\ ~ run[k].failed /\ ChargedUpTo(w, n, b.charge) =>
                        ChargedUpTo(w, n + k, run[k].charge)
                   /\ ~ run[k].failed /\ SaidBy(SubSeq(w, 1, n), b) =>
                        SaidBy(SubSeq(w, 1, n + k), run[k])
           P == {k \in 0..Len(s) : Q(k)}
<1>4. 0 \in P
  <2>1. Begins(b.text, b.text)
    BY SubSeqFull DEF Begins, Parses, Strings
  <2>2. n + 0 = n /\ 0 \in 0..Len(s)
    BY <1>2
  <2> QED
    BY <1>3, <2>1, <2>2
<1>5. ASSUME NEW k \in 1..Len(s), k - 1 \in P
      PROVE  k \in P
  <2>0. /\ k \in 0..Len(s) /\ k - 1 \in 0..Len(s) /\ s[k] \in Lines /\ n + k \in 1..Len(w)
        /\ s[k] = w[n + k] /\ n + (k - 1) = n + k - 1
    BY <1>0, <1>1, <1>2
  <2>1. PICK p \in Parses : p = run[k - 1]
    BY <1>3, <2>0
  <2>2. PICK r \in Parses : r = run[k]
    BY <1>3, <2>0
  <2>3. /\ Begins(p.text, r.text)
        /\ p.failed => r = p
        /\ ~ p.failed =>
             r.charge = IF Metered(s[k]) THEN UsageCharge(model, s[k].usage[1]) ELSE p.charge
    <3>1. r = ReadLine(p, s[k])
      BY <1>3, <2>1, <2>2
    <3> QED
      BY <2>0, <3>1, LineRead
  <2>4. Q(k - 1)
    BY <1>5
  <2>5. Begins(b.text, r.text)
    <3>1. b.text \in Seq(Parts) /\ p.text \in Seq(Parts) /\ r.text \in Seq(Parts)
      BY DEF Parses, Strings
    <3>2. Begins(b.text, p.text)
      BY <2>1, <2>4
    <3> QED
      BY <2>3, <3>1, <3>2, BeginsIsTransitive
  <2>6. ASSUME ~ r.failed, ChargedUpTo(w, n, b.charge)
        PROVE  ChargedUpTo(w, n + k, r.charge)
    <3>1. ~ p.failed
      BY <2>3, <2>6
    <3>2. ChargedUpTo(w, n + k - 1, p.charge)
      BY <2>0, <2>1, <2>4, <2>6, <3>1
    <3>3. CASE Metered(w[n + k])
      <4>1. r.charge = UsageCharge(model, w[n + k].usage[1])
        BY <2>0, <2>3, <3>1, <3>3
      <4> QED
        BY <2>0, <3>3, <4>1, MeteredNext DEF ChargedUpTo
    <3>4. CASE ~ Metered(w[n + k])
      <4>1. r.charge = p.charge
        BY <2>0, <2>3, <3>1, <3>4
      <4>2. MeteredUpTo(w, n + k) = MeteredUpTo(w, n + k - 1)
        BY <2>0, <3>4, MeteredNext
      <4> QED
        BY <3>2, <4>1, <4>2 DEF ChargedUpTo
    <3> QED
      BY <3>3, <3>4
  <2>7. ASSUME ~ r.failed, SaidBy(SubSeq(w, 1, n), b)
        PROVE  SaidBy(SubSeq(w, 1, n + k), r)
    <3>1. ~ p.failed
      BY <2>3, <2>7
    <3>2. SaidBy(SubSeq(w, 1, n + k - 1), p)
      BY <2>0, <2>1, <2>4, <2>7, <3>1
    <3>3. Reads(p, s[k], r)
      <4>1. r = ReadLine(p, s[k])
        BY <1>3, <2>1, <2>2
      <4> QED
        BY <2>0, <2>7, <3>1, <4>1, LineReads
    <3>4. PICK m \in 1..Len(w) : m = n + k
      BY <2>0
    <3>5. PICK v \in Seq(Lines) : v = SubSeq(w, 1, m - 1) /\ SubSeq(w, 1, m) = Append(v, w[m])
      BY OneLineMore
    <3>6. PICK l \in Lines : l = w[m]
      BY <2>0, <3>4
    <3>7. SaidBy(v, p) /\ Reads(p, l, r)
      BY <2>0, <3>2, <3>3, <3>4, <3>5, <3>6
    <3>8. SaidBy(Append(v, l), r)
      BY <3>7, SaidNext
    <3> QED
      BY ONLY <3>4, <3>5, <3>6, <3>8, Zenon
  <2> QED
    BY <2>0, <2>2, <2>5, <2>6, <2>7
<1> HIDE DEF P
<1>6. 0..Len(s) \subseteq P
  BY <1>2, <1>4, <1>5, AlongTheRun
<1>7. Len(s) \in 0..Len(s) /\ n + Len(s) = e
  BY <1>1, <1>2
<1>8. Q(Len(s)) /\ run[Len(s)] \in Parses
  BY <1>6, <1>7 DEF P
<1> QED
  BY <1>3, <1>7, <1>8 DEF s

LEMMA ParsesAreTyped ==
  ASSUME NEW p
  PROVE  p \in Parses <=>
           /\ p \in [text : Strings, calls : [DOMAIN p.calls -> CallParts],
                     charge : Charged, finished : BOOLEAN, done : BOOLEAN, failed : BOOLEAN]
           /\ DOMAIN p.calls \subseteq 0..MaxCalls - 1
<1>1. ASSUME p \in Parses
      PROVE  /\ p \in [text : Strings, calls : [DOMAIN p.calls -> CallParts],
                       charge : Charged, finished : BOOLEAN, done : BOOLEAN, failed : BOOLEAN]
             /\ DOMAIN p.calls \subseteq 0..MaxCalls - 1
  <2>1. p.calls \in CallMaps
    BY <1>1 DEF Parses
  <2>2. /\ p.calls = [i \in DOMAIN p.calls |-> p.calls[i]]
        /\ DOMAIN p.calls \subseteq 0..MaxCalls - 1
        /\ \A i \in DOMAIN p.calls : p.calls[i] \in CallParts
    BY <2>1, CallMapsAreMaps
  <2>3. p.calls \in [DOMAIN p.calls -> CallParts]
    BY <2>2
  <2> QED
    BY <1>1, <2>2, <2>3 DEF Parses
<1>2. ASSUME p \in [text : Strings, calls : [DOMAIN p.calls -> CallParts],
                    charge : Charged, finished : BOOLEAN, done : BOOLEAN, failed : BOOLEAN],
             DOMAIN p.calls \subseteq 0..MaxCalls - 1
      PROVE  p \in Parses
  <2>1. p.calls \in [DOMAIN p.calls -> CallParts]
    BY <1>2
  <2>2. p.calls \in CallMaps
    BY <1>2, <2>1 DEF CallMaps
  <2> QED
    BY <1>2, <2>2 DEF Parses
<1> QED
  BY <1>1, <1>2

LEMMA NoParseIsAParse ==
  NoParse \in Parses /\ NoParse.text = <<>> /\ ~ NoParse.failed /\ NoParse.charge = None
<1>1. <<>> \in Strings
  BY EmptySeq DEF Strings
<1>2. <<>> = [i \in {} |-> <<>>]
  OBVIOUS
<1>3. [i \in {} |-> <<>>] \in [{} -> CallParts] /\ {} \in SUBSET (0..MaxCalls - 1)
  OBVIOUS
<1>4. <<>> \in CallMaps
  BY <1>2, <1>3 DEF CallMaps
<1> QED
  BY <1>1, <1>4 DEF NoParse, Parses, Charged, None

Answers == [message : Messages, text : Strings, charge : Charged]

LEMMA NoAnswerIsTyped ==
  NoAnswer \in Answers /\ NoAnswer.text = <<>>
<1>1. <<>> \in Strings /\ <<>> \in Seq(ToolCalls)
  BY EmptySeq DEF Strings
<1>2. Message("none", <<>>, NoId) \in Messages
  <2>1. "none" \in Roles
    BY TranscriptAssumption
  <2>2. [role |-> "none", calls |-> <<>>, callId |-> <<>>] \in Messages
    BY <1>1, <2>1 DEF Messages
  <2> QED
    BY <2>2 DEF Message, NoId
<1>3. None \in Charged
  BY DEF Charged
<1> QED
  BY <1>1, <1>2, <1>3 DEF NoAnswer, Answers

(* Where a stream stands that is at some line, or in the middle of it.     *)
LEMMA WholeLines ==
  ASSUME NEW w \in Seq(Lines), NEW n \in {2 * Len(w) - 1, 2 * Len(w)} \cap Nat
  PROVE  n \div 2 \in Nat /\ n \div 2 <= Len(w)
<1>1. Len(w) \in Nat /\ n \in Nat
  OBVIOUS
<1> QED
  BY <1>1

(* What was read of a stream stays what it was when more lines come.       *)
LEMMA MeteredStays ==
  ASSUME NEW w \in Seq(Lines), NEW more \in Seq(Lines), NEW n \in Nat, n <= Len(w), NEW charge,
         ChargedUpTo(w, n, charge)
  PROVE  ChargedUpTo(w \o more, n, charge)
<1>1. \A k \in 1..n : (w \o more)[k] = w[k]
  BY ConcatProperties
<1>2. MeteredUpTo(w \o more, n) = MeteredUpTo(w, n)
  BY <1>1 DEF MeteredUpTo
<1>3. MeteredUpTo(w, n) # {} => Max(MeteredUpTo(w, n)) \in 1..n
  <2>1. MeteredUpTo(w, n) \in SUBSET (1..n)
    BY DEF MeteredUpTo
  <2> QED
    BY <2>1, MaxOfSome
<1> QED
  BY <1>1, <1>2, <1>3 DEF ChargedUpTo

(* How a step of the adapters looks to the turn pipeline.                  *)
Promised ==
  [Provider!Next]_<<IF status = "unsent" THEN "ready" ELSE status, parse.text, answer.text>>

LEMMA WholeStays ==
  ASSUME NEW w \in Seq(Lines), NEW more \in Seq(Lines), NEW n \in Nat, n <= Len(w)
  PROVE  SubSeq(w \o more, 1, n) = SubSeq(w, 1, n)
<1>1. \A k \in 1..n : (w \o more)[k] = w[k]
  BY ConcatProperties
<1> QED
  BY <1>1

LEMMA BeginsIsProviders ==
  ASSUME NEW s, NEW t
  PROVE  Provider!Begins(s, t) = Begins(s, t)
BY DEF Provider!Begins, Begins

LEMMA ReceiveStep ==
  ASSUME ConversationInv, NEW more \in Seq(Lines), NEW upto, Receive(more, upto), UNCHANGED messages
  PROVE  ConversationInv' /\ Promised
<1>0. /\ wire \in Seq(Lines) /\ parse \in Parses /\ model \in Models /\ ModelValid(model)
      /\ sent \in {2 * Len(wire) - 1, 2 * Len(wire)} \cap Nat
      /\ messages \in Seq(Messages) /\ answer \in Answers
  BY ParsesAreTyped DEF ConversationInv, ConversationTypeOK, Answers
<1>1. Priced(model)
  BY <1>0, ValidModels
<1> DEFINE w == wire \o more
           n == sent \div 2
           e == upto \div 2
           r == FoldLeft(ReadLine, parse, SubSeq(w, n + 1, e))
<1>2. w \in Seq(Lines) /\ Len(w) = Len(wire) + Len(more) /\ Len(wire) \in Nat /\ Len(more) \in Nat
  BY <1>0, ConcatProperties
<1>3. upto > sent /\ upto \in {2 * Len(w) - 1, 2 * Len(w)} /\ wire' = w /\ sent' = upto
  BY DEF Receive
<1> HIDE DEF w
<1>4. upto \in {2 * Len(w) - 1, 2 * Len(w)} \cap Nat
  BY <1>0, <1>2, <1>3
<1>5. n \in Nat /\ e \in Nat /\ n <= e /\ e <= Len(w) /\ n <= Len(wire)
  <2>1. n \in Nat /\ n <= Len(wire)
    BY <1>0, WholeLines
  <2>2. e \in Nat /\ e <= Len(w)
    BY <1>2, <1>4, WholeLines
  <2>3. sent \in Nat /\ upto \in Nat /\ sent <= upto
    BY <1>0, <1>3, <1>4
  <2>4. n <= e
    BY <2>3
  <2> QED
    BY <2>1, <2>2, <2>4
<1> HIDE DEF n, e
<1>6. /\ r \in Parses /\ Begins(parse.text, r.text)
      /\ ~ r.failed /\ ChargedUpTo(w, n, parse.charge) => ChargedUpTo(w, e, r.charge)
      /\ ~ r.failed /\ SaidBy(SubSeq(w, 1, n), parse) => SaidBy(SubSeq(w, 1, e), r)
  <2>1. PICK b \in Parses : b = parse
    BY <1>0
  <2>2. PICK v \in Seq(Lines) : v = w
    BY <1>2
  <2>3. LET q == FoldLeft(ReadLine, b, SubSeq(v, n + 1, e))
        IN /\ q \in Parses /\ Begins(b.text, q.text)
           /\ ~ q.failed /\ ChargedUpTo(v, n, b.charge) => ChargedUpTo(v, e, q.charge)
           /\ ~ q.failed /\ SaidBy(SubSeq(v, 1, n), b) => SaidBy(SubSeq(v, 1, e), q)
    BY <1>1, <1>5, <2>2, ChunkRead
  <2> QED
    BY <2>1, <2>2, <2>3
<1>7. ChargedUpTo(w, n, parse.charge) /\ SaidBy(SubSeq(w, 1, n), parse)
  <2>1. PICK v \in Seq(Lines) : v = wire
    BY <1>0
  <2>2. PICK c : c = parse.charge
    OBVIOUS
  <2>3. ChargedUpTo(v, n, c)
    BY <2>1, <2>2 DEF ConversationInv, Streamed, Receive, n
  <2>4. ChargedUpTo(v \o more, n, c)
    BY <1>5, <2>1, <2>3, MeteredStays
  <2>5. SaidBy(SubSeq(v, 1, n), parse)
    BY <2>1 DEF ConversationInv, Streamed, Receive, Whole, n
  <2>6. SubSeq(v \o more, 1, n) = SubSeq(v, 1, n)
    BY <1>5, <2>1, WholeStays
  <2>7. SaidBy(SubSeq(v \o more, 1, n), parse)
    BY ONLY <2>5, <2>6, Zenon
  <2> QED
    BY <2>1, <2>2, <2>4, <2>7 DEF w
<1>8. /\ parse' = IF upto > MaxBytes THEN parse ELSE r
      /\ status' = IF parse'.failed \/ upto > MaxBytes THEN "failed" ELSE "working"
      /\ UNCHANGED <<model, answer, messages>> /\ status = "working"
      /\ AdapterOf(model) = "chat_completions"
  BY DEF Receive, w, n, e
<1> HIDE DEF r
<1>9. parse' \in Parses /\ Begins(parse.text, parse'.text)
  <2>1. Begins(parse.text, parse.text)
    <3>1. PICK t \in Seq(Parts) : t = parse.text
      BY <1>0 DEF Parses, Strings
    <3>2. Begins(t, t)
      BY SubSeqFull DEF Begins
    <3> QED
      BY <3>1, <3>2
  <2> QED
    BY <1>0, <1>6, <1>8, <2>1
<1>10. parse'.failed \in BOOLEAN
  BY <1>9 DEF Parses
<1>11. ConversationTypeOK'
  <2>1. PICK p : p = parse'
    OBVIOUS
  <2>2. /\ p \in [text : Strings, calls : [DOMAIN p.calls -> CallParts],
                 charge : Charged, finished : BOOLEAN, done : BOOLEAN, failed : BOOLEAN]
        /\ DOMAIN p.calls \subseteq 0..MaxCalls - 1
    BY <1>9, <2>1, ParsesAreTyped
  <2>3. wire' \in Seq(Lines) /\ sent' \in {2 * Len(wire') - 1, 2 * Len(wire')} \cap Nat
    BY <1>2, <1>3, <1>4
  <2>4. status' \in {"ready", "working", "answered", "failed", "unsent"}
    BY <1>8
  <2>5. /\ messages' \in Seq(Messages) /\ model' \in {m \in Models : ModelValid(m)}
        /\ answer' \in Answers
    BY <1>0, <1>8
  <2> QED
    BY <2>1, <2>2, <2>3, <2>4, <2>5 DEF ConversationTypeOK, Answers
<1>12. ValidModelsAreReachable' /\ Submitted' /\ Answered'
  <2>1. status' \in {"working", "failed"}
    BY <1>8
  <2> QED
    BY <1>8, <2>1 DEF ConversationInv, ValidModelsAreReachable, Submitted, Answered
<1>13. Streamed'
  <2>1. status' \in {"working", "failed"} /\ (status' = "working" => ~ parse'.failed)
    BY <1>8, <1>10
  <2>2. status' = "working" => ChargedUpTo(w, e, parse'.charge)
    BY <1>6, <1>7, <1>8, <2>1
  <2>3. status' = "working" => ChargedUpTo(wire, sent \div 2, parse.charge)'
    BY <1>3, <1>8, <2>2 DEF ChargedUpTo, e
  <2>4. status' = "working" => SaidBy(SubSeq(w, 1, e), parse')
    BY <1>6, <1>7, <1>8, <2>1
  <2>5. status' = "working" => SaidBy(Whole', parse')
    BY <1>3, <2>4 DEF Whole, e
  <2> QED
    BY <1>8, <2>1, <2>3, <2>5 DEF Streamed
<1>14. Promised
  <2>1. Provider!Begins(parse.text, parse'.text)
    BY <1>9, BeginsIsProviders
  <2>2. CASE status' = "working"
    <3>1. Provider!Delta
      BY <1>8, <2>1, <2>2 DEF Provider!Delta
    <3> QED
      BY <3>1 DEF Promised, Provider!Next
  <2>3. CASE status' = "failed"
    <3>1. Provider!Fail
      BY <1>8, <2>1, <2>3 DEF Provider!Fail
    <3> QED
      BY <3>1 DEF Promised, Provider!Next
  <2> QED
    BY <1>8, <2>2, <2>3
<1> QED
  BY <1>11, <1>12, <1>13, <1>14 DEF ConversationInv


(* The ways of an answer: of a stream, of a body.                          *)
LEMMA ReturnStep ==
  ASSUME ConversationInv, NEW calls \in Seq(ToolCalls), NEW text \in Strings,
         NEW charge \in Charged, Return(calls, text, charge),
         Begins(parse.text, text), status = "working",
         AdapterOf(model) = "chat_completions" => Complete(calls, text, charge),
         UNCHANGED <<model, wire, sent, parse, messages>>
  PROVE  ConversationInv' /\ Promised
<1>1. /\ status' = "answered"
      /\ answer' = [message |-> Message("assistant", calls, NoId), text |-> text, charge |-> charge]
  BY DEF Return
<1>2. Message("assistant", calls, NoId) \in Messages
  <2>1. <<>> \in Strings
    BY EmptySeq DEF Strings
  <2>2. "assistant" \in Roles
    BY TranscriptAssumption
  <2>3. [role |-> "assistant", calls |-> calls, callId |-> <<>>] \in Messages
    BY <2>1, <2>2 DEF Messages
  <2> QED
    BY <2>3 DEF Message, NoId
<1>3. answer' \in Answers
  BY <1>1, <1>2 DEF Answers
<1>4. ConversationTypeOK'
  BY <1>1, <1>3 DEF ConversationInv, ConversationTypeOK, Answers
<1>5. ValidModelsAreReachable' /\ Submitted'
  BY <1>1 DEF ConversationInv, ValidModelsAreReachable, Submitted
<1>6. /\ answer'.message.role = "assistant" /\ answer'.message.calls = calls
      /\ answer'.text = text /\ answer'.charge = charge
  BY <1>1 DEF Message
<1>7. Answered'
  BY <1>1, <1>6 DEF Answered, Complete
<1>8. Streamed'
  BY <1>1 DEF ConversationInv, Streamed, ChargedUpTo, MeteredUpTo, Whole
<1>9. Promised
  <2>1. Provider!Begins(parse.text, answer'.text)
    BY <1>1, BeginsIsProviders
  <2>2. Provider!Answer
    BY <1>1, <2>1 DEF Provider!Answer
  <2> QED
    BY <2>2 DEF Promised, Provider!Next
<1> QED
  BY <1>4, <1>5, <1>7, <1>8, <1>9 DEF ConversationInv

LEMMA BreakStep ==
  ASSUME ConversationInv, status = "working", status' = "failed",
         UNCHANGED <<model, wire, sent, parse, answer, messages>>
  PROVE  ConversationInv' /\ Promised
<1>1. ConversationTypeOK'
  BY DEF ConversationInv, ConversationTypeOK
<1>2. ValidModelsAreReachable' /\ Submitted'
  BY DEF ConversationInv, ValidModelsAreReachable, Submitted
<1>3. Answered'
  BY DEF ConversationInv, Answered
<1>4. Streamed'
  BY DEF ConversationInv, Streamed
<1>5. Promised
  <2>1. parse.text \in Seq(Parts)
    BY DEF ConversationInv, ConversationTypeOK, Strings
  <2>2. PICK t \in Seq(Parts) : t = parse.text
    BY <2>1
  <2>3. Begins(t, t)
    BY SubSeqFull DEF Begins
  <2>4. Provider!Begins(parse.text, parse'.text)
    BY <2>2, <2>3, BeginsIsProviders
  <2>5. Provider!Fail
    BY <2>4 DEF Provider!Fail
  <2> QED
    BY <2>5 DEF Promised, Provider!Next
<1> QED
  BY <1>1, <1>2, <1>3, <1>4, <1>5 DEF ConversationInv

LEMMA CloseStep ==
  ASSUME ConversationInv, Close, UNCHANGED messages
  PROVE  ConversationInv' /\ Promised
<1>1. status = "working" /\ UNCHANGED <<model, wire, sent, parse>>
  BY DEF Close
<1>2. CASE /\ Return(CallsInOrder(parse.calls), parse.text, parse.charge)
           /\ parse.charge # None /\ parse.finished /\ parse.done
  <2>1. parse \in Parses
    BY ParsesAreTyped DEF ConversationInv, ConversationTypeOK
  <2>2. /\ parse.calls \in CallMaps /\ parse.charge \in Charged /\ parse.text \in Strings
    BY <2>1 DEF Parses
  <2>3. OrderedCalls(CallsInOrder(parse.calls), parse.calls)
    BY <2>2, CallsComeInOrder
  <2>5. CallsInOrder(parse.calls) \in Seq(ToolCalls)
    BY <2>3 DEF OrderedCalls
  <2>6. Complete(CallsInOrder(parse.calls), parse.text, parse.charge)
    BY <1>2, <2>3 DEF Complete
  <2>4. Begins(parse.text, parse.text)
    <3>1. PICK t \in Seq(Parts) : t = parse.text
      BY <2>2 DEF Strings
    <3>2. Begins(t, t)
      BY SubSeqFull DEF Begins
    <3> QED
      BY <3>1, <3>2
  <2> QED
    BY <1>1, <1>2, <2>2, <2>4, <2>5, <2>6, ReturnStep
<1>3. CASE status' = "failed" /\ UNCHANGED answer
  BY <1>1, <1>3, BreakStep
<1> QED
  BY <1>2, <1>3 DEF Close

LEMMA BodyStep ==
  ASSUME ConversationInv, NEW b \in Bodies, ReceiveBody(b), UNCHANGED messages
  PROVE  ConversationInv' /\ Promised
<1> DEFINE said == FoldLeft(ReadItem, Silent, b.items)
<1>1. /\ status = "working" /\ AdapterOf(model) # "chat_completions"
      /\ UNCHANGED <<model, wire, sent, parse>>
      /\ \/ Return(said.calls, said.text, UsageCharge(model, b.usage))
         \/ status' = "failed" /\ UNCHANGED answer
  BY DEF ReceiveBody, Silent
<1>2. CASE Return(said.calls, said.text, UsageCharge(model, b.usage))
  <2>1. b.items \in Seq(Items) /\ IsUsage(b.usage)
    BY StreamAssumption
  <2>2. PICK s \in Seq(Items) : s = b.items
    BY <2>1
  <2>3. PICK run \in [0..Len(s) -> Saids] : FoldLeft(ReadItem, Silent, s) = run[Len(s)]
    BY ItemsAreRead
  <2>4. said \in Saids
    <3>1. Len(s) \in 0..Len(s)
      OBVIOUS
    <3> QED
      BY <2>2, <2>3, <3>1
  <2>5. said.calls \in Seq(ToolCalls) /\ said.text \in Strings
    BY <2>4 DEF Saids
  <2> HIDE DEF said
  <2>6. model \in Models /\ ModelValid(model)
    BY DEF ConversationInv, ConversationTypeOK
  <2>7. UsageCharge(model, b.usage) \in Charged
    BY <2>1, <2>6, ValidModels, ChargesFit
  <2>8. Begins(parse.text, said.text)
    <3>1. parse.text = <<>>
      BY <1>1, NoParseIsAParse DEF ConversationInv, Streamed
    <3>2. PICK t \in Seq(Parts) : t = said.text
      BY <2>5 DEF Strings
    <3>3. Len(<<>>) = 0 /\ Len(t) \in Nat /\ SubSeq(t, 1, 0) = <<>>
      BY SubSeqEmpty
    <3> QED
      BY <3>1, <3>2, <3>3 DEF Begins
  <2>9. PICK c \in Charged : c = UsageCharge(model, b.usage)
    BY <2>7
  <2>10. Return(said.calls, said.text, c)
    BY <1>2, <2>9
  <2> QED
    BY ONLY ConversationInv, <1>1, <2>5, <2>8, <2>10, ReturnStep, UNCHANGED messages
<1>3. CASE status' = "failed" /\ UNCHANGED answer
  BY <1>1, <1>3, BreakStep
<1> QED
  BY <1>1, <1>2, <1>3

(* The client's steps.                                                     *)
LEMMA SubmitStep ==
  ASSUME ConversationInv, Submit
  PROVE  ConversationInv' /\ Promised
<1>1. /\ status = "ready" /\ ValidTurn(messages)
      /\ status' = IF HasEndpoint(model) THEN "working" ELSE "unsent"
      /\ UNCHANGED <<messages, model, wire, sent, parse, answer>>
  BY DEF Submit
<1>2. HasEndpoint(model)
  BY ValidModels DEF ConversationInv, ConversationTypeOK
<1>3. status' = "working"
  BY <1>1, <1>2
<1>4. ConversationTypeOK' /\ ValidModelsAreReachable'
  BY <1>1, <1>3 DEF ConversationInv, ConversationTypeOK, ValidModelsAreReachable
<1>5. Submitted' /\ Answered'
  BY <1>1, <1>3 DEF ConversationInv, Submitted, Answered, ValidTurn
<1>6. Streamed'
  <2>1. wire' = <<>> /\ sent' = 0 /\ parse' = NoParse
    BY <1>1 DEF ConversationInv, Streamed
  <2>2. 0 \div 2 = 0 /\ 1..0 = {}
    OBVIOUS
  <2>3. ChargedUpTo(wire, sent \div 2, parse.charge)'
    BY <2>1, <2>2, NoParseIsAParse DEF ChargedUpTo, MeteredUpTo
  <2>4. Whole' = <<>>
    <3>1. SubSeq(<<>>, 1, 0) = <<>>
      OBVIOUS
    <3> QED
      BY <2>1, <2>2, <3>1 DEF Whole
  <2>5. SaidBy(Whole', parse')
    BY <2>1, <2>4, NothingIsSaid
  <2> QED
    BY <1>3, <2>1, <2>3, <2>5, NoParseIsAParse DEF Streamed
<1>7. Promised
  <2>1. Provider!Ask
    BY <1>1, <1>3 DEF Provider!Ask
  <2> QED
    BY <2>1 DEF Promised, Provider!Next
<1> QED
  BY <1>4, <1>5, <1>6, <1>7 DEF ConversationInv

LEMMA SayStep ==
  ASSUME ConversationInv, NEW m \in Inputs, Say(m)
  PROVE  ConversationInv' /\ Promised
<1>1. /\ status = "ready" /\ messages' = Append(messages, m)
      /\ UNCHANGED <<model, status, wire, sent, parse, answer>>
  BY DEF Say, streamVars
<1>2. messages' \in Seq(Messages)
  <2>1. m \in Messages
    BY ConversationAssumption
  <2> QED
    BY <1>1, <2>1, AppendProperties DEF ConversationInv, ConversationTypeOK
<1>3. ConversationTypeOK' /\ ValidModelsAreReachable'
  BY <1>1, <1>2 DEF ConversationInv, ConversationTypeOK, ValidModelsAreReachable
<1>4. Submitted' /\ Answered'
  BY <1>1 DEF ConversationInv, Submitted, Answered
<1>5. Streamed'
  BY <1>1 DEF ConversationInv, Streamed
<1>6. Promised
  BY <1>1 DEF Promised
<1> QED
  BY <1>3, <1>4, <1>5, <1>6 DEF ConversationInv

LEMMA ContinueStep ==
  ASSUME ConversationInv, Continue
  PROVE  ConversationInv' /\ Promised
<1>1. /\ status \in {"answered", "failed"} /\ status' = "ready"
      /\ messages' = IF status = "answered" THEN Append(messages, answer.message) ELSE messages
      /\ wire' = <<>> /\ sent' = 0 /\ parse' = NoParse /\ answer' = NoAnswer
      /\ UNCHANGED model
  BY DEF Continue
<1>2. messages' \in Seq(Messages)
  <2>1. messages \in Seq(Messages) /\ answer.message \in Messages
    BY DEF ConversationInv, ConversationTypeOK
  <2> QED
    BY <1>1, <2>1, AppendProperties
<1>3. ConversationTypeOK'
  <2>1. PICK p : p = parse'
    OBVIOUS
  <2>2. p \in Parses
    BY <1>1, <2>1, NoParseIsAParse
  <2>3. /\ p \in [text : Strings, calls : [DOMAIN p.calls -> CallParts],
                 charge : Charged, finished : BOOLEAN, done : BOOLEAN, failed : BOOLEAN]
        /\ DOMAIN p.calls \subseteq 0..MaxCalls - 1
    BY <2>2, ParsesAreTyped
  <2>4. wire' \in Seq(Lines) /\ sent' \in {2 * Len(wire') - 1, 2 * Len(wire')} \cap Nat
    <3>1. <<>> \in Seq(Lines) /\ Len(<<>>) = 0
      OBVIOUS
    <3> QED
      BY <1>1, <3>1
  <2>5. model' \in {m \in Models : ModelValid(m)} /\ answer' \in Answers
    BY <1>1, NoAnswerIsTyped DEF ConversationInv, ConversationTypeOK
  <2> QED
    BY <1>1, <1>2, <2>1, <2>3, <2>4, <2>5 DEF ConversationTypeOK, Answers
<1>4. ValidModelsAreReachable' /\ Submitted' /\ Answered' /\ Streamed'
  BY <1>1 DEF ValidModelsAreReachable, Submitted, Answered, Streamed
<1>5. Promised
  <2>1. parse'.text = <<>> /\ answer'.text = <<>>
    BY <1>1, NoParseIsAParse, NoAnswerIsTyped
  <2>2. Provider!Again
    BY <1>1, <2>1 DEF Provider!Again, Provider!Init
  <2> QED
    BY <2>2 DEF Promised, Provider!Next
<1> QED
  BY <1>2, <1>3, <1>4, <1>5 DEF ConversationInv

LEMMA ConversationInitialized ==
  ConversationInit => ConversationInv /\ Provider!Init
<1> SUFFICES ASSUME ConversationInit
             PROVE  ConversationInv /\ Provider!Init
  OBVIOUS
<1>1. /\ messages = <<>> /\ model \in {m \in Models : ModelValid(m)} /\ status = "ready"
      /\ wire = <<>> /\ sent = 0 /\ parse = NoParse /\ answer = NoAnswer
  BY DEF ConversationInit, StreamInit
<1>2. ConversationTypeOK
  <2>1. PICK p : p = parse
    OBVIOUS
  <2>2. p \in Parses
    BY <1>1, <2>1, NoParseIsAParse
  <2>3. /\ p \in [text : Strings, calls : [DOMAIN p.calls -> CallParts],
                 charge : Charged, finished : BOOLEAN, done : BOOLEAN, failed : BOOLEAN]
        /\ DOMAIN p.calls \subseteq 0..MaxCalls - 1
    BY <2>2, ParsesAreTyped
  <2>4. wire \in Seq(Lines) /\ sent \in {2 * Len(wire) - 1, 2 * Len(wire)} \cap Nat
    <3>1. <<>> \in Seq(Lines) /\ Len(<<>>) = 0
      OBVIOUS
    <3> QED
      BY <1>1, <3>1
  <2>5. messages \in Seq(Messages) /\ answer \in Answers
    BY <1>1, NoAnswerIsTyped, EmptySeq
  <2> QED
    BY <1>1, <2>1, <2>3, <2>4, <2>5 DEF ConversationTypeOK, Answers
<1>3. ValidModelsAreReachable /\ Submitted /\ Answered /\ Streamed
  BY <1>1 DEF ValidModelsAreReachable, Submitted, Answered, Streamed
<1>4. Provider!Init
  BY <1>1, NoParseIsAParse, NoAnswerIsTyped DEF Provider!Init
<1> QED
  BY <1>2, <1>3, <1>4 DEF ConversationInv

LEMMA ConversationStep ==
  ASSUME ConversationInv, [ConversationNext]_conversationVars
  PROVE  ConversationInv' /\ Promised
<1>1. ASSUME NEW m \in Inputs, Say(m) PROVE ConversationInv' /\ Promised
  BY <1>1, SayStep
<1>2. CASE Submit
  BY <1>2, SubmitStep
<1>3. CASE Continue
  BY <1>3, ContinueStep
<1>4. CASE StreamNext /\ UNCHANGED messages
  <2>1. ASSUME NEW n \in 0..MaxChunk, NEW more \in [1..n -> Lines], NEW upto, Receive(more, upto)
        PROVE  ConversationInv' /\ Promised
    <3>1. n \in Nat
      BY StreamAssumption
    <3>2. more \in Seq(Lines)
      BY <3>1, SeqDef
    <3> QED
      BY <1>4, <2>1, <3>2, ReceiveStep
  <2>2. CASE Close
    BY <1>4, <2>2, CloseStep
  <2>3. ASSUME NEW b \in Bodies, ReceiveBody(b)
        PROVE  ConversationInv' /\ Promised
    BY <1>4, <2>3, BodyStep
  <2>4. CASE Break
    <3>1. /\ status = "working" /\ status' = "failed"
          /\ UNCHANGED <<model, wire, sent, parse, answer, messages>>
      BY <1>4, <2>4 DEF Break
    <3> QED
      BY <3>1, BreakStep
  <2> QED
    BY <1>4, <2>1, <2>2, <2>3, <2>4 DEF StreamNext
<1>5. CASE UNCHANGED conversationVars
  <2>1. UNCHANGED <<messages, model, status, wire, sent, parse, answer>>
    BY <1>5 DEF conversationVars, streamVars
  <2>2. ConversationTypeOK'
    BY <2>1 DEF ConversationInv, ConversationTypeOK
  <2>3. ValidModelsAreReachable' /\ Submitted' /\ Answered'
    BY <2>1 DEF ConversationInv, ValidModelsAreReachable, Submitted, Answered, Complete
  <2>4. Streamed'
    BY <2>1 DEF ConversationInv, Streamed, ChargedUpTo, MeteredUpTo, Whole
  <2>5. Promised
    BY <2>1 DEF Promised
  <2> QED
    BY <2>2, <2>3, <2>4, <2>5 DEF ConversationInv
<1> QED
  BY <1>1, <1>2, <1>3, <1>4, <1>5 DEF ConversationNext


(***************************************************************************)
(* Answers with proper calls.  Any order of their results is a sequence as *)
(* long as the calls that names each of them.                              *)
(***************************************************************************)
LEMMA IdsAreCounted ==
  ASSUME NEW a \in Messages
  PROVE  IsFiniteSet(IdsOf(a)) /\ IdsOf(a) \subseteq Strings
<1> DEFINE n == Len(a.calls)
           f == [k \in 1..n |-> a.calls[k].id]
<1>1. /\ n \in Nat /\ DOMAIN a.calls = 1..n
      /\ \A k \in 1..n : a.calls[k].id \in Strings
  <2>1. PICK c \in Seq(ToolCalls) : c = a.calls
    BY DEF Messages
  <2>2. \A k \in 1..Len(c) : c[k] \in ToolCalls
    OBVIOUS
  <2>3. \A x \in ToolCalls : x.id \in Strings
    BY DEF ToolCalls
  <2> QED
    BY <2>1, <2>2, <2>3
<1>2. ToSet(a.calls) = {a.calls[k] : k \in 1..n}
  BY <1>1 DEF ToSet
<1>3. IdsOf(a) = {a.calls[k].id : k \in 1..n}
  BY <1>2 DEF IdsOf
<1>4. f \in Surjection(1..n, IdsOf(a))
  BY <1>3 DEF Surjection
<1>5. IsFiniteSet(1..n)
  BY <1>1, FS_Interval
<1>6. IsFiniteSet(IdsOf(a))
  <2> HIDE DEF f, n
  <2> QED
    BY <1>4, <1>5, FS_Surjection
<1> QED
  BY <1>1, <1>3, <1>6

LEMMA ResultsInAnyOrder ==
  ASSUME NEW a \in Messages, CallsProper(a),
         NEW results \in SetToSeqs({Result(id) : id \in IdsOf(a)})
  PROVE  /\ results \in Seq(Messages) /\ Len(results) = Len(a.calls)
         /\ \A k \in 1..Len(results) : results[k].role = "tool" /\ results[k].calls = <<>>
         /\ {results[k].callId : k \in 1..Len(results)} = IdsOf(a)
<1> DEFINE ids == IdsOf(a)
           T == {Result(id) : id \in ids}
           n == Len(a.calls)
           f == [id \in ids |-> Result(id)]
<1>1. IsFiniteSet(ids) /\ Cardinality(ids) = n /\ ids \subseteq Strings
  BY IdsAreCounted DEF CallsProper
<1>2. n \in Nat
  BY DEF Messages
<1>3. \A id : Result(id) = [role |-> "tool", calls |-> <<>>, callId |-> id]
  BY DEF Result, Message
<1>4. f \in Bijection(ids, T)
  <2>1. f \in Surjection(ids, T)
    BY DEF Surjection
  <2>2. \A i, j \in ids : f[i] = f[j] => i = j
    BY <1>3
  <2> QED
    BY <2>1, <2>2 DEF Bijection, Injection, Surjection, IsInjective
<1>5. IsFiniteSet(T) /\ Cardinality(T) = n
  <2> HIDE DEF f, T
  <2>1. ExistsBijection(ids, T)
    BY <1>4 DEF ExistsBijection
  <2> QED
    BY <1>1, <2>1, FS_Bijection
<1>6. /\ results \in [1..n -> T]
      /\ \A i, j \in 1..n : i # j => results[i] # results[j]
  BY <1>5 DEF SetToSeqs
<1>7. \A t \in T : t \in Messages /\ t.role = "tool" /\ t.calls = <<>> /\ t.callId \in ids
  <2>1. "tool" \in Roles /\ <<>> \in Seq(ToolCalls)
    BY TranscriptAssumption, EmptySeq
  <2>2. \A id \in ids : [role |-> "tool", calls |-> <<>>, callId |-> id] \in Messages
    BY <1>1, <2>1 DEF Messages
  <2> QED
    BY <1>3, <2>2
<1>8. results \in Surjection(1..n, T)
  <2> HIDE DEF T
  <2>1. results \in Injection(1..n, T)
    BY <1>6 DEF Injection, IsInjective
  <2>2. Cardinality(1..n) = n
    <3>1. 1 \in Int /\ n \in Int /\ n - 1 + 1 = n
      BY <1>2
    <3>2. Cardinality(1..n) = IF 1 > n THEN 0 ELSE n - 1 + 1
      BY <3>1, FS_Interval
    <3> QED
      BY <1>2, <3>1, <3>2
  <2> QED
    BY <1>5, <2>1, <2>2, FS_Injection
<1>9. results \in Seq(Messages) /\ Len(results) = n
  <2>1. results \in [1..n -> Messages]
    BY <1>6, <1>7
  <2> QED
    BY <1>2, <2>1
<1>10. \A id \in ids : \E k \in 1..n : results[k].callId = id
  <2> SUFFICES ASSUME NEW id \in ids PROVE \E k \in 1..n : results[k].callId = id
    OBVIOUS
  <2>1. Result(id) \in T
    OBVIOUS
  <2>2. PICK k \in 1..n : results[k] = Result(id)
    BY <1>8, <2>1 DEF Surjection
  <2> QED
    BY <1>3, <2>2
<1>11. \A k \in 1..n : results[k] \in T
  BY <1>6
<1> HIDE DEF ids, T, n
<1>12. {results[k].callId : k \in 1..n} = ids
  BY <1>7, <1>10, <1>11
<1> QED
  BY <1>7, <1>9, <1>11, <1>12 DEF ids, n

(* What a sequence with one more element and a sequence after it holds.    *)
LEMMA JoinedSequence ==
  ASSUME NEW s \in Seq(Messages), NEW a \in Messages, NEW results \in Seq(Messages),
         NEW n \in Nat, n = Len(s), NEW r \in Nat, r = Len(results)
  PROVE  LET t == s \o <<a>> \o results
         IN /\ t \in Seq(Messages) /\ Len(t) = n + 1 + r
            /\ \A k \in 1..n : t[k] = s[k]
            /\ t[n + 1] = a
            /\ \A k \in 1..r : t[n + 1 + k] = results[k]
<1>1. /\ <<a>> \in Seq(Messages) /\ Len(<<a>>) = 1 /\ <<a>>[1] = a
  OBVIOUS
<1>2. PICK u \in Seq(Messages) : u = s \o <<a>>
  BY <1>1, ConcatProperties
<1>3. /\ Len(u) = n + 1
      /\ \A k \in 1..n + 1 : u[k] = IF k <= n THEN s[k] ELSE <<a>>[k - n]
  BY <1>1, <1>2, ConcatProperties
<1>4. (\A k \in 1..n : u[k] = s[k]) /\ u[n + 1] = a
  <2>1. n + 1 \in 1..n + 1 /\ ~ (n + 1 <= n) /\ n + 1 - n = 1
    OBVIOUS
  <2>2. \A k \in 1..n : k \in 1..n + 1 /\ k <= n
    OBVIOUS
  <2> QED
    BY <1>1, <1>3, <2>1, <2>2
<1>5. PICK t \in Seq(Messages) : t = u \o results
  BY ConcatProperties
<1>6. /\ Len(t) = n + 1 + r
      /\ \A k \in 1..n + 1 + r : t[k] = IF k <= n + 1 THEN u[k] ELSE results[k - (n + 1)]
  <2>1. /\ Len(t) = Len(u) + Len(results)
        /\ \A k \in 1..Len(u) + Len(results) :
             t[k] = IF k <= Len(u) THEN u[k] ELSE results[k - Len(u)]
    BY <1>5, ConcatProperties
  <2>2. Len(u) = n + 1 /\ Len(results) = r
    BY <1>3
  <2> QED
    BY <2>1, <2>2
<1>7. \A k \in 1..n : t[k] = s[k]
  <2>1. \A k \in 1..n : k \in 1..n + 1 + r /\ k <= n + 1
    OBVIOUS
  <2> QED
    BY <1>4, <1>6, <2>1
<1>8. t[n + 1] = a
  <2>1. n + 1 \in 1..n + 1 + r /\ n + 1 <= n + 1
    OBVIOUS
  <2> QED
    BY <1>4, <1>6, <2>1
<1>9. \A k \in 1..r : t[n + 1 + k] = results[k]
  <2>1. \A k \in 1..r : n + 1 + k \in 1..n + 1 + r /\ ~ (n + 1 + k <= n + 1)
                        /\ n + 1 + k - (n + 1) = k
    OBVIOUS
  <2> SUFFICES ASSUME NEW k \in 1..r PROVE t[n + 1 + k] = results[k]
    OBVIOUS
  <2>2. PICK j : j = n + 1 + k
    OBVIOUS
  <2>3. j \in 1..n + 1 + r /\ ~ (j <= n + 1) /\ j - (n + 1) = k
    BY <2>1, <2>2
  <2>4. t[j] = results[j - (n + 1)]
    BY <1>6, <2>3
  <2> QED
    BY <2>2, <2>3, <2>4
<1> QED
  BY <1>2, <1>5, <1>6, <1>7, <1>8, <1>9

(* A well paired conversation stays one when an answer with proper calls   *)
(* and its results, in any order, are added.                               *)
LEMMA PairedGoesOn ==
  ASSUME NEW s \in Seq(Messages), WellPaired(s),
         NEW a \in Messages, a.role = "assistant", CallsProper(a),
         NEW results \in SetToSeqs({Result(id) : id \in IdsOf(a)}),
         Len(s) + 1 + Len(a.calls) <= MaxMessages
  PROVE  /\ s \o <<a>> \o results \in Seq(Messages)
         /\ WellPaired(s \o <<a>> \o results)
<1>0. results \in Seq(Messages)
  BY ResultsInAnyOrder
<1>1. PICK r \in Nat :
         /\ r = Len(results) /\ r = Len(a.calls)
         /\ \A k \in 1..r : results[k].role = "tool" /\ results[k].calls = <<>>
         /\ {results[k].callId : k \in 1..r} = IdsOf(a)
  <2>1. Len(results) \in Nat
    BY <1>0
  <2> QED
    BY <2>1, ResultsInAnyOrder
<1>2. PICK n \in Nat : n = Len(s) /\ n >= 1
  BY DEF WellPaired
<1>3. PICK t \in Seq(Messages) :
         /\ t = s \o <<a>> \o results
         /\ Len(t) = n + 1 + r
         /\ \A k \in 1..n : t[k] = s[k]
         /\ t[n + 1] = a
         /\ \A k \in 1..r : t[n + 1 + k] = results[k]
  <2> DEFINE t == s \o <<a>> \o results
  <2>1. n = Len(s) /\ r = Len(results)
    BY <1>1, <1>2
  <2>2. /\ t \in Seq(Messages) /\ Len(t) = n + 1 + r
        /\ \A k \in 1..n : t[k] = s[k]
        /\ t[n + 1] = a
        /\ \A k \in 1..r : t[n + 1 + k] = results[k]
    BY <1>0, <2>1, JoinedSequence
  <2>3. t = s \o <<a>> \o results
    OBVIOUS
  <2> HIDE DEF t
  <2> QED
    BY <2>2, <2>3
<1>4. Len(t) \in 1..MaxMessages /\ t[1].role # "tool"
  <2>1. t[1] = s[1] /\ s[1].role # "tool"
    BY <1>2, <1>3 DEF WellPaired
  <2>2. n + 1 + r <= MaxMessages
    BY <1>1, <1>2
  <2>3. n + 1 + r \in 1..MaxMessages
    BY <2>2, TranscriptAssumption
  <2> QED
    BY <1>3, <2>1, <2>3
<1>5. ASSUME NEW k \in n + 2..n + 1 + r
      PROVE  t[k].role = "tool" /\ t[k].calls = <<>> /\ k - (n + 1) \in 1..r
             /\ t[k] = results[k - (n + 1)]
  <2>1. k - (n + 1) \in 1..r /\ n + 1 + (k - (n + 1)) = k
    OBVIOUS
  <2> QED
    BY <1>1, <1>3, <2>1
<1>6. ResultsAfter(t, n + 1) = n + 2..n + 1 + r
  <2>1. n + 1 + 1 = n + 2
    OBVIOUS
  <2>2. \A k \in n + 2..n + 1 + r : \A j \in n + 2..k : j \in n + 2..n + 1 + r
    OBVIOUS
  <2> QED
    BY <1>3, <1>5, <2>1, <2>2 DEF ResultsAfter
<1>7. ASSUME NEW i \in 1..n
      PROVE  /\ ResultsAfter(t, i) = ResultsAfter(s, i)
             /\ \A k \in ResultsAfter(s, i) : t[k] = s[k]
  <2>1. ASSUME NEW k \in ResultsAfter(t, i)
        PROVE  k \in ResultsAfter(s, i)
    <3>1. k \in i + 1..n + 1 + r /\ \A j \in i + 1..k : t[j].role = "tool"
      BY <1>3 DEF ResultsAfter
    <3>2. k <= n
      <4> SUFFICES ASSUME ~ (k <= n) PROVE FALSE
        OBVIOUS
      <4>1. n + 1 \in i + 1..k
        BY <3>1
      <4>2. t[n + 1].role = "tool"
        BY <3>1, <4>1
      <4> QED
        BY <1>3, <4>2
    <3>3. k \in i + 1..n /\ \A j \in i + 1..k : j \in 1..n
      BY <3>1, <3>2
    <3>4. \A j \in i + 1..k : s[j].role = "tool"
      BY <1>3, <3>1, <3>3
    <3> QED
      BY <1>2, <3>3, <3>4 DEF ResultsAfter
  <2>2. ASSUME NEW k \in ResultsAfter(s, i)
        PROVE  k \in ResultsAfter(t, i) /\ t[k] = s[k]
    <3>1. k \in i + 1..Len(s) /\ \A j \in i + 1..k : s[j].role = "tool"
      BY DEF ResultsAfter
    <3>0. k \in i + 1..n /\ \A j \in i + 1..k : s[j].role = "tool"
      BY <1>2, <3>1
    <3>2. k \in i + 1..n + 1 + r /\ k \in 1..n /\ \A j \in i + 1..k : j \in 1..n
      BY <3>0
    <3>3. \A j \in i + 1..k : t[j].role = "tool"
      BY <1>3, <3>1, <3>2
    <3> QED
      BY <1>3, <3>2, <3>3 DEF ResultsAfter
  <2> QED
    BY <2>1, <2>2
<1>8. {t[k].callId : k \in n + 2..n + 1 + r} = {results[k].callId : k \in 1..r}
  <2>1. \A k \in 1..r : n + 1 + k \in n + 2..n + 1 + r /\ t[n + 1 + k] = results[k]
    BY <1>3
  <2>2. \A k \in n + 2..n + 1 + r :
          k - (n + 1) \in 1..r /\ t[k] = results[k - (n + 1)]
    BY <1>5
  <2>3. ASSUME NEW k \in 1..r
        PROVE  \E j \in n + 2..n + 1 + r : t[j].callId = results[k].callId
    BY <2>1
  <2>4. ASSUME NEW j \in n + 2..n + 1 + r
        PROVE  \E k \in 1..r : t[j].callId = results[k].callId
    BY <2>2
  <2>5. ASSUME NEW x \in {t[k].callId : k \in n + 2..n + 1 + r}
        PROVE  x \in {results[k].callId : k \in 1..r}
    BY <2>4
  <2>6. ASSUME NEW x \in {results[k].callId : k \in 1..r}
        PROVE  x \in {t[k].callId : k \in n + 2..n + 1 + r}
    <3>1. PICK k \in 1..r : x = results[k].callId
      OBVIOUS
    <3>2. PICK j \in n + 2..n + 1 + r : t[j].callId = results[k].callId
      BY <2>3
    <3> QED
      BY <3>1, <3>2
  <2> QED
    BY <2>5, <2>6
<1>9. Cardinality(n + 2..n + 1 + r) = r
  <2>1. /\ n + 2 \in Int /\ n + 1 + r \in Int /\ n + 1 + r - (n + 2) + 1 = r
        /\ n + 2 > n + 1 + r => r = 0
    OBVIOUS
  <2>2. Cardinality(n + 2..n + 1 + r) =
          IF n + 2 > n + 1 + r THEN 0 ELSE n + 1 + r - (n + 2) + 1
    BY <2>1, FS_Interval
  <2> QED
    BY <2>1, <2>2
<1>10. ASSUME NEW i \in DOMAIN t
       PROVE  /\ t[i].role \in {"user", "assistant", "tool"}
              /\ t[i].role # "assistant" => t[i].calls = <<>>
              /\ t[i].role # "tool" =>
                   /\ CallsProper(t[i])
                   /\ {t[k].callId : k \in ResultsAfter(t, i)} = IdsOf(t[i])
                   /\ Cardinality(ResultsAfter(t, i)) = Len(t[i].calls)
  <2>0. DOMAIN t = 1..n + 1 + r
    BY <1>3
  <2>1. CASE i \in 1..n
    <3>1. t[i] = s[i] /\ i \in DOMAIN s
      BY <1>2, <1>3, <2>1
    <3>2. /\ s[i].role \in {"user", "assistant", "tool"}
          /\ s[i].role # "assistant" => s[i].calls = <<>>
          /\ s[i].role # "tool" =>
               /\ CallsProper(s[i])
               /\ {s[k].callId : k \in ResultsAfter(s, i)} = IdsOf(s[i])
               /\ Cardinality(ResultsAfter(s, i)) = Len(s[i].calls)
      BY <3>1 DEF WellPaired
    <3>3. {t[k].callId : k \in ResultsAfter(t, i)} = {s[k].callId : k \in ResultsAfter(s, i)}
      BY <1>7, <2>1
    <3> QED
      BY <1>7, <2>1, <3>1, <3>2, <3>3
  <2>2. CASE i = n + 1
    <3>1. t[i] = a
      BY <1>3, <2>2
    <3>2. ResultsAfter(t, i) = n + 2..n + 1 + r
      BY <1>6, <2>2
    <3> QED
      BY <1>1, <1>8, <1>9, <3>1, <3>2
  <2>3. CASE i \notin 1..n /\ i # n + 1
    <3>1. i \in n + 2..n + 1 + r
      BY <2>0, <2>3
    <3> QED
      BY <1>5, <3>1
  <2> QED
    BY <2>1, <2>2, <2>3
<1>11. WellPaired(t)
  BY <1>4, <1>10 DEF WellPaired
<1> QED
  BY <1>3, <1>11


(***************************************************************************)
(* The theorems.  The inductive invariant, and what follows from it.       *)
(***************************************************************************)
THEOREM ConversationInvariant ==
  ConversationSpec => []ConversationInv
<1>1. ConversationInit => ConversationInv
  BY ConversationInitialized
<1>2. ConversationInv /\ [ConversationNext]_conversationVars => ConversationInv'
  BY ConversationStep
<1> QED
  BY <1>1, <1>2, PTL DEF ConversationSpec

(* A conversation, its stream and its answer keep their types: text, ids   *)
(* and arguments are what the provider sent, calls have an index below the *)
(* limit, and a charge is an amount that an i64 holds.                     *)
THEOREM ConversationTypes ==
  ConversationSpec => []ConversationTypeOK
<1>1. ConversationInv => ConversationTypeOK
  BY DEF ConversationInv
<1> QED
  BY <1>1, ConversationInvariant, PTL

(* No model that ModelConfig::validate accepts is left without an adapter  *)
(* that knows its provider's address.                                      *)
THEOREM ModelsAlwaysReachable ==
  ConversationSpec => []ValidModelsAreReachable
<1>1. ConversationInv => ValidModelsAreReachable
  BY DEF ConversationInv
<1> QED
  BY <1>1, ConversationInvariant, PTL

(* The loop of validate_turn accepts what the client holds exactly when    *)
(* its calls and results are paired.                                       *)
THEOREM ValidationAlwaysExact ==
  ConversationSpec => []ValidationIsExact
<1>1. ConversationInv => ValidationIsExact
  <2> SUFFICES ASSUME ConversationInv PROVE ValidationIsExact
    OBVIOUS
  <2>1. PICK s \in Seq(Messages) : s = messages
    BY DEF ConversationInv, ConversationTypeOK
  <2>2. ValidTurn(s) <=> WellPaired(s)
    BY ValidMeansPaired
  <2> QED
    BY <2>1, <2>2 DEF ValidationIsExact
<1> QED
  BY <1>1, ConversationInvariant, PTL

(* The bill of a streamed answer is the fair price of the last usage the   *)
(* provider reported, whatever it reported and however it was cut.         *)
THEOREM BillsAlwaysFair ==
  ConversationSpec => []BillsAreFair
<1>1. ConversationInv => BillsAreFair
  <2> SUFFICES ASSUME ConversationInv, status = "answered",
                      AdapterOf(model) = "chat_completions"
               PROVE  LET metered == {n \in DOMAIN Whole : Said(Whole[n]) /\ Whole[n].usage # None}
                      IN /\ metered # {}
                         /\ FairPrice(model, Whole[Max(metered)].usage[1], answer.charge[1])
    BY DEF BillsAreFair
  <2>1. PICK w \in Seq(Lines) : w = wire
    BY DEF ConversationInv, ConversationTypeOK
  <2>2. PICK n : n = sent \div 2
    OBVIOUS
  <2>3. n \in Nat /\ n <= Len(w) /\ Len(w) \in Nat
    <3>1. sent \in {2 * Len(w) - 1, 2 * Len(w)} \cap Nat
      BY <2>1 DEF ConversationInv, ConversationTypeOK
    <3> QED
      BY <2>2, <3>1, WholeLines
  <2>4. /\ Whole = SubSeq(w, 1, n)
        /\ DOMAIN Whole = 1..n /\ \A k \in 1..n : Whole[k] = w[k]
    <3>1. Whole = SubSeq(w, 1, n)
      BY <2>1, <2>2 DEF Whole
    <3>2. \A k \in 1..n : w[k] \in Lines
      BY <2>3
    <3>3. /\ SubSeq(w, 1, n) \in Seq(Lines)
          /\ Len(SubSeq(w, 1, n)) = IF 1 <= n THEN n - 1 + 1 ELSE 0
          /\ \A k \in 1..n - 1 + 1 : SubSeq(w, 1, n)[k] = w[1 + k - 1]
      <4>1. 1 \in Int /\ n \in Int
        BY <2>3
      <4> QED
        BY <3>2, <4>1, SubSeqProperties
    <3>4. Len(SubSeq(w, 1, n)) = n /\ n - 1 + 1 = n /\ \A k \in 1..n : 1 + k - 1 = k
      BY <2>3, <3>3
    <3>5. DOMAIN SubSeq(w, 1, n) = 1..n
      BY <3>3, <3>4
    <3> QED
      BY <3>1, <3>3, <3>4, <3>5
  <2>5. {k \in DOMAIN Whole : Said(Whole[k]) /\ Whole[k].usage # None} = MeteredUpTo(w, n)
    BY <2>4 DEF MeteredUpTo, Metered
  <2>6. /\ ChargedUpTo(w, n, answer.charge) /\ answer.charge # None
    BY <2>1, <2>2 DEF ConversationInv, Streamed, Answered, Complete
  <2>7. /\ MeteredUpTo(w, n) # {}
        /\ answer.charge = UsageCharge(model, w[Max(MeteredUpTo(w, n))].usage[1])
    BY <2>6 DEF ChargedUpTo
  <2>8. PICK k : k = Max(MeteredUpTo(w, n))
    OBVIOUS
  <2>9. k \in 1..n /\ Metered(w[k])
    <3>1. MeteredUpTo(w, n) \in SUBSET (1..n)
      BY DEF MeteredUpTo
    <3>2. k \in MeteredUpTo(w, n)
      BY <2>3, <2>7, <2>8, <3>1, MaxOfSome
    <3> QED
      BY <3>2 DEF MeteredUpTo
  <2>10. w[k] \in Lines
    BY <2>3, <2>9
  <2>11. IsUsage(w[k].usage[1])
    BY <2>9, <2>10, StreamAssumption DEF Metered, Said
  <2>12. Priced(model)
    BY ValidModels DEF ConversationInv, ConversationTypeOK
  <2>13. FairPrice(model, w[k].usage[1], answer.charge[1])
    <3>1. PICK u : u = w[k].usage[1]
      OBVIOUS
    <3>2. UsageCharge(model, u) # None /\ answer.charge = UsageCharge(model, u)
      BY <2>6, <2>7, <2>8, <3>1
    <3>3. FairPrice(model, u, UsageCharge(model, u)[1])
      BY <2>11, <2>12, <3>1, <3>2, ChargesAreFair
    <3> QED
      BY <3>1, <3>2, <3>3
  <2> QED
    BY <2>4, <2>5, <2>7, <2>8, <2>9, <2>13
<1> QED
  BY <1>1, ConversationInvariant, PTL

(* A streamed answer is what its whole lines said: it finished, it said    *)
(* [DONE], no line was an error, its text and the id and arguments of each *)
(* of its calls are their parts in order, and no call is lost or added.    *)
THEOREM AnswersAlwaysWhole ==
  ConversationSpec => []AnswersAreWhole
<1>1. ConversationInv => AnswersAreWhole
  <2> SUFFICES ASSUME ConversationInv, status = "answered",
                      AdapterOf(model) = "chat_completions"
               PROVE  AnswersAreWhole
    BY DEF AnswersAreWhole
  <2>1. SaidBy(Whole, parse) /\ Complete(answer.message.calls, answer.text, answer.charge)
    BY DEF ConversationInv, Streamed, Answered
  <2>2. /\ \E n \in DOMAIN Whole : Whole[n].kind = "done"
        /\ \E n \in DOMAIN Whole : Said(Whole[n]) /\ Whole[n].finish # "none"
        /\ \A n \in DOMAIN Whole :
             Whole[n].kind # "broken" /\ (Said(Whole[n]) => Whole[n].finish \in Finishes)
        /\ answer.text = Text(Whole)
    BY <2>1 DEF SaidBy, Complete
  <2>3. PICK calls \in CallMaps :
           /\ calls = parse.calls /\ DOMAIN calls = Named(Whole)
           /\ OrderedCalls(answer.message.calls, calls)
           /\ \A i : Part(calls, i).id = Id(Whole, i) /\ Part(calls, i).args = Args(Whole, i)
    <3>1. parse \in Parses
      BY ParsesAreTyped DEF ConversationInv, ConversationTypeOK
    <3>2. parse.calls \in CallMaps
      BY <3>1 DEF Parses
    <3> QED
      BY <2>1, <3>2 DEF SaidBy, Complete
  <2>4. Len(answer.message.calls) = Cardinality(Named(Whole))
    BY <2>3 DEF OrderedCalls
  <2>5. ASSUME NEW i \in Named(Whole)
        PROVE  answer.message.calls[Place(i, Named(Whole))] =
                 [id |-> Id(Whole, i), object |-> Parsed(Args(Whole, i)) = "object"]
    <3>1. answer.message.calls[Place(i, Named(Whole))] = Called(calls[i])
      BY <2>3 DEF OrderedCalls
    <3>2. calls[i].id = Id(Whole, i) /\ calls[i].args = Args(Whole, i)
      BY <2>3 DEF Part
    <3> QED
      BY <3>1, <3>2 DEF Called
  <2> QED
    BY <2>2, <2>4, <2>5 DEF AnswersAreWhole
<1> QED
  BY <1>1, ConversationInvariant, PTL

(* Every answer whose calls are proper can be carried on: with the results *)
(* of its calls in any order the next turn passes validate_turn.           *)
THEOREM AnswersAlwaysContinued ==
  ConversationSpec => []AnswersCanBeContinued
<1>1. ConversationInv => AnswersCanBeContinued
  <2> SUFFICES ASSUME ConversationInv, status = "answered", CallsProper(answer.message),
                      Len(messages) + 1 + Len(answer.message.calls) <= MaxMessages,
                      NEW results \in SetToSeqs({Result(id) : id \in IdsOf(answer.message)})
               PROVE  ValidTurn(messages \o <<answer.message>> \o results)
    BY DEF AnswersCanBeContinued
  <2>1. /\ messages \in Seq(Messages) /\ answer.message \in Messages
        /\ answer.message.role = "assistant" /\ ValidTurn(messages)
    BY DEF ConversationInv, ConversationTypeOK, Submitted, Answered
  <2>2. PICK s \in Seq(Messages) : s = messages
    BY <2>1
  <2>3. PICK a \in Messages : a = answer.message
    BY <2>1
  <2>4. WellPaired(s)
    BY <2>1, <2>2, ValidMeansPaired
  <2>5. /\ s \o <<a>> \o results \in Seq(Messages)
        /\ WellPaired(s \o <<a>> \o results)
    BY <2>1, <2>2, <2>3, <2>4, PairedGoesOn
  <2>6. ValidTurn(s \o <<a>> \o results)
    BY <2>5, ValidMeansPaired
  <2> QED
    BY <2>2, <2>3, <2>6
<1> QED
  BY <1>1, ConversationInvariant, PTL

(* The adapters implement the provider that the turn pipeline counts on:   *)
(* pieces are never taken back, and one answer or one failure ends them.   *)
THEOREM AdaptersAlwaysAnswerOnce ==
  ConversationSpec => AdaptersAnswerOnce
<1>1. ConversationInit => Provider!Init
  BY ConversationInitialized
<1>2. ConversationInv /\ [ConversationNext]_conversationVars =>
        [Provider!Next]_<<IF status = "unsent" THEN "ready" ELSE status, parse.text, answer.text>>
  BY ConversationStep DEF Promised
<1> QED
  BY <1>1, <1>2, ConversationInvariant, PTL
  DEF ConversationSpec, AdaptersAnswerOnce, Provider!Spec
=============================================================================
