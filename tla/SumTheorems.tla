---------------------------- MODULE SumTheorems ----------------------------
(***************************************************************************)
(* Facts about SumFunctionOnSet of the community module Functions, for     *)
(* integer functions on finite sets.  The gateway keeps every budget       *)
(* account as a running total; the ledger's conservation theorem says that *)
(* the total is the sum of what its request rows hold, and changing one    *)
(* row changes one summand (SumUpdate).                                    *)
(*                                                                         *)
(* Induction over finite sets would instantiate an operator parameter, so  *)
(* each proof takes a least counterexample instead: strict inclusion is    *)
(* well founded on the finite subsets of a set.                            *)
(***************************************************************************)
EXTENDS Integers, FiniteSets, Functions, FiniteSetTheorems, TLAPS

(* The equation that the fold of SumFunctionOnSet solves on SUBSET D.      *)
SumsUp(g, f, D) ==
  g = [T \in SUBSET D |->
         IF T = {} THEN 0
         ELSE LET x == CHOOSE y \in T : TRUE IN f[x] + g[T \ {x}]]

(* A nonempty set of subsets of a finite set has a minimal member.         *)
LEMMA MinimalSubset ==
  ASSUME NEW D, IsFiniteSet(D), NEW C, C \subseteq SUBSET D, C # {}
  PROVE  \E S \in C : \A T \in C : ~ (T \subseteq S /\ T # S)
<1>1. IsWellFoundedOn(StrictSubsetOrdering(D), FiniteSubsetsOf(D))
  BY FS_StrictSubsetOrderingWellFounded
<1>2. FiniteSubsetsOf(D) = SUBSET D
  BY FS_FiniteSubsetsOfFinite
<1>3. PICK S \in C : \A T \in C : ~ (<<T, S>> \in StrictSubsetOrdering(D))
  BY <1>1, <1>2, WFMin
<1> QED
  BY <1>3, Zenon DEF StrictSubsetOrdering

(* Two solutions agree wherever both are defined.                          *)
LEMMA SumsUpAgree ==
  ASSUME NEW f, NEW D, NEW E, NEW g, NEW h,
         SumsUp(g, f, D), SumsUp(h, f, E),
         NEW T, T \subseteq D, T \subseteq E, IsFiniteSet(T)
  PROVE  g[T] = h[T]
<1> DEFINE Bad == {S \in SUBSET T : g[S] # h[S]}
<1> SUFFICES ASSUME Bad # {} PROVE FALSE
  OBVIOUS
<1>1. PICK S \in Bad : \A R \in Bad : ~ (R \subseteq S /\ R # S)
  <2>1. Bad \subseteq SUBSET T
    OBVIOUS
  <2> HIDE DEF Bad
  <2> QED
    BY <2>1, MinimalSubset
<1>2. S \in SUBSET D /\ S \in SUBSET E
  OBVIOUS
<1>3. /\ g[S] = IF S = {} THEN 0
                ELSE LET x == CHOOSE y \in S : TRUE IN f[x] + g[S \ {x}]
      /\ h[S] = IF S = {} THEN 0
                ELSE LET x == CHOOSE y \in S : TRUE IN f[x] + h[S \ {x}]
  BY <1>2 DEF SumsUp
<1>4. S # {}
  BY <1>3
<1> DEFINE c == CHOOSE y \in S : TRUE
<1>5. c \in S
  BY <1>4
<1>6. S \ {c} \in SUBSET T /\ S \ {c} \subseteq S /\ S \ {c} # S
  BY <1>5
<1>7. g[S \ {c}] = h[S \ {c}]
  BY <1>1, <1>6
<1>8. g[S] = f[c] + g[S \ {c}] /\ h[S] = f[c] + h[S \ {c}]
  BY <1>3, <1>4
<1> QED
  BY <1>7, <1>8

(* Every finite set has a solution.                                        *)
LEMMA SumsUpExists ==
  ASSUME NEW f, NEW D, IsFiniteSet(D)
  PROVE  \E g : SumsUp(g, f, D)
<1> DEFINE Bad == {S \in SUBSET D : ~ \E g : SumsUp(g, f, S)}
<1> SUFFICES ASSUME Bad # {} PROVE FALSE
  OBVIOUS
<1>1. PICK S \in Bad : \A R \in Bad : ~ (R \subseteq S /\ R # S)
  <2>1. Bad \subseteq SUBSET D
    OBVIOUS
  <2> HIDE DEF Bad
  <2> QED
    BY <2>1, MinimalSubset
<1> DEFINE Sol(x) == CHOOSE h : SumsUp(h, f, S \ {x})
           Pick(T) == CHOOSE y \in T : TRUE
           new == [T \in SUBSET S |->
                     IF T = {} THEN 0
                     ELSE f[Pick(T)] + Sol(Pick(T))[T \ {Pick(T)}]]
<1>2. ASSUME NEW x \in S PROVE SumsUp(Sol(x), f, S \ {x})
  <2>1. S \ {x} \in SUBSET D /\ S \ {x} \subseteq S /\ S \ {x} # S
    OBVIOUS
  <2>2. \E h : SumsUp(h, f, S \ {x})
    BY <1>1, <2>1
  <2> QED
    BY <2>2
<1>3. ASSUME NEW T \in SUBSET S, T # {}
      PROVE  new[T \ {Pick(T)}] = Sol(Pick(T))[T \ {Pick(T)}]
  <2> DEFINE x == Pick(T)
             U == T \ {x}
  <2>1. x \in T /\ x \in S /\ U \in SUBSET S /\ U \in SUBSET (S \ {x})
    BY <1>3
  <2>2. SumsUp(Sol(x), f, S \ {x})
    BY <1>2, <2>1
  <2>3. Sol(x)[U] = IF U = {} THEN 0 ELSE f[Pick(U)] + Sol(x)[U \ {Pick(U)}]
    BY <2>1, <2>2, Zenon DEF SumsUp
  <2>4. CASE U = {}
    BY <2>1, <2>3, <2>4
  <2>5. CASE U # {}
    <3> DEFINE y == Pick(U)
    <3>1. y \in U /\ y \in S
      BY <2>1, <2>5
    <3>2. U \ {y} \subseteq S \ {y} /\ U \ {y} \subseteq S \ {x}
      BY <2>1
    <3>3. SumsUp(Sol(y), f, S \ {y})
      BY <1>2, <3>1
    <3>4. IsFiniteSet(U \ {y})
      BY FS_Subset, <2>1
    <3> HIDE DEF Sol, Pick, x, y, U
    <3>5. Sol(y)[U \ {y}] = Sol(x)[U \ {y}]
      BY <2>2, <3>2, <3>3, <3>4, SumsUpAgree
    <3>6. new[U] = f[y] + Sol(y)[U \ {y}]
      BY <2>1, <2>5 DEF y
    <3> QED
      BY <2>3, <2>5, <3>5, <3>6 DEF x, y, U
  <2> QED
    BY <2>4, <2>5
<1>4. new = [T \in SUBSET S |->
               IF T = {} THEN 0
               ELSE LET x == CHOOSE y \in T : TRUE IN f[x] + new[T \ {x}]]
  <2>1. ASSUME NEW T \in SUBSET S
        PROVE  new[T] = IF T = {} THEN 0 ELSE f[Pick(T)] + new[T \ {Pick(T)}]
    <3>1. new[T] = IF T = {} THEN 0 ELSE f[Pick(T)] + Sol(Pick(T))[T \ {Pick(T)}]
      OBVIOUS
    <3>2. T # {} => new[T \ {Pick(T)}] = Sol(Pick(T))[T \ {Pick(T)}]
      BY <1>3
    <3> HIDE DEF new, Sol, Pick
    <3> QED
      BY <3>1, <3>2
  <2>2. new = [T \in SUBSET S |-> new[T]]
    OBVIOUS
  <2> HIDE DEF new
  <2> QED
    BY <2>1, <2>2, Zenon
<1> QED
  BY <1>4 DEF SumsUp

(* Sums of a finite set are unfolded at the element CHOOSE picks.          *)
LEMMA SumUnfold ==
  ASSUME NEW f, NEW D, IsFiniteSet(D)
  PROVE  /\ D = {} => SumFunctionOnSet(f, D) = 0
         /\ D # {} => LET x == CHOOSE y \in D : TRUE
                     IN SumFunctionOnSet(f, D)
                          = f[x] + SumFunctionOnSet(f, D \ {x})
<1> DEFINE s(E) == CHOOSE g : SumsUp(g, f, E)
<1>1. ASSUME NEW E, E \subseteq D
      PROVE  SumFunctionOnSet(f, E) = s(E)[E] /\ SumsUp(s(E), f, E)
  <2>1. SumFunctionOnSet(f, E) = s(E)[E]
    BY DEF SumFunctionOnSet, FoldFunctionOnSet, MapThenFoldSet, SumsUp
  <2>2. IsFiniteSet(E)
    BY <1>1, FS_Subset
  <2>3. \E g : SumsUp(g, f, E)
    BY <2>2, SumsUpExists
  <2> QED
    BY <2>1, <2>3
<1>2. SumFunctionOnSet(f, D) = IF D = {} THEN 0
        ELSE LET x == CHOOSE y \in D : TRUE IN f[x] + s(D)[D \ {x}]
  <2>1. SumFunctionOnSet(f, D) = s(D)[D] /\ SumsUp(s(D), f, D)
    BY <1>1
  <2> HIDE DEF s
  <2> QED
    BY <2>1 DEF SumsUp
<1>3. CASE D = {}
  BY <1>2, <1>3
<1>4. CASE D # {}
  <2> DEFINE x == CHOOSE y \in D : TRUE
             E == D \ {x}
  <2>1. E \subseteq D /\ IsFiniteSet(E)
    BY FS_Subset
  <2>2. SumsUp(s(D), f, D) /\ SumsUp(s(E), f, E) /\ SumFunctionOnSet(f, E) = s(E)[E]
    BY <1>1, <2>1
  <2>3. s(D)[E] = s(E)[E]
    <3> HIDE DEF s, E
    <3> QED
      BY <2>1, <2>2, SumsUpAgree
  <2> QED
    BY <1>2, <1>4, <2>2, <2>3
<1> QED
  BY <1>3, <1>4

(* The sum of integers over a finite set is an integer.                    *)
LEMMA SumInt ==
  ASSUME NEW D, IsFiniteSet(D), NEW f \in [D -> Int]
  PROVE  \A S \in SUBSET D : SumFunctionOnSet(f, S) \in Int
<1> DEFINE Bad == {S \in SUBSET D : SumFunctionOnSet(f, S) \notin Int}
<1> SUFFICES ASSUME Bad # {} PROVE FALSE
  OBVIOUS
<1>1. PICK S \in Bad : \A R \in Bad : ~ (R \subseteq S /\ R # S)
  <2>1. Bad \subseteq SUBSET D
    OBVIOUS
  <2> HIDE DEF Bad
  <2> QED
    BY <2>1, MinimalSubset
<1>2. IsFiniteSet(S)
  BY FS_Subset
<1> DEFINE x == CHOOSE y \in S : TRUE
<1>3. S # {} /\ SumFunctionOnSet(f, S) = f[x] + SumFunctionOnSet(f, S \ {x})
  BY <1>2, SumUnfold
<1>4. x \in S /\ f[x] \in Int /\ S \ {x} \in SUBSET D
  BY <1>3
<1>5. SumFunctionOnSet(f, S \ {x}) \in Int
  BY <1>1, <1>4
<1> QED
  BY <1>3, <1>4, <1>5

(* A sum of naturals is a natural.                                         *)
LEMMA SumNat ==
  ASSUME NEW D, IsFiniteSet(D), NEW f \in [D -> Nat]
  PROVE  \A S \in SUBSET D : SumFunctionOnSet(f, S) \in Nat
<1> DEFINE Bad == {S \in SUBSET D : SumFunctionOnSet(f, S) \notin Nat}
<1> SUFFICES ASSUME Bad # {} PROVE FALSE
  OBVIOUS
<1>1. PICK S \in Bad : \A R \in Bad : ~ (R \subseteq S /\ R # S)
  <2>1. Bad \subseteq SUBSET D
    OBVIOUS
  <2> HIDE DEF Bad
  <2> QED
    BY <2>1, MinimalSubset
<1>2. IsFiniteSet(S)
  BY FS_Subset
<1> DEFINE x == CHOOSE y \in S : TRUE
<1>3. S # {} /\ SumFunctionOnSet(f, S) = f[x] + SumFunctionOnSet(f, S \ {x})
  <2>1. S = {} => SumFunctionOnSet(f, S) = 0
    BY <1>2, SumUnfold
  <2>2. S # {}
    BY <2>1
  <2> QED
    BY <1>2, <2>2, SumUnfold
<1>4. x \in S /\ f[x] \in Nat /\ S \ {x} \in SUBSET D
  BY <1>3
<1>5. SumFunctionOnSet(f, S \ {x}) \in Nat
  BY <1>1, <1>4
<1> QED
  BY <1>3, <1>4, <1>5

(* Any element of the set may be taken out first.                          *)
LEMMA SumRemove ==
  ASSUME NEW D, IsFiniteSet(D), NEW f \in [D -> Int]
  PROVE  \A S \in SUBSET D : \A x \in S :
           SumFunctionOnSet(f, S) = f[x] + SumFunctionOnSet(f, S \ {x})
<1> DEFINE Splits(S) == \A x \in S :
             SumFunctionOnSet(f, S) = f[x] + SumFunctionOnSet(f, S \ {x})
           Bad == {S \in SUBSET D : ~ Splits(S)}
<1> SUFFICES ASSUME Bad # {} PROVE FALSE
  OBVIOUS
<1>1. PICK S \in Bad : \A R \in Bad : ~ (R \subseteq S /\ R # S)
  <2>1. Bad \subseteq SUBSET D
    OBVIOUS
  <2> HIDE DEF Bad
  <2> QED
    BY <2>1, MinimalSubset
<1>2. S \in SUBSET D /\ ~ Splits(S)
  OBVIOUS
<1>3. ASSUME NEW R \in SUBSET D, R \subseteq S, R # S PROVE Splits(R)
  BY <1>1, <1>3
<1>4. PICK x \in S : SumFunctionOnSet(f, S) # f[x] + SumFunctionOnSet(f, S \ {x})
  BY <1>2
<1> DEFINE c == CHOOSE y \in S : TRUE
           sum(R) == SumFunctionOnSet(f, R)
<1>5. c \in S /\ sum(S) = f[c] + sum(S \ {c})
  <2>1. IsFiniteSet(S)
    BY <1>2, FS_Subset
  <2> QED
    BY <1>4, <2>1, SumUnfold
<1>6. x # c
  BY <1>4, <1>5
<1>7. sum(S \ {c}) = f[x] + sum((S \ {c}) \ {x})
  <2>1. Splits(S \ {c}) /\ x \in S \ {c}
    BY <1>3, <1>5, <1>6
  <2> QED
    BY <2>1
<1>8. sum(S \ {x}) = f[c] + sum((S \ {x}) \ {c})
  <2>1. Splits(S \ {x}) /\ c \in S \ {x}
    BY <1>3, <1>5, <1>6
  <2> QED
    BY <2>1
<1>9. (S \ {c}) \ {x} = (S \ {x}) \ {c} /\ (S \ {x}) \ {c} \in SUBSET D
  BY <1>2
<1>10. sum((S \ {c}) \ {x}) = sum((S \ {x}) \ {c})
  BY <1>9
<1>11. f[x] \in Int /\ f[c] \in Int /\ sum((S \ {x}) \ {c}) \in Int
  BY <1>2, <1>5, <1>9, SumInt
<1> QED
  <2>1. sum(S) = f[x] + sum(S \ {x})
    <3> HIDE DEF sum, c
    <3> QED
      BY <1>5, <1>7, <1>8, <1>10, <1>11
  <2> QED
    BY <1>4, <2>1 DEF sum

(* Functions that agree on the set have the same sum.                      *)
LEMMA SumEq ==
  ASSUME NEW D, IsFiniteSet(D), NEW f, NEW g,
         \A x \in D : f[x] = g[x]
  PROVE  SumFunctionOnSet(f, D) = SumFunctionOnSet(g, D)
<1> DEFINE Bad == {S \in SUBSET D : SumFunctionOnSet(f, S) # SumFunctionOnSet(g, S)}
<1> SUFFICES ASSUME Bad # {} PROVE FALSE
  OBVIOUS
<1>1. PICK S \in Bad : \A R \in Bad : ~ (R \subseteq S /\ R # S)
  <2>1. Bad \subseteq SUBSET D
    OBVIOUS
  <2> HIDE DEF Bad
  <2> QED
    BY <2>1, MinimalSubset
<1>2. IsFiniteSet(S)
  BY FS_Subset
<1> DEFINE x == CHOOSE y \in S : TRUE
<1>3. S # {}
  BY <1>2, SumUnfold
<1>4. /\ SumFunctionOnSet(f, S) = f[x] + SumFunctionOnSet(f, S \ {x})
      /\ SumFunctionOnSet(g, S) = g[x] + SumFunctionOnSet(g, S \ {x})
  BY <1>2, <1>3, SumUnfold
<1>5. f[x] = g[x] /\ S \ {x} \in SUBSET D /\ S \ {x} \subseteq S /\ S \ {x} # S
  BY <1>3
<1>6. SumFunctionOnSet(f, S \ {x}) = SumFunctionOnSet(g, S \ {x})
  BY <1>1, <1>5
<1> QED
  BY <1>4, <1>5, <1>6

(* Changing one summand changes the sum by the difference.                 *)
LEMMA SumUpdate ==
  ASSUME NEW D, IsFiniteSet(D), NEW f \in [D -> Int], NEW g \in [D -> Int],
         NEW x \in D, \A y \in D \ {x} : f[y] = g[y]
  PROVE  SumFunctionOnSet(g, D) = SumFunctionOnSet(f, D) - f[x] + g[x]
<1>1. /\ SumFunctionOnSet(f, D) = f[x] + SumFunctionOnSet(f, D \ {x})
      /\ SumFunctionOnSet(g, D) = g[x] + SumFunctionOnSet(g, D \ {x})
  BY SumRemove
<1>2. SumFunctionOnSet(f, D \ {x}) = SumFunctionOnSet(g, D \ {x})
  <2>1. IsFiniteSet(D \ {x})
    BY FS_Subset
  <2> QED
    BY <2>1, SumEq
<1>3. SumFunctionOnSet(f, D \ {x}) \in Int
  BY SumInt
<1> QED
  BY <1>1, <1>2, <1>3

(* A sum of zeros is zero.                                                 *)
LEMMA SumZero ==
  ASSUME NEW D, IsFiniteSet(D), NEW f, \A x \in D : f[x] = 0
  PROVE  SumFunctionOnSet(f, D) = 0
<1> DEFINE Bad == {S \in SUBSET D : SumFunctionOnSet(f, S) # 0}
<1> SUFFICES ASSUME Bad # {} PROVE FALSE
  OBVIOUS
<1>1. PICK S \in Bad : \A R \in Bad : ~ (R \subseteq S /\ R # S)
  <2>1. Bad \subseteq SUBSET D
    OBVIOUS
  <2> HIDE DEF Bad
  <2> QED
    BY <2>1, MinimalSubset
<1>2. IsFiniteSet(S)
  BY FS_Subset
<1> DEFINE x == CHOOSE y \in S : TRUE
<1>3. S # {} /\ SumFunctionOnSet(f, S) = f[x] + SumFunctionOnSet(f, S \ {x})
  BY <1>2, SumUnfold
<1>4. f[x] = 0 /\ SumFunctionOnSet(f, S \ {x}) = 0
  BY <1>1, <1>3
<1> QED
  BY <1>3, <1>4
=============================================================================
