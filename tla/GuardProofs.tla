---------------------------- MODULE GuardProofs -----------------------------
(* Theorems about the guards a process keeps in memory, for any number of  *)
(* peers, workers, sign-ins and form posts, any quotas and spans, and any  *)
(* lag of the workers that is shorter than a window.                       *)
EXTENDS Guards, FiniteSetTheorems, SequenceTheorems, TLAPS

(***************************************************************************)
(* Lists of instants in order.                                             *)
(***************************************************************************)
Ascending(times) == \A i, j \in DOMAIN times : i <= j => times[i] <= times[j]

(* The first k instants are not after t, the others are.                   *)
SplitAt(times, t, k) ==
  /\ k \in 0..Len(times)
  /\ \A i \in 1..k : times[i] <= t
  /\ \A i \in k + 1..Len(times) : times[i] > t

LEMMA LeastNatural ==
  ASSUME NEW C, C \subseteq Nat, C # {}
  PROVE  \E m \in C : \A n \in C : m <= n
<1>1. IsWellFoundedOn(OpToRel(<, Nat), Nat)
  BY NatLessThanWellFounded
<1>2. PICK m \in C : \A n \in C : ~ (<<n, m>> \in OpToRel(<, Nat))
  BY <1>1, WFMin
<1>3. \A n \in C : ~ (n < m)
  BY <1>2 DEF OpToRel
<1> QED
  BY <1>3

LEMMA SplitExists ==
  ASSUME NEW times \in Seq(Int), Ascending(times), NEW t \in Int
  PROVE  \E k \in 0..Len(times) : SplitAt(times, t, k)
<1> DEFINE C == {k \in 0..Len(times) : \A i \in k + 1..Len(times) : times[i] > t}
<1>1. Len(times) \in C /\ C \subseteq Nat
  OBVIOUS
<1>2. PICK k \in C : \A n \in C : k <= n
  BY <1>1, LeastNatural
<1>3. ASSUME k # 0, times[k] > t PROVE FALSE
  <2>1. k - 1 \in C /\ k \in Int
    BY <1>3
  <2> HIDE DEF C
  <2>2. k <= k - 1
    BY <1>2, <2>1
  <2> QED
    BY <2>1, <2>2
<1>4. \A i \in 1..k : times[i] <= t
  BY <1>3 DEF Ascending
<1> QED
  BY <1>4 DEF SplitAt

(* What is later than t is the rest of the list.  The recursive function   *)
(* that Later names is compared with one written down, least index first.  *)
LEMMA LaterIsSuffix ==
  ASSUME NEW times \in Seq(Int), NEW t \in Int, NEW k, SplitAt(times, t, k)
  PROVE  Later(times, t) = SubSeq(times, k + 1, Len(times))
<1> USE DEF SplitAt
<1> DEFINE n == Len(times)
           Solves(f) == f = [i \in 0..n |->
             IF i = 0 THEN <<>>
             ELSE IF times[i] > t THEN Append(f[i - 1], times[i]) ELSE f[i - 1]]
           g == [i \in 0..n |-> IF i <= k THEN <<>> ELSE SubSeq(times, k + 1, i)]
           kept == CHOOSE f : Solves(f)
<1>1. Solves(g)
  <2>1. ASSUME NEW i \in 0..n
        PROVE  g[i] = IF i = 0 THEN <<>>
                      ELSE IF times[i] > t THEN Append(g[i - 1], times[i]) ELSE g[i - 1]
    <3>1. CASE i <= k
      BY <3>1
    <3>2. CASE i >= k + 1
      <4>1. SubSeq(times, k + 1, i) = Append(SubSeq(times, k + 1, i - 1), times[i])
        BY <3>2, SubSeqRecursiveSecond
      <4>2. i - 1 = k => SubSeq(times, k + 1, i - 1) = <<>>
        BY SubSeqEmpty
      <4>3. /\ i # 0 /\ i - 1 \in 0..n /\ ~(i <= k) /\ times[i] > t
            /\ i - 1 <= k => i - 1 = k
        BY <3>2
      <4>4. g[i] = SubSeq(times, k + 1, i) /\ g[i - 1] = SubSeq(times, k + 1, i - 1)
        BY <4>2, <4>3
      <4> HIDE DEF g
      <4> QED
        BY <4>1, <4>3, <4>4
    <3> QED
      BY <3>1, <3>2
  <2> QED
    BY <2>1
<1>2. Solves(kept)
  <2> HIDE DEF Solves
  <2> QED
    BY <1>1
<1> HIDE DEF g, kept
<1>3. kept[n] = g[n]
  <2> DEFINE Bad == {i \in 0..n : kept[i] # g[i]}
  <2>1. n \in 0..n /\ Bad \subseteq Nat
    OBVIOUS
  <2>2. ASSUME Bad # {} PROVE FALSE
    <3> HIDE DEF Bad
    <3>1. PICK i \in Bad : \A j \in Bad : i <= j
      BY <2>1, <2>2, LeastNatural
    <3> USE DEF Bad
    <3>2. /\ kept[i] = IF i = 0 THEN <<>>
                ELSE IF times[i] > t THEN Append(kept[i - 1], times[i]) ELSE kept[i - 1]
          /\ g[i] = IF i = 0 THEN <<>>
                ELSE IF times[i] > t THEN Append(g[i - 1], times[i]) ELSE g[i - 1]
      BY <1>1, <1>2
    <3>3. i # 0 => kept[i - 1] = g[i - 1]
      BY <3>1
    <3> QED
      BY <3>1, <3>2, <3>3
  <2> QED
    BY <2>1, <2>2
<1>4. Later(times, t) = kept[n]
  BY DEF Later, kept
<1>5. g[n] = SubSeq(times, k + 1, n)
  <2>1. n = k => SubSeq(times, k + 1, n) = <<>>
    BY SubSeqEmpty
  <2> QED
    BY <2>1 DEF g
<1> QED
  BY <1>3, <1>4, <1>5

(* A list and the rest of it after k instants.                             *)
RestOf(times, rest, k) ==
  /\ rest \in Seq(Int) /\ Len(rest) = Len(times) - k
  /\ \A i \in 1..Len(rest) : rest[i] = times[k + i]

LEMMA LaterAt ==
  ASSUME NEW times \in Seq(Int), NEW t \in Int, NEW k, SplitAt(times, t, k)
  PROVE  RestOf(times, Later(times, t), k)
<1>1. Later(times, t) = SubSeq(times, k + 1, Len(times))
  BY LaterIsSuffix
<1>2. /\ \A i \in k + 1..Len(times) : times[i] \in Int
      /\ k \in Int /\ k <= Len(times)
  BY DEF SplitAt
<1>3. /\ SubSeq(times, k + 1, Len(times)) \in Seq(Int)
      /\ Len(SubSeq(times, k + 1, Len(times))) =
           IF k + 1 <= Len(times) THEN Len(times) - (k + 1) + 1 ELSE 0
      /\ \A i \in 1..Len(times) - (k + 1) + 1 :
           SubSeq(times, k + 1, Len(times))[i] = times[(k + 1) + i - 1]
  BY <1>2, SubSeqProperties
<1> QED
  BY <1>1, <1>2, <1>3 DEF RestOf

(* Only the rest of a list in order is later than an instant.              *)
LEMMA LaterSplits ==
  ASSUME NEW times \in Seq(Int), Ascending(times), NEW t \in Int
  PROVE  \E k \in 0..Len(times) : SplitAt(times, t, k) /\ RestOf(times, Later(times, t), k)
<1>1. PICK k \in 0..Len(times) : SplitAt(times, t, k)
  BY SplitExists
<1> QED
  BY <1>1, LaterAt

(* Two rests of the same length whose members agree are the same.          *)
LEMMA SameRest ==
  ASSUME NEW s \in Seq(Int), NEW r \in Seq(Int), Len(s) = Len(r),
         \A i \in 1..Len(s) : s[i] = r[i]
  PROVE  s = r
BY SeqEqual

(* What is later is in order, and members of the list.                     *)
LEMMA LaterAscends ==
  ASSUME NEW times \in Seq(Int), Ascending(times), NEW t \in Int
  PROVE  /\ Later(times, t) \in Seq(Int) /\ Ascending(Later(times, t))
         /\ Len(Later(times, t)) <= Len(times)
         /\ \A i \in 1..Len(Later(times, t)) :
              /\ Later(times, t)[i] > t
              /\ \E j \in 1..Len(times) : Later(times, t)[i] = times[j]
<1> DEFINE rest == Later(times, t)
<1>1. PICK k \in 0..Len(times) : SplitAt(times, t, k) /\ RestOf(times, rest, k)
  BY LaterSplits
<1> HIDE DEF rest
<1>2. /\ rest \in Seq(Int) /\ Len(rest) = Len(times) - k /\ Len(rest) <= Len(times)
      /\ k \in Nat /\ Len(times) \in Nat
  BY <1>1 DEF RestOf
<1>3. \A i \in 1..Len(rest) : /\ k + i \in 1..Len(times) /\ k + i \in k + 1..Len(times)
                             /\ rest[i] = times[k + i]
  BY <1>1, <1>2 DEF RestOf
<1>4. DOMAIN rest = 1..Len(rest) /\ DOMAIN times = 1..Len(times)
  BY <1>2
<1>5. ASSUME NEW i \in 1..Len(rest), NEW j \in 1..Len(rest), i <= j
      PROVE  rest[i] <= rest[j]
  <2>1. k + i \in DOMAIN times /\ k + j \in DOMAIN times /\ k + i <= k + j
    BY <1>2, <1>3, <1>4, <1>5
  <2>2. times[k + i] <= times[k + j]
    BY <2>1 DEF Ascending
  <2> QED
    BY <1>3, <2>2
<1>6. \A i \in 1..Len(rest) : rest[i] > t
  BY <1>1, <1>3 DEF SplitAt
<1>7. Ascending(rest)
  BY <1>4, <1>5 DEF Ascending
<1> QED
  BY <1>2, <1>3, <1>6, <1>7 DEF rest

LEMMA LaterNothing ==
  ASSUME NEW t \in Int
  PROVE  Later(<<>>, t) = <<>>
<1>1. SplitAt(<<>>, t, 0) /\ <<>> \in Seq(Int)
  BY DEF SplitAt
<1>2. RestOf(<<>>, Later(<<>>, t), 0)
  BY <1>1, LaterAt
<1>3. Later(<<>>, t) \in Seq(Int) /\ Len(Later(<<>>, t)) = 0
  BY <1>2 DEF RestOf
<1> QED
  BY <1>3

(* What is added after t stays.                                            *)
LEMMA LaterAppend ==
  ASSUME NEW times \in Seq(Int), Ascending(times), NEW t \in Int, NEW x \in Int, x > t
  PROVE  Later(Append(times, x), t) = Append(Later(times, t), x)
<1> DEFINE more == Append(times, x)
           old  == Later(times, t)
           new  == Later(more, t)
<1>1. PICK k \in 0..Len(times) : SplitAt(times, t, k) /\ RestOf(times, old, k)
  BY LaterSplits
<1>2. /\ more \in Seq(Int) /\ Len(more) = Len(times) + 1
      /\ \A i \in 1..Len(times) : more[i] = times[i]
      /\ more[Len(times) + 1] = x
  OBVIOUS
<1> HIDE DEF more, old
<1>3. SplitAt(more, t, k)
  <2>1. k \in Nat /\ Len(times) \in Nat /\ k <= Len(times)
    OBVIOUS
  <2>2. ASSUME NEW i \in k + 1..Len(more) PROVE more[i] > t
    <3>1. CASE i \in k + 1..Len(times)
      <4>1. i \in 1..Len(times) /\ times[i] > t
        BY <1>1, <2>1, <3>1 DEF SplitAt
      <4> QED
        BY <1>2, <4>1
    <3>2. CASE i = Len(times) + 1
      BY <1>2, <3>2
    <3> QED
      BY <1>2, <2>1, <3>1, <3>2
  <2>3. ASSUME NEW i \in 1..k PROVE more[i] <= t
    <3>1. i \in 1..Len(times) /\ times[i] <= t
      BY <1>1, <2>1 DEF SplitAt
    <3> QED
      BY <1>2, <3>1
  <2> QED
    BY <1>2, <2>1, <2>2, <2>3 DEF SplitAt
<1>4. RestOf(more, new, k)
  BY <1>2, <1>3, LaterAt
<1> HIDE DEF new
<1>5. /\ old \in Seq(Int) /\ new \in Seq(Int) /\ k \in Nat /\ Len(times) \in Nat
      /\ Len(old) = Len(times) - k /\ Len(new) = Len(times) + 1 - k
  BY <1>1, <1>2, <1>4 DEF RestOf
<1>6. /\ Append(old, x) \in Seq(Int) /\ Len(Append(old, x)) = Len(new)
      /\ \A i \in 1..Len(old) : Append(old, x)[i] = old[i]
      /\ Append(old, x)[Len(old) + 1] = x
  BY <1>5
<1>7. ASSUME NEW i \in 1..Len(new) PROVE Append(old, x)[i] = new[i]
  <2>1. new[i] = more[k + i]
    BY <1>4 DEF RestOf
  <2>2. CASE i \in 1..Len(old)
    <3>0. old[i] = times[k + i]
      BY <1>1, <2>2 DEF RestOf
    <3>1. k + i \in 1..Len(times)
      <4>1. i \in Int /\ 1 <= i /\ i <= Len(times) - k
        BY <1>5, <2>2
      <4> QED
        BY <1>5, <4>1
    <3> QED
      BY <1>2, <1>6, <2>1, <2>2, <3>0, <3>1
  <2>3. CASE i = Len(old) + 1
    <3>1. k + i = Len(times) + 1
      BY <1>5, <2>3
    <3> QED
      BY <1>2, <1>6, <2>1, <2>3, <3>1
  <2>4. Len(new) = Len(old) + 1 /\ Len(old) \in Nat
    BY <1>5
  <2>5. i \in 1..Len(old) \/ i = Len(old) + 1
    BY <2>4
  <2> QED
    BY <2>2, <2>3, <2>5
<1>8. Append(old, x) = new
  BY <1>5, <1>6, <1>7, SameRest
<1> QED
  BY <1>8 DEF old, new, more

(* Looking twice, the second time from later on, is looking once.          *)
LEMMA LaterAgain ==
  ASSUME NEW times \in Seq(Int), Ascending(times), NEW t \in Int, NEW u \in Int, t <= u
  PROVE  Later(Later(times, t), u) = Later(times, u)
<1> DEFINE once == Later(times, t)
           twice == Later(once, u)
           direct == Later(times, u)
<1>1. PICK k \in 0..Len(times) : SplitAt(times, t, k) /\ RestOf(times, once, k)
  BY LaterSplits
<1>2. PICK l \in 0..Len(times) : SplitAt(times, u, l) /\ RestOf(times, direct, l)
  BY LaterSplits
<1> HIDE DEF once, direct
<1>3. /\ k \in Nat /\ l \in Nat /\ Len(times) \in Nat /\ k <= Len(times) /\ l <= Len(times)
      /\ once \in Seq(Int) /\ direct \in Seq(Int)
      /\ Len(once) = Len(times) - k /\ Len(direct) = Len(times) - l
  BY <1>1, <1>2 DEF RestOf
<1>4. k <= l
  <2>1. ASSUME l < k PROVE FALSE
    <3>1. l + 1 \in 1..k /\ l + 1 \in l + 1..Len(times)
      BY <1>3, <2>1
    <3>2. times[l + 1] <= t /\ times[l + 1] > u /\ times[l + 1] \in Int
      BY <1>1, <1>2, <3>1 DEF SplitAt
    <3> QED
      BY <3>2
  <2> QED
    BY <1>3, <2>1
<1>5. SplitAt(once, u, l - k)
  <2>1. l - k \in 0..Len(once)
    BY <1>3, <1>4
  <2>2. ASSUME NEW i \in 1..l - k PROVE once[i] <= u
    <3>1. i \in 1..Len(once) /\ k + i \in 1..l
      BY <1>3, <1>4
    <3> QED
      BY <1>1, <1>2, <3>1 DEF SplitAt, RestOf
  <2>3. ASSUME NEW i \in l - k + 1..Len(once) PROVE once[i] > u
    <3>1. i \in 1..Len(once) /\ k + i \in l + 1..Len(times)
      BY <1>3, <1>4
    <3> QED
      BY <1>1, <1>2, <3>1 DEF SplitAt, RestOf
  <2> QED
    BY <2>1, <2>2, <2>3 DEF SplitAt
<1>6. RestOf(once, twice, l - k)
  BY <1>3, <1>5, LaterAt
<1> HIDE DEF twice
<1>7. twice \in Seq(Int) /\ Len(twice) = Len(direct)
  BY <1>3, <1>6 DEF RestOf
<1>8. ASSUME NEW i \in 1..Len(twice) PROVE twice[i] = direct[i]
  <2>1. /\ i \in 1..Len(direct) /\ (l - k) + i \in 1..Len(once)
        /\ k + ((l - k) + i) = l + i
    BY <1>3, <1>4, <1>7
  <2>2. twice[i] = once[(l - k) + i]
    BY <1>6 DEF RestOf
  <2>3. once[(l - k) + i] = times[l + i]
    BY <1>1, <2>1 DEF RestOf
  <2>4. direct[i] = times[l + i]
    BY <1>2, <2>1 DEF RestOf
  <2> QED
    BY <2>2, <2>3, <2>4
<1>9. twice = direct
  BY <1>3, <1>7, <1>8, SameRest
<1> QED
  BY <1>9 DEF once, twice, direct

(* Two lists that run in step, the first d ahead, do so from any instant.  *)
InStep(late, early, d) ==
  Len(late) = Len(early) /\ \A i \in 1..Len(early) : late[i] = early[i] + d

LEMMA LaterInStep ==
  ASSUME NEW late \in Seq(Int), NEW early \in Seq(Int), NEW d \in Int, NEW t \in Int,
         Ascending(early), InStep(late, early, d)
  PROVE  InStep(Later(late, t), Later(early, t - d), d)
<1> DEFINE a == Later(late, t)
           b == Later(early, t - d)
<1>0. t - d \in Int
  OBVIOUS
<1>1. PICK k \in 0..Len(early) : SplitAt(early, t - d, k) /\ RestOf(early, b, k)
  BY <1>0, LaterSplits
<1>2. /\ Len(late) = Len(early) /\ k \in Nat /\ Len(early) \in Nat
      /\ \A i \in 1..Len(early) : late[i] = early[i] + d /\ early[i] \in Int
  BY DEF InStep
<1>3. SplitAt(late, t, k)
  <2>1. ASSUME NEW i \in 1..k PROVE late[i] <= t
    <3>1. i \in 1..Len(early) /\ early[i] <= t - d
      BY <1>1, <1>2 DEF SplitAt
    <3> QED
      BY <1>2, <3>1
  <2>2. ASSUME NEW i \in k + 1..Len(late) PROVE late[i] > t
    <3>1. i \in 1..Len(early) /\ early[i] > t - d
      BY <1>1, <1>2 DEF SplitAt
    <3> QED
      BY <1>2, <3>1
  <2> QED
    BY <1>2, <2>1, <2>2 DEF SplitAt
<1>4. RestOf(late, a, k)
  BY <1>3, LaterAt
<1> HIDE DEF a, b
<1>5. Len(a) = Len(b) /\ \A i \in 1..Len(b) : k + i \in 1..Len(early)
  BY <1>1, <1>2, <1>4 DEF RestOf
<1>6. ASSUME NEW i \in 1..Len(b) PROVE a[i] = b[i] + d
  BY <1>1, <1>2, <1>4, <1>5 DEF RestOf
<1> QED
  BY <1>5, <1>6 DEF InStep, a, b

(* Adding an instant that is not before the others.                        *)
LEMMA AppendAscends ==
  ASSUME NEW times \in Seq(Int), Ascending(times), NEW x \in Int,
         \A i \in 1..Len(times) : times[i] <= x
  PROVE  Append(times, x) \in Seq(Int) /\ Ascending(Append(times, x))
BY DEF Ascending

(***************************************************************************)
(* The admission guard.                                                    *)
(***************************************************************************)
Least == Window - MaxLag

(* Of twice a quota of requests in a row, the last comes Least ticks after *)
(* the first.                                                              *)
Spread(times, quota) ==
  \A i, j \in 1..Len(times) : j >= i + 2 * quota - 1 => times[j] - times[i] >= Least

(* A key without a window: a quota of requests ago is Least ticks ago.     *)
Closed(times, quota, t) ==
  \A i \in 1..Len(times) : i <= Len(times) - quota + 1 => t - times[i] >= Least

(* A key with a window, whose own requests are the last ones of the list:  *)
(* the first of them came when the window opened, up to the lag after its  *)
(* start, and Least ticks after what was a quota before.  If it has left   *)
(* the list the window is too old to be used again.                        *)
OpenedAt(times, first, quota, window, t) ==
  /\ first < 1 => window.start <= t - Window - MaxLag
  /\ first >= 1 =>
       /\ window.start <= times[first] /\ times[first] <= window.start + MaxLag
       /\ \A i \in 1..Len(times) : i <= first - quota => times[first] - times[i] >= Least

Opened(times, quota, window, t) ==
  OpenedAt(times, Len(times) - window.count + 1, quota, window, t)

(* The requests that a key was let through with, and its window.           *)
LetIn(k) ==
  /\ admitted[k] \in Seq(Int) /\ Ascending(admitted[k])
  /\ \A i \in 1..Len(admitted[k]) : admitted[k][i] <= now
  /\ Spread(admitted[k], QuotaOf[k[2]])
  /\ k \notin DOMAIN windows => Closed(admitted[k], QuotaOf[k[2]], now)
  /\ k \in DOMAIN windows => Opened(admitted[k], QuotaOf[k[2]], windows[k], now)

LEMMA WindowCloses ==
  ASSUME NEW times \in Seq(Int), Ascending(times), NEW quota \in Nat \ {0}, NEW t \in Int,
         NEW window \in [start : Int, count : 1..quota], t - window.start >= Window,
         Opened(times, quota, window, t)
  PROVE  Closed(times, quota, t)
<1> DEFINE first == Len(times) - window.count + 1
<1>1. ASSUME NEW i \in 1..Len(times), i <= Len(times) - quota + 1
      PROVE  t - times[i] >= Least
  <2>1. first \in 1..Len(times) /\ i <= first
    BY <1>1
  <2>2. times[first] <= window.start + MaxLag /\ times[first] \in Int
    BY <2>1 DEF Opened, OpenedAt
  <2>3. times[i] <= times[first]
    BY <2>1 DEF Ascending
  <2> QED
    BY <2>2, <2>3, AdmissionAssumption DEF Least
<1> QED
  BY <1>1 DEF Closed

LEMMA WindowOpens ==
  ASSUME NEW times \in Seq(Int), Ascending(times), NEW quota \in Nat \ {0}, NEW t \in Int,
         \A i \in 1..Len(times) : times[i] <= t,
         Spread(times, quota), Closed(times, quota, t),
         NEW at \in Int, at <= t, t <= at + MaxLag
  PROVE  /\ Spread(Append(times, t), quota)
         /\ Opened(Append(times, t), quota, [start |-> at, count |-> 1], t)
<1> DEFINE more == Append(times, t)
           n == Len(times)
<1>1. /\ Len(more) = n + 1 /\ n \in Nat /\ more[n + 1] = t
      /\ \A i \in 1..n : more[i] = times[i] /\ more[i] \in Int
  OBVIOUS
<1> HIDE DEF more
<1>2. ASSUME NEW i \in 1..n, i <= n - quota + 1 PROVE t - more[i] >= Least
  BY <1>1, <1>2 DEF Closed
<1>3. Spread(more, quota)
  <2>1. ASSUME NEW i \in 1..n + 1, NEW j \in 1..n + 1, j >= i + 2 * quota - 1
        PROVE  more[j] - more[i] >= Least
    <3>1. CASE j <= n
      <4>1. i \in 1..n /\ j \in 1..n
        BY <1>1, <2>1, <3>1
      <4>2. times[j] - times[i] >= Least
        BY <2>1, <4>1 DEF Spread
      <4> QED
        BY <1>1, <4>1, <4>2
    <3>2. CASE j = n + 1
      <4>1. i = n + 1 => t - t >= Least
        BY <2>1, <3>2
      <4>2. i <= n => i <= n - quota + 1
        BY <2>1, <3>2
      <4>3. i <= n
        BY <2>1, <3>2
      <4> QED
        BY <1>1, <1>2, <3>2, <4>2, <4>3
    <3> QED
      BY <1>1, <3>1, <3>2
  <2> QED
    BY <1>1, <2>1 DEF Spread
<1>4. Opened(more, quota, [start |-> at, count |-> 1], t)
  <2>1. Len(more) - [start |-> at, count |-> 1].count + 1 = n + 1
    BY <1>1
  <2>2. \A i \in 1..n + 1 : i <= n + 1 - quota => t - more[i] >= Least
    BY <1>1, <1>2
  <2> QED
    BY <1>1, <2>1, <2>2, AdmissionAssumption DEF Opened, OpenedAt
<1> QED
  BY <1>3, <1>4 DEF more

LEMMA WindowIsUsed ==
  ASSUME NEW times \in Seq(Int), Ascending(times), NEW quota \in Nat \ {0}, NEW t \in Int,
         \A i \in 1..Len(times) : times[i] <= t,
         NEW window \in [start : Int, count : 1..quota - 1],
         t - window.start < Window + MaxLag,
         Spread(times, quota), Opened(times, quota, window, t)
  PROVE  /\ Spread(Append(times, t), quota)
         /\ Opened(Append(times, t), quota, [window EXCEPT !.count = @ + 1], t)
<1> DEFINE more == Append(times, t)
           n == Len(times)
           used == [window EXCEPT !.count = @ + 1]
           first == n - window.count + 1
<1>1. /\ Len(more) = n + 1 /\ n \in Nat /\ more[n + 1] = t
      /\ \A i \in 1..n : more[i] = times[i] /\ more[i] \in Int
  OBVIOUS
<1>2. used.count = window.count + 1 /\ used.start = window.start
  OBVIOUS
<1> HIDE DEF more, used
<1>3. first \in 1..n
  BY AdmissionAssumption DEF Opened, OpenedAt
<1>4. /\ window.start <= times[first] /\ times[first] <= window.start + MaxLag
      /\ \A i \in 1..n : i <= first - quota => times[first] - times[i] >= Least
      /\ times[first] <= t /\ times[first] \in Int
  BY <1>3 DEF Opened, OpenedAt
<1> DEFINE c == window.count
<1>5. n \in Nat
  BY <1>1
<1>6. c \in Int /\ c <= quota - 1 /\ first = n - c + 1 /\ first \in Int
  BY <1>1
<1> HIDE DEF first, c
<1>7. Spread(more, quota)
  <2>1. ASSUME NEW i \in 1..n + 1, NEW j \in 1..n + 1, j >= i + 2 * quota - 1
        PROVE  more[j] - more[i] >= Least
    <3>1. CASE j <= n
      <4>1. i \in 1..n /\ j \in 1..n
        BY <1>1, <2>1, <3>1
      <4>2. times[j] - times[i] >= Least
        BY <2>1, <4>1 DEF Spread
      <4> QED
        BY <1>1, <4>1, <4>2
    <3>2. CASE j = n + 1
      <4>0. i <= n - 2 * quota + 2
        BY <1>5, <2>1, <3>2
      <4>1. i \in 1..n /\ i <= first - quota
        BY <1>5, <1>6, <4>0
      <4>2. times[first] - times[i] >= Least /\ times[i] \in Int /\ Least \in Int
        BY <1>4, <4>1, AdmissionAssumption DEF Least
      <4>3. more[j] = t /\ more[i] = times[i]
        BY <1>1, <3>2, <4>1
      <4> QED
        BY <1>4, <4>2, <4>3 DEF Least
    <3>3. j <= n \/ j = n + 1
      BY <1>5
    <3> QED
      BY <3>1, <3>2, <3>3
  <2> QED
    BY <1>1, <2>1 DEF Spread
<1>8. Opened(more, quota, used, t)
  <2>1. Len(more) - used.count + 1 = first /\ more[first] = times[first]
    <3>1. used.count = c + 1 /\ Len(more) = n + 1
      BY <1>1, <1>2 DEF c
    <3>2. more[first] = times[first]
      BY <1>1, <1>3
    <3> QED
      BY <1>5, <1>6, <3>1, <3>2
  <2>2. ASSUME NEW i \in 1..n + 1, i <= first - quota
        PROVE  more[first] - more[i] >= Least
    <3>1. i \in 1..n
      BY <1>3, <2>2
    <3> QED
      BY <1>1, <1>4, <2>1, <2>2, <3>1
  <2>3. used.start <= more[first] /\ more[first] <= used.start + MaxLag
    BY <1>2, <1>4, <2>1
  <2>4. Len(more) = n + 1 /\ first \in Int /\ first >= 1
    BY <1>1, <1>3, <1>6
  <2>5. OpenedAt(more, first, quota, used, t)
    BY <2>2, <2>3, <2>4 DEF OpenedAt
  <2> QED
    BY <2>1, <2>5 DEF Opened
<1> QED
  BY <1>7, <1>8 DEF more, used

(* Time passes, and what is too old leaves the list.                       *)
LEMMA WindowsAge ==
  ASSUME NEW times \in Seq(Int), Ascending(times), NEW quota \in Nat \ {0}, NEW t \in Int
  PROVE  LET rest == Later(times, t + 1 - Window - MaxLag)
         IN /\ Spread(times, quota) => Spread(rest, quota)
            /\ Closed(times, quota, t) => Closed(rest, quota, t + 1)
            /\ \A window \in [start : Int, count : 1..quota] :
                 Opened(times, quota, window, t) => Opened(rest, quota, window, t + 1)
<1> DEFINE b == t + 1 - Window - MaxLag
           rest == Later(times, b)
           n == Len(times)
<1>0. /\ b \in Int /\ b = t + 1 - Window - MaxLag
      /\ Window \in Int /\ MaxLag \in Int /\ Least \in Int
  BY AdmissionAssumption DEF Least
<1> HIDE DEF b
<1>1. PICK k \in 0..n : SplitAt(times, b, k) /\ RestOf(times, rest, k)
  BY <1>0, LaterSplits
<1> HIDE DEF rest
<1>2. /\ n \in Nat /\ k \in Nat /\ k <= n /\ Len(rest) = n - k
      /\ \A i \in 1..n : times[i] \in Int
  BY <1>1 DEF RestOf
<1>3. \A i \in 1..Len(rest) : k + i \in 1..n /\ rest[i] = times[k + i]
  BY <1>1, <1>2 DEF RestOf
<1>4. ASSUME Spread(times, quota) PROVE Spread(rest, quota)
  <2>1. ASSUME NEW i \in 1..Len(rest), NEW j \in 1..Len(rest), j >= i + 2 * quota - 1
        PROVE  rest[j] - rest[i] >= Least
    <3>1. k + j >= (k + i) + 2 * quota - 1
      BY <1>2, <2>1
    <3>2. times[k + j] - times[k + i] >= Least
      BY <1>3, <1>4, <3>1 DEF Spread
    <3> QED
      BY <1>3, <3>2
  <2> QED
    BY <2>1 DEF Spread
<1>5. ASSUME Closed(times, quota, t) PROVE Closed(rest, quota, t + 1)
  <2>1. ASSUME NEW i \in 1..Len(rest), i <= Len(rest) - quota + 1
        PROVE  (t + 1) - rest[i] >= Least
    <3>1. k + i <= n - quota + 1
      BY <1>2, <2>1
    <3>2. t - times[k + i] >= Least /\ times[k + i] \in Int
      BY <1>2, <1>3, <1>5, <3>1 DEF Closed
    <3> QED
      BY <1>0, <1>3, <3>2
  <2> QED
    BY <2>1 DEF Closed
<1>6. ASSUME NEW window \in [start : Int, count : 1..quota], Opened(times, quota, window, t)
      PROVE  Opened(rest, quota, window, t + 1)
  <2> DEFINE first == n - window.count + 1
             head == Len(rest) - window.count + 1
  <2>1. head = first - k /\ head \in Int /\ first \in Int /\ head <= Len(rest)
    BY <1>2
  <2>2. first >= 1 => first \in 1..n /\ window.start <= times[first]
    BY <1>2, <1>6 DEF Opened, OpenedAt
  <2>3. ASSUME head < 1 PROVE window.start <= t + 1 - Window - MaxLag
    <3>1. CASE first < 1
      BY <1>0, <1>6, <3>1 DEF Opened, OpenedAt
    <3>2. CASE first >= 1
      <4>1. first \in 1..k /\ times[first] <= b
        BY <1>1, <2>1, <2>2, <2>3, <3>2 DEF SplitAt
      <4> QED
        BY <1>0, <1>2, <2>2, <3>2, <4>1
    <3> QED
      BY <2>1, <3>1, <3>2
  <2>4. ASSUME head >= 1
        PROVE  /\ window.start <= rest[head] /\ rest[head] <= window.start + MaxLag
               /\ \A i \in 1..Len(rest) : i <= head - quota => rest[head] - rest[i] >= Least
    <3>0. head \in 1..Len(rest) /\ k + head = first /\ first >= 1
      <4> HIDE DEF head, first
      <4>1. Len(rest) \in Int /\ k \in Nat
        BY <1>2
      <4> QED
        BY <2>1, <2>4, <4>1
    <3>1. head \in 1..Len(rest) /\ rest[head] = times[first] /\ first >= 1
      BY <1>3, <3>0
    <3>2. /\ window.start <= times[first] /\ times[first] <= window.start + MaxLag
          /\ \A i \in 1..n : i <= first - quota => times[first] - times[i] >= Least
      BY <1>6, <3>1 DEF Opened, OpenedAt
    <3>3. ASSUME NEW i \in 1..Len(rest), i <= head - quota
          PROVE  rest[head] - rest[i] >= Least
      <4>0. k + i <= first - quota
        BY <1>2, <2>1, <3>3
      <4>1. k + i \in 1..n /\ rest[i] = times[k + i] /\ k + i <= first - quota
        BY <1>3, <4>0
      <4> QED
        BY <3>1, <3>2, <4>1
    <3> QED
      BY <3>1, <3>2, <3>3
  <2> HIDE DEF head, first
  <2>5. head < 1 => window.start <= t + 1 - Window - MaxLag
    BY <2>3
  <2>6. head >= 1 =>
          /\ window.start <= rest[head] /\ rest[head] <= window.start + MaxLag
          /\ \A i \in 1..Len(rest) : i <= head - quota => rest[head] - rest[i] >= Least
    BY <2>4
  <2>7. OpenedAt(rest, head, quota, window, t + 1)
    BY <1>0, <1>2, <2>1, <2>5, <2>6 DEF OpenedAt
  <2> QED
    BY <2>7 DEF Opened, head
<1> QED
  BY <1>4, <1>5, <1>6 DEF rest, b

(* No worker has waited longer for the lock than the lag.                  *)
Prompt == \A w \in Workers : waiting[w] # NoRequest => now <= waiting[w].at + MaxLag

AdmissionRests ==
  /\ DOMAIN windows = {}
  /\ \A w \in Workers : waiting[w] = NoRequest
  /\ \A k \in PeerKeys : admitted[k] = <<>>

AdmissionInv ==
  /\ AdmissionTypeOK /\ DOMAIN admitted = PeerKeys
  /\ Prompt /\ \A k \in PeerKeys : LetIn(k)

(***************************************************************************)
(* The panel.                                                              *)
(***************************************************************************)

(* The attempts that count are the tokens that were judged wrong.          *)
Attempted ==
  /\ attempts \in Seq(Int) /\ Ascending(attempts)
  /\ judged["wrong token"] \in Seq(Int) /\ Ascending(judged["wrong token"])
  /\ \A i \in 1..Len(judged["wrong token"]) : judged["wrong token"][i] <= now
  /\ InStep(Unexpired, judged["wrong token"], Lockout)

Tested ==
  judged["test"] = IF lastTest # Never /\ now - lastTest < TestGap THEN <<lastTest>> ELSE <<>>

(* The sessions alive are the sign-ins that count.                         *)
SignedIn ==
  /\ IsFiniteSet(DOMAIN sessions) /\ IsFiniteSet(DOMAIN signedIn)
  /\ minted \subseteq Sessions /\ DOMAIN sessions \subseteq minted
  /\ DOMAIN signedIn = Live
  /\ \A s \in Live : signedIn[s] \in 0..now /\ sessions[s] = signedIn[s] + SessionLife

PanelRests ==
  /\ attempts = <<>> /\ DOMAIN sessions = {} /\ lastTest = Never
  /\ judged = [kind \in Limited |-> <<>>]
  /\ minted = {} /\ DOMAIN signedIn = {}
  /\ \A r \in Requests : request[r] = NoPost

PanelInv ==
  /\ PanelTypeOK /\ DOMAIN judged = Limited
  /\ Attempted /\ Tested /\ SignedIn /\ FormsActForTheirSession

GuardInv ==
  /\ now \in 0..LastTick
  /\ focus \in {"admission", "panel"}
  /\ focus = "panel" => AdmissionRests
  /\ focus = "admission" => PanelRests
  /\ AdmissionInv /\ PanelInv

-----------------------------------------------------------------------------
(* What a request finds: its key, its instant, its quota.                  *)
LEMMA RequestTypes ==
  ASSUME now \in Nat, AdmissionInv, NEW w \in Workers, waiting[w] # NoRequest
  PROVE  /\ waiting[w].key \in PeerKeys /\ waiting[w].at \in 0..now
         /\ now <= waiting[w].at + MaxLag
<1>1. waiting[w] \in [key : PeerKeys, at : 0..now]
  BY DEF AdmissionInv, AdmissionTypeOK
<1>2. now <= waiting[w].at + MaxLag
  BY DEF AdmissionInv, Prompt
<1> QED
  BY <1>1, <1>2

LEMMA QuotaTypes ==
  ASSUME NEW k \in PeerKeys
  PROVE  QuotaOf[k[2]] \in Nat \ {0}
BY AdmissionAssumption DEF Classes

(* A window that a request judged at an instant drops has closed.          *)
LEMMA KeptWindows ==
  ASSUME now \in Nat, AdmissionInv, NEW k \in PeerKeys, NEW at \in 0..now
  PROVE  /\ DOMAIN Retained(at) \subseteq DOMAIN windows
         /\ k \in DOMAIN Retained(at) =>
              /\ Retained(at)[k] = windows[k] /\ k \in DOMAIN windows
              /\ at - windows[k].start < Window
              /\ windows[k] \in [start : 0..now, count : 1..QuotaOf[k[2]]]
              /\ Opened(admitted[k], QuotaOf[k[2]], Retained(at)[k], now)
         /\ k \notin DOMAIN Retained(at) => Closed(admitted[k], QuotaOf[k[2]], now)
<1> DEFINE quota == QuotaOf[k[2]]
<1>1. quota \in Nat \ {0}
  BY QuotaTypes
<1>2. /\ DOMAIN Retained(at) = {x \in DOMAIN windows : at - windows[x].start < Window}
      /\ \A x \in DOMAIN Retained(at) : Retained(at)[x] = windows[x]
  BY DEF Retained, Restrict
<1>3. LetIn(k) /\ (k \in DOMAIN windows =>
                     windows[k] \in [start : 0..now, count : 1..quota])
  BY DEF AdmissionInv, AdmissionTypeOK
<1>4. ASSUME k \notin DOMAIN Retained(at) PROVE Closed(admitted[k], quota, now)
  <2>1. CASE k \notin DOMAIN windows
    BY <1>3, <2>1 DEF LetIn
  <2>2. CASE k \in DOMAIN windows
    <3>1. ~(at - windows[k].start < Window)
      BY <1>2, <1>4, <2>2
    <3>2. /\ windows[k] \in [start : Int, count : 1..quota]
          /\ now \in Int /\ now - windows[k].start >= Window
      BY <1>3, <2>2, <3>1, AdmissionAssumption
    <3>3. /\ admitted[k] \in Seq(Int) /\ Ascending(admitted[k])
          /\ Opened(admitted[k], quota, windows[k], now)
      BY <1>3, <2>2 DEF LetIn
    <3> HIDE DEF quota
    <3> QED
      BY <1>1, <3>2, <3>3, WindowCloses
  <2> QED
    BY <2>1, <2>2
<1>5. ASSUME k \in DOMAIN Retained(at)
      PROVE  Opened(admitted[k], quota, Retained(at)[k], now)
  BY <1>2, <1>3, <1>5 DEF LetIn
<1> QED
  BY <1>2, <1>3, <1>4, <1>5

(* A request that is let through is counted in a window of its key.        *)
LEMMA LetThroughStep ==
  ASSUME now \in Nat, AdmissionInv, NEW w \in Workers, LetThrough(w), NEW k \in PeerKeys
  PROVE  LetIn(k)'
<1> DEFINE key == waiting[w].key
           at == waiting[w].at
           quota == QuotaOf[key[2]]
           times == admitted[key]
           kept == Retained(at)
           window == IF key \in DOMAIN kept THEN kept[key] ELSE [start |-> at, count |-> 0]
           used == [window EXCEPT !.count = @ + 1]
<1>1. /\ windows' = With(kept, key, used) /\ now' = now
      /\ admitted' = [admitted EXCEPT ![key] = Append(@, now)]
      /\ waiting[w] # NoRequest /\ ~Spent(w)
  BY DEF LetThrough
<1>2. key \in PeerKeys /\ at \in 0..now /\ now <= at + MaxLag
  BY <1>1, RequestTypes
<1>3. DOMAIN admitted = PeerKeys /\ LetIn(key) /\ LetIn(k)
  BY <1>2 DEF AdmissionInv
<1>4. CASE k = key
  <2>1. /\ k \in DOMAIN windows' /\ windows'[k] = used /\ admitted'[k] = Append(times, now)
    BY <1>1, <1>2, <1>3, <1>4 DEF With
  <2>2. /\ times \in Seq(Int) /\ Ascending(times) /\ \A i \in 1..Len(times) : times[i] <= now
        /\ Spread(times, quota) /\ now \in Int
    BY <1>3 DEF LetIn
  <2>3. quota \in Nat \ {0}
    BY <1>2, QuotaTypes
  <2>4. /\ Spread(Append(times, now), quota)
        /\ Opened(Append(times, now), quota, used, now)
    <3>1. CASE key \in DOMAIN kept
      <4>1. /\ window = windows[key] /\ window \in [start : 0..now, count : 1..quota]
            /\ at - window.start < Window /\ Opened(times, quota, window, now)
        BY <1>2, <3>1, KeptWindows
      <4>2. window.count < quota
        BY <1>1, <2>3, <3>1, <4>1 DEF Spent
      <4>3. /\ window \in [start : Int, count : 1..quota - 1]
            /\ now - window.start < Window + MaxLag
        BY <1>2, <2>3, <4>1, <4>2, AdmissionAssumption
      <4> HIDE DEF window, quota, times
      <4>4. /\ Spread(Append(times, now), quota)
            /\ Opened(Append(times, now), quota, [window EXCEPT !.count = @ + 1], now)
        BY <2>2, <2>3, <4>1, <4>3, WindowIsUsed
      <4> QED
        BY <4>4
    <3>2. CASE key \notin DOMAIN kept
      <4>1. Closed(times, quota, now)
        BY <1>2, <3>2, KeptWindows
      <4>2. used = [start |-> at, count |-> 1] /\ at \in Int
        BY <1>2, <3>2
      <4> HIDE DEF used, quota, times, at
      <4>3. /\ Spread(Append(times, now), quota)
            /\ Opened(Append(times, now), quota, [start |-> at, count |-> 1], now)
        BY <1>2, <2>2, <2>3, <4>1, <4>2, WindowOpens
      <4> QED
        BY <4>2, <4>3
    <3> QED
      BY <3>1, <3>2
  <2>5. /\ Append(times, now) \in Seq(Int) /\ Ascending(Append(times, now))
        /\ \A i \in 1..Len(Append(times, now)) : Append(times, now)[i] <= now
    <3> HIDE DEF times
    <3>1. Append(times, now) \in Seq(Int) /\ Ascending(Append(times, now))
      BY <2>2, AppendAscends
    <3>2. ASSUME NEW i \in 1..Len(Append(times, now)) PROVE Append(times, now)[i] <= now
      BY <2>2
    <3> QED
      BY <3>1, <3>2
  <2> HIDE DEF used, times, at, kept, window
  <2> QED
    BY <1>1, <1>4, <2>1, <2>4, <2>5 DEF LetIn
<1>5. CASE k # key
  <2>1. /\ admitted'[k] = admitted[k] /\ (k \in DOMAIN windows' <=> k \in DOMAIN kept)
        /\ k \in DOMAIN kept => windows'[k] = kept[k]
    BY <1>1, <1>2, <1>3, <1>5 DEF With
  <2>2. /\ k \in DOMAIN kept => Opened(admitted[k], QuotaOf[k[2]], kept[k], now)
        /\ k \notin DOMAIN kept => Closed(admitted[k], QuotaOf[k[2]], now)
    BY <1>2, KeptWindows
  <2> HIDE DEF kept
  <2> QED
    BY <1>1, <1>3, <2>1, <2>2 DEF LetIn
<1> QED
  BY <1>4, <1>5

(* A request that is turned away leaves the table without what it dropped. *)
LEMMA TurnawayStep ==
  ASSUME now \in Nat, AdmissionInv, NEW w \in Workers, Turnaway(w), NEW k \in PeerKeys
  PROVE  LetIn(k)'
<1> DEFINE kept == Retained(waiting[w].at)
<1>1. windows' = kept /\ now' = now /\ admitted' = admitted /\ waiting[w] # NoRequest
  BY DEF Turnaway
<1>2. /\ k \in DOMAIN kept => Opened(admitted[k], QuotaOf[k[2]], kept[k], now)
      /\ k \notin DOMAIN kept => Closed(admitted[k], QuotaOf[k[2]], now)
  BY <1>1, RequestTypes, KeptWindows
<1>3. LetIn(k)
  BY DEF AdmissionInv
<1> HIDE DEF kept
<1> QED
  BY <1>1, <1>2, <1>3 DEF LetIn

LEMMA AdmissionTickStep ==
  ASSUME now \in Nat, AdmissionInv, AdmissionTick, NEW k \in PeerKeys
  PROVE  LetIn(k)'
<1> DEFINE quota == QuotaOf[k[2]]
           times == admitted[k]
           rest == Later(times, now + 1 - Window - MaxLag)
<1>1. now' = now + 1 /\ windows' = windows /\ admitted'[k] = rest
  <2>1. now' = now + 1 /\ windows' = windows
    BY DEF AdmissionTick, ClockTick
  <2>2. admitted'[k] = Later(times, now' - Window - MaxLag)
    BY DEF AdmissionTick, Since
  <2>3. now' - Window - MaxLag = now + 1 - Window - MaxLag
    BY <2>1, AdmissionAssumption
  <2> QED
    BY <2>1, <2>2, <2>3
<1>2. LetIn(k) /\ quota \in Nat \ {0}
  BY QuotaTypes DEF AdmissionInv
<1>3. /\ times \in Seq(Int) /\ Ascending(times) /\ now \in Int
      /\ \A i \in 1..Len(times) : times[i] <= now /\ times[i] \in Int
      /\ Spread(times, quota)
      /\ k \notin DOMAIN windows => Closed(times, quota, now)
      /\ k \in DOMAIN windows => Opened(times, quota, windows[k], now)
  BY <1>2 DEF LetIn
<1>4. k \in DOMAIN windows => windows[k] \in [start : Int, count : 1..quota]
  <2>1. k \in DOMAIN windows => windows[k] \in [start : 0..now, count : 1..quota]
    BY DEF AdmissionInv, AdmissionTypeOK
  <2> QED
    BY <2>1
<1> HIDE DEF quota, times
<1>5. /\ Spread(times, quota) => Spread(rest, quota)
      /\ Closed(times, quota, now) => Closed(rest, quota, now + 1)
      /\ \A window \in [start : Int, count : 1..quota] :
           Opened(times, quota, window, now) => Opened(rest, quota, window, now + 1)
  BY <1>2, <1>3, WindowsAge
<1>6. now + 1 - Window - MaxLag \in Int
  BY <1>3, AdmissionAssumption
<1>7. /\ rest \in Seq(Int) /\ Ascending(rest)
      /\ \A i \in 1..Len(rest) : \E j \in 1..Len(times) : rest[i] = times[j]
  BY <1>3, <1>6, LaterAscends
<1> HIDE DEF rest
<1>8. ASSUME NEW i \in 1..Len(rest) PROVE rest[i] <= now + 1
  <2>1. PICK j \in 1..Len(times) : rest[i] = times[j]
    BY <1>7
  <2>2. times[j] <= now /\ times[j] \in Int
    BY <1>3
  <2> QED
    BY <1>3, <2>1, <2>2
<1> QED
  BY <1>1, <1>3, <1>4, <1>5, <1>7, <1>8 DEF LetIn, quota

LEMMA AdmissionStep ==
  ASSUME now \in Nat, AdmissionInv, AdmissionNext \/ AdmissionTick
  PROVE  DOMAIN admitted' = PeerKeys /\ \A k \in PeerKeys : LetIn(k)'
<1>1. DOMAIN admitted = PeerKeys
  BY DEF AdmissionInv
<1>2. ASSUME NEW w \in Workers, NEW key \in PeerKeys, Arrive(w, key)
      PROVE  DOMAIN admitted' = PeerKeys /\ \A k \in PeerKeys : LetIn(k)'
  BY <1>1, <1>2 DEF Arrive, AdmissionInv, LetIn
<1>3. ASSUME NEW w \in Workers, Turnaway(w)
      PROVE  DOMAIN admitted' = PeerKeys /\ \A k \in PeerKeys : LetIn(k)'
  <2>1. admitted' = admitted
    BY <1>3 DEF Turnaway
  <2> QED
    BY <1>1, <1>3, <2>1, TurnawayStep
<1>4. ASSUME NEW w \in Workers, LetThrough(w)
      PROVE  DOMAIN admitted' = PeerKeys /\ \A k \in PeerKeys : LetIn(k)'
  <2>1. DOMAIN admitted' = DOMAIN admitted
    BY <1>4 DEF LetThrough
  <2> QED
    BY <1>1, <1>4, <2>1, LetThroughStep
<1>5. CASE AdmissionTick
  <2>1. DOMAIN admitted' = PeerKeys
    BY <1>5 DEF AdmissionTick
  <2> QED
    BY <1>5, <2>1, AdmissionTickStep
<1> QED
  BY <1>2, <1>3, <1>4, <1>5 DEF AdmissionNext

(* Requests stay what they are, and prompt.                                *)
LEMMA RequestsStep ==
  ASSUME now \in Nat, AdmissionInv, AdmissionNext \/ AdmissionTick
  PROVE  /\ waiting' \in [Workers -> [key : PeerKeys, at : 0..now'] \cup {NoRequest}]
         /\ Prompt'
<1>1. waiting \in [Workers -> [key : PeerKeys, at : 0..now] \cup {NoRequest}]
  BY DEF AdmissionInv, AdmissionTypeOK
<1>2. \A w \in Workers : waiting[w] # NoRequest => now <= waiting[w].at + MaxLag
  BY DEF AdmissionInv, Prompt
<1>3. ASSUME NEW w \in Workers, NEW k \in PeerKeys, Arrive(w, k)
      PROVE  /\ waiting' \in [Workers -> [key : PeerKeys, at : 0..now'] \cup {NoRequest}]
             /\ Prompt'
  <2>1. waiting' = [waiting EXCEPT ![w] = [key |-> k, at |-> now]] /\ now' = now
    BY <1>3 DEF Arrive
  <2>2. [key |-> k, at |-> now] \in [key : PeerKeys, at : 0..now]
    OBVIOUS
  <2>3. now <= [key |-> k, at |-> now].at + MaxLag
    BY AdmissionAssumption
  <2> QED
    BY <1>1, <1>2, <2>1, <2>2, <2>3 DEF Prompt
<1>4. ASSUME NEW w \in Workers, Turnaway(w) \/ LetThrough(w)
      PROVE  /\ waiting' \in [Workers -> [key : PeerKeys, at : 0..now'] \cup {NoRequest}]
             /\ Prompt'
  <2>1. waiting' = [waiting EXCEPT ![w] = NoRequest] /\ now' = now
    BY <1>4 DEF Turnaway, LetThrough, Done
  <2> QED
    BY <1>1, <1>2, <2>1 DEF Prompt
<1>5. CASE AdmissionTick
  <2>1. /\ waiting' = waiting /\ now' = now + 1
        /\ \A w \in Workers : waiting[w] # NoRequest => now < waiting[w].at + MaxLag
    BY <1>5 DEF AdmissionTick, ClockTick
  <2>2. ASSUME NEW w \in Workers, waiting[w] # NoRequest
        PROVE  /\ waiting[w] \in [key : PeerKeys, at : 0..now + 1]
               /\ now + 1 <= waiting[w].at + MaxLag
    <3>1. waiting[w] \in [key : PeerKeys, at : 0..now] /\ now < waiting[w].at + MaxLag
      BY <1>1, <2>1, <2>2
    <3> QED
      BY <3>1, AdmissionAssumption
  <2>3. waiting' \in [Workers -> [key : PeerKeys, at : 0..now'] \cup {NoRequest}]
    BY <1>1, <2>1, <2>2
  <2>4. Prompt'
    BY <2>1, <2>2 DEF Prompt
  <2> QED
    BY <2>3, <2>4
<1> QED
  BY <1>3, <1>4, <1>5 DEF AdmissionNext

(* The table stays within its bounds.                                      *)
TableTypes ==
  /\ DOMAIN windows \subseteq PeerKeys
  /\ Cardinality(DOMAIN windows) <= TableSize
  /\ \A k \in DOMAIN windows : windows[k] \in [start : 0..now, count : 1..QuotaOf[k[2]]]

LEMMA TableStep ==
  ASSUME now \in Nat, AdmissionInv, AdmissionNext \/ AdmissionTick
  PROVE  TableTypes'
<1>1. TableTypes
  BY DEF AdmissionInv, AdmissionTypeOK, TableTypes
<1>2. ASSUME NEW at \in 0..now
      PROVE  /\ DOMAIN Retained(at) \subseteq PeerKeys /\ IsFiniteSet(DOMAIN Retained(at))
             /\ Cardinality(DOMAIN Retained(at)) <= TableSize
             /\ \A k \in DOMAIN Retained(at) :
                  Retained(at)[k] \in [start : 0..now, count : 1..QuotaOf[k[2]]]
  <2>1. /\ DOMAIN Retained(at) \subseteq DOMAIN windows
        /\ \A k \in DOMAIN Retained(at) : Retained(at)[k] = windows[k]
    BY DEF Retained, Restrict
  <2>2. IsFiniteSet(DOMAIN windows)
    BY <1>1, AdmissionAssumption, FS_Subset DEF TableTypes
  <2>3. /\ IsFiniteSet(DOMAIN Retained(at))
        /\ Cardinality(DOMAIN Retained(at)) <= Cardinality(DOMAIN windows)
    BY <2>1, <2>2, FS_Subset
  <2>4. /\ Cardinality(DOMAIN Retained(at)) \in Nat /\ Cardinality(DOMAIN windows) \in Nat
    BY <2>2, <2>3, FS_CardinalityType
  <2>5. Cardinality(DOMAIN Retained(at)) <= TableSize
    BY <1>1, <2>3, <2>4, AdmissionAssumption DEF TableTypes
  <2> QED
    BY <1>1, <2>1, <2>3, <2>5 DEF TableTypes
<1>3. ASSUME NEW w \in Workers, NEW k \in PeerKeys, Arrive(w, k)
      PROVE  TableTypes'
  BY <1>1, <1>3 DEF Arrive, TableTypes
<1>4. ASSUME NEW w \in Workers, Turnaway(w) PROVE TableTypes'
  <2>1. windows' = Retained(waiting[w].at) /\ now' = now /\ waiting[w].at \in 0..now
    BY <1>4, RequestTypes DEF Turnaway
  <2> QED
    BY <1>2, <2>1 DEF TableTypes
<1>5. ASSUME NEW w \in Workers, LetThrough(w) PROVE TableTypes'
  <2> DEFINE key == waiting[w].key
             at == waiting[w].at
             kept == Retained(at)
             window == IF key \in DOMAIN kept THEN kept[key] ELSE [start |-> at, count |-> 0]
             used == [window EXCEPT !.count = @ + 1]
  <2>1. /\ windows' = With(kept, key, used) /\ now' = now
        /\ waiting[w] # NoRequest /\ ~Spent(w) /\ ~NoPlace(w)
    BY <1>5 DEF LetThrough
  <2>2. key \in PeerKeys /\ at \in 0..now /\ QuotaOf[key[2]] \in Nat \ {0}
    BY <2>1, RequestTypes, QuotaTypes
  <2>3. /\ DOMAIN kept \subseteq PeerKeys /\ IsFiniteSet(DOMAIN kept)
        /\ Cardinality(DOMAIN kept) <= TableSize
        /\ \A k \in DOMAIN kept : kept[k] \in [start : 0..now, count : 1..QuotaOf[k[2]]]
    BY <1>2, <2>2
  <2>4. used \in [start : 0..now, count : 1..QuotaOf[key[2]]]
    <3>1. key \in DOMAIN kept => kept[key].count < QuotaOf[key[2]]
      <4>1. key \in DOMAIN kept => ~(kept[key].count >= QuotaOf[key[2]])
        BY <2>1 DEF Spent
      <4> QED
        BY <2>2, <2>3, <4>1
    <3>2. key \in DOMAIN kept => kept[key] \in [start : 0..now, count : 1..QuotaOf[key[2]]]
      BY <2>3
    <3> HIDE DEF kept, key, at
    <3> QED
      BY <2>2, <3>1, <3>2
  <2>5. /\ DOMAIN windows' = DOMAIN kept \cup {key}
        /\ \A k \in DOMAIN windows' : windows'[k] = IF k = key THEN used ELSE kept[k]
    BY <2>1 DEF With
  <2>6. Cardinality(DOMAIN windows') <= TableSize
    <3>1. key \notin DOMAIN kept => ~(Cardinality(DOMAIN kept) >= TableSize)
      BY <2>1 DEF NoPlace
    <3>2. Cardinality(DOMAIN kept) \in Nat
      BY <2>3, FS_CardinalityType
    <3>3. Cardinality(DOMAIN kept \cup {key}) =
            IF key \in DOMAIN kept THEN Cardinality(DOMAIN kept)
            ELSE Cardinality(DOMAIN kept) + 1
      BY <2>3, FS_AddElement
    <3> QED
      BY <2>3, <2>5, <3>1, <3>2, <3>3, AdmissionAssumption
  <2> HIDE DEF used, kept, window
  <2> QED
    BY <2>1, <2>2, <2>3, <2>4, <2>5, <2>6 DEF TableTypes
<1>6. CASE AdmissionTick
  <2>1. windows' = windows /\ now' = now + 1
    BY <1>6 DEF AdmissionTick, ClockTick
  <2>2. ASSUME NEW k \in DOMAIN windows
        PROVE  windows[k] \in [start : 0..now + 1, count : 1..QuotaOf[k[2]]]
    <3>1. windows[k] \in [start : 0..now, count : 1..QuotaOf[k[2]]]
      BY <1>1 DEF TableTypes
    <3> QED
      BY <3>1
  <2> QED
    BY <1>1, <2>1, <2>2 DEF TableTypes
<1> QED
  BY <1>3, <1>4, <1>5, <1>6 DEF AdmissionNext

LEMMA AdmissionInvStep ==
  ASSUME now \in Nat, AdmissionInv, AdmissionNext \/ AdmissionTick
  PROVE  AdmissionInv'
BY AdmissionStep, RequestsStep, TableStep DEF AdmissionInv, AdmissionTypeOK, TableTypes

-----------------------------------------------------------------------------
(* A list of one instant.                                                  *)
LEMMA LaterOne ==
  ASSUME NEW x \in Int, NEW t \in Int
  PROVE  Later(<<x>>, t) = IF x > t THEN <<x>> ELSE <<>>
<1>1. Ascending(<<x>>) /\ <<x>> \in Seq(Int) /\ Len(<<x>>) = 1 /\ <<x>>[1] = x
  BY DEF Ascending
<1>2. CASE x > t
  <2>1. Ascending(<<>>) /\ <<>> \in Seq(Int) /\ Append(<<>>, x) = <<x>>
    BY DEF Ascending
  <2>2. Later(Append(<<>>, x), t) = Append(Later(<<>>, t), x)
    BY <1>2, <2>1, LaterAppend
  <2>3. Later(<<>>, t) = <<>>
    BY LaterNothing
  <2> QED
    BY <1>2, <2>1, <2>2, <2>3
<1>3. CASE ~(x > t)
  <2>1. /\ Later(<<x>>, t) \in Seq(Int) /\ Len(Later(<<x>>, t)) <= 1
        /\ \A i \in 1..Len(Later(<<x>>, t)) :
             /\ Later(<<x>>, t)[i] > t
             /\ \E j \in 1..1 : Later(<<x>>, t)[i] = <<x>>[j]
    BY <1>1, LaterAscends
  <2>2. ASSUME Len(Later(<<x>>, t)) = 1 PROVE FALSE
    <3>1. PICK j \in 1..1 : Later(<<x>>, t)[1] = <<x>>[j] /\ Later(<<x>>, t)[1] > t
      BY <2>1, <2>2
    <3>2. j = 1
      OBVIOUS
    <3> QED
      BY <1>1, <1>3, <3>1, <3>2
  <2>3. Later(<<x>>, t) \in Seq(Int) /\ Len(Later(<<x>>, t)) = 0
    BY <2>1, <2>2
  <2>4. Later(<<x>>, t) = <<>>
    BY <2>3
  <2> QED
    BY <1>3, <2>4
<1> QED
  BY <1>2, <1>3

(* The failed attempts in the list, and the expiries they can have.        *)
AttemptTypes ==
  Len(attempts) <= MaxAttempts /\ \A i \in DOMAIN attempts : attempts[i] \in 0..now + Lockout

(* What is left of the list when an attempt is read.                       *)
LEMMA UnexpiredRest ==
  ASSUME now \in Nat, Attempted, AttemptTypes
  PROVE  /\ Unexpired \in Seq(Int) /\ Ascending(Unexpired)
         /\ Len(Unexpired) \in Nat /\ Len(Unexpired) <= Len(attempts)
         /\ \A i \in DOMAIN Unexpired : Unexpired[i] \in 0..now + Lockout
         /\ Later(Unexpired, now) = Unexpired
<1>0. attempts \in Seq(Int) /\ Ascending(attempts)
  BY DEF Attempted
<1>1. attempts \in Seq(Int) /\ Ascending(attempts) /\ now \in Int
  BY <1>0
<1>2. /\ Unexpired \in Seq(Int) /\ Ascending(Unexpired)
      /\ Len(Unexpired) <= Len(attempts)
      /\ \A i \in 1..Len(Unexpired) : \E j \in 1..Len(attempts) : Unexpired[i] = attempts[j]
  BY <1>1, LaterAscends DEF Unexpired
<1>3. Later(Unexpired, now) = Unexpired
  BY <1>1, LaterAgain DEF Unexpired
<1>4. DOMAIN Unexpired = 1..Len(Unexpired) /\ DOMAIN attempts = 1..Len(attempts)
  BY <1>1, <1>2
<1>5. \A i \in DOMAIN Unexpired : Unexpired[i] \in 0..now + Lockout
  BY <1>2, <1>4 DEF AttemptTypes
<1> QED
  BY <1>2, <1>3, <1>5

(* An attempt that is read and not counted.                                *)
LEMMA AttemptsRead ==
  ASSUME now \in Nat, Attempted, AttemptTypes, now' = now, attempts' = Unexpired,
         judged'["wrong token"] = judged["wrong token"]
  PROVE  Attempted' /\ AttemptTypes'
<1>1. Unexpired' = Later(Unexpired, now)
  BY DEF Unexpired
<1>2. Unexpired' = Unexpired
  BY <1>1, UnexpiredRest
<1>3. AttemptTypes'
  <2>1. Len(Unexpired) \in Nat /\ Len(Unexpired) <= Len(attempts)
    BY UnexpiredRest
  <2>2. \A i \in DOMAIN Unexpired : Unexpired[i] \in 0..now + Lockout
    BY UnexpiredRest
  <2>3. attempts \in Seq(Int)
    BY DEF Attempted
  <2>4. Len(attempts) \in Nat
    BY <2>3, LenProperties
  <2>5. Len(attempts) <= MaxAttempts
    BY DEF AttemptTypes
  <2>6. MaxAttempts \in Nat
    BY PanelAssumption
  <2>7. Len(Unexpired) <= MaxAttempts
    BY ONLY <2>1, <2>4, <2>5, <2>6
  <2> QED
    BY <2>2, <2>7 DEF AttemptTypes
<1>4. Unexpired \in Seq(Int) /\ Ascending(Unexpired)
  BY UnexpiredRest
<1> QED
  BY <1>2, <1>3, <1>4 DEF Attempted

(* A wrong token that is judged.                                           *)
LEMMA AttemptsCounted ==
  ASSUME now \in Nat, Attempted, AttemptTypes, DOMAIN judged = Limited, WrongToken
  PROVE  Attempted' /\ AttemptTypes'
<1> DEFINE wrong == judged["wrong token"]
           expiry == now + Lockout
<1>1. /\ now' = now /\ attempts' = Append(Unexpired, expiry)
      /\ judged'["wrong token"] = Append(wrong, now)
      /\ ~(Len(Unexpired) >= MaxAttempts)
  BY DEF WrongToken, Judge, LockedOut, Limited
<1>2. expiry \in Int /\ now \in Int /\ expiry > now /\ Lockout \in Nat
  BY PanelAssumption
<1>3. /\ Unexpired \in Seq(Int) /\ Ascending(Unexpired) /\ Later(Unexpired, now) = Unexpired
      /\ \A i \in DOMAIN Unexpired : Unexpired[i] \in 0..expiry
      /\ Len(Unexpired) \in Nat
  BY UnexpiredRest
<1>4. /\ wrong \in Seq(Int) /\ Ascending(wrong) /\ \A i \in 1..Len(wrong) : wrong[i] <= now
      /\ InStep(Unexpired, wrong, Lockout)
  BY DEF Attempted
<1>5. Unexpired' = Append(Unexpired, expiry)
  <2>1. Unexpired' = Later(Append(Unexpired, expiry), now)
    BY <1>1 DEF Unexpired
  <2>2. Later(Append(Unexpired, expiry), now) = Append(Later(Unexpired, now), expiry)
    <3> HIDE DEF expiry
    <3> QED
      BY <1>2, <1>3, LaterAppend
  <2> QED
    BY <1>3, <2>1, <2>2
<1> HIDE DEF wrong, expiry
<1>6. Append(Unexpired, expiry) \in Seq(Int) /\ Ascending(Append(Unexpired, expiry))
  <2>1. \A i \in 1..Len(Unexpired) : Unexpired[i] <= expiry
    BY <1>2, <1>3
  <2> QED
    BY <1>2, <1>3, <2>1, AppendAscends
<1>7. /\ Append(wrong, now) \in Seq(Int) /\ Ascending(Append(wrong, now))
      /\ \A i \in 1..Len(Append(wrong, now)) : Append(wrong, now)[i] <= now
  <2>1. Append(wrong, now) \in Seq(Int) /\ Ascending(Append(wrong, now))
    BY <1>2, <1>4, AppendAscends
  <2>2. ASSUME NEW i \in 1..Len(Append(wrong, now)) PROVE Append(wrong, now)[i] <= now
    BY <1>2, <1>4
  <2> QED
    BY <2>1, <2>2
<1>8. InStep(Append(Unexpired, expiry), Append(wrong, now), Lockout)
  <2>1. /\ Len(Unexpired) = Len(wrong) /\ Len(wrong) \in Nat
        /\ \A i \in 1..Len(wrong) : Unexpired[i] = wrong[i] + Lockout
    BY <1>3, <1>4 DEF InStep
  <2>2. ASSUME NEW i \in 1..Len(wrong) + 1
        PROVE  Append(Unexpired, expiry)[i] = Append(wrong, now)[i] + Lockout
    <3>1. CASE i \in 1..Len(wrong)
      BY <1>3, <1>4, <2>1, <3>1
    <3>2. CASE i = Len(wrong) + 1
      BY <1>3, <1>4, <2>1, <3>2 DEF expiry
    <3> QED
      BY <2>1, <3>1, <3>2
  <2> QED
    BY <1>3, <1>4, <2>1, <2>2 DEF InStep
<1>9. AttemptTypes'
  <2>1. Len(Append(Unexpired, expiry)) <= MaxAttempts
    <3>1. Len(Append(Unexpired, expiry)) = Len(Unexpired) + 1
      BY <1>3
    <3>2. ~(Len(Unexpired) >= MaxAttempts) /\ Len(Unexpired) \in Nat
      BY <1>1, <1>3
    <3> QED
      BY <3>1, <3>2, PanelAssumption
  <2>2. ASSUME NEW i \in DOMAIN Append(Unexpired, expiry)
        PROVE  Append(Unexpired, expiry)[i] \in 0..expiry
    <3>1. i \in DOMAIN Unexpired \/ i = Len(Unexpired) + 1
      BY <1>3
    <3>2. i \in DOMAIN Unexpired => Append(Unexpired, expiry)[i] = Unexpired[i]
      BY <1>3
    <3>3. i = Len(Unexpired) + 1 => Append(Unexpired, expiry)[i] = expiry
      BY <1>3
    <3>4. expiry \in 0..expiry
      BY <1>2
    <3> QED
      BY <1>3, <3>1, <3>2, <3>3, <3>4
  <2> QED
    BY <1>1, <2>1, <2>2 DEF AttemptTypes, expiry
<1> QED
  BY <1>1, <1>5, <1>6, <1>7, <1>8, <1>9 DEF Attempted, wrong

LEMMA AttemptsExpire ==
  ASSUME now \in Nat, Attempted, AttemptTypes, PanelTick
  PROVE  Attempted' /\ AttemptTypes'
<1> DEFINE wrong == judged["wrong token"]
           rest == Later(wrong, (now + 1) - Lockout)
<1>1. now' = now + 1 /\ attempts' = attempts
  BY DEF PanelTick, ClockTick
<1>2. judged'["wrong token"] = rest
  <2>1. judged'["wrong token"] = Later(wrong, now' - Lockout)
    BY DEF PanelTick, Limited, SpanOf
  <2>2. now' - Lockout = (now + 1) - Lockout
    BY <1>1, PanelAssumption
  <2> QED
    BY <2>1, <2>2
<1>3. /\ attempts \in Seq(Int) /\ Ascending(attempts)
      /\ wrong \in Seq(Int) /\ Ascending(wrong) /\ \A i \in 1..Len(wrong) : wrong[i] <= now
      /\ InStep(Unexpired, wrong, Lockout)
  BY DEF Attempted
<1>4. /\ now \in Int /\ now + 1 \in Int /\ now <= now + 1 /\ Lockout \in Int
      /\ (now + 1) - Lockout \in Int
  BY PanelAssumption
<1>5. Unexpired' = Later(Unexpired, now + 1)
  <2>1. Unexpired' = Later(attempts, now + 1)
    BY <1>1 DEF Unexpired
  <2>2. Later(Later(attempts, now), now + 1) = Later(attempts, now + 1)
    BY <1>3, <1>4, LaterAgain
  <2> QED
    BY <2>1, <2>2 DEF Unexpired
<1> HIDE DEF wrong
<1>6. InStep(Later(Unexpired, now + 1), rest, Lockout)
  BY <1>3, <1>4, UnexpiredRest, LaterInStep
<1>7. /\ rest \in Seq(Int) /\ Ascending(rest)
      /\ \A i \in 1..Len(rest) : \E j \in 1..Len(wrong) : rest[i] = wrong[j]
  BY <1>3, <1>4, LaterAscends
<1> HIDE DEF rest
<1>8. ASSUME NEW i \in 1..Len(rest) PROVE rest[i] <= now + 1
  <2>1. PICK j \in 1..Len(wrong) : rest[i] = wrong[j]
    BY <1>7
  <2>2. wrong[j] <= now /\ wrong[j] \in Int
    BY <1>3
  <2> QED
    BY <1>4, <2>1, <2>2
<1>9. AttemptTypes'
  <2>1. ASSUME NEW i \in DOMAIN attempts PROVE attempts[i] \in 0..(now + 1) + Lockout
    <3>1. attempts[i] \in 0..now + Lockout
      BY DEF AttemptTypes
    <3> QED
      BY <1>4, <3>1
  <2> QED
    BY <1>1, <2>1 DEF AttemptTypes
<1> QED
  BY <1>1, <1>2, <1>3, <1>5, <1>6, <1>7, <1>8, <1>9 DEF Attempted

(* The sessions in the map, the last test, the posts: what values they     *)
(* have.                                                                   *)
SessionTypes ==
  /\ DOMAIN sessions \subseteq Sessions /\ Cardinality(DOMAIN sessions) <= MaxSessions
  /\ \A s \in DOMAIN sessions : sessions[s] \in 0..now + SessionLife

Posts ==
  [at : {"checked"}, job : Jobs, session : Sessions, entitled : BOOLEAN]
  \cup [at : {"idle", "refused", "limited", "done"}, entitled : BOOLEAN]

(* Tests.                                                                  *)
LEMMA TestStarts ==
  ASSUME now \in Nat, lastTest \in 0..now \cup {Never}, DOMAIN judged = Limited, Tested,
         NEW r \in Requests, StartTest(r)
  PROVE  Tested' /\ lastTest' \in 0..now' \cup {Never}
<1>1. /\ now' = now
      /\ IF lastTest # Never /\ now - lastTest < TestGap
         THEN UNCHANGED <<lastTest, judged>>
         ELSE lastTest' = now /\ judged' = [judged EXCEPT !["test"] = Append(@, now)]
  BY DEF StartTest, Judge
<1>2. CASE lastTest # Never /\ now - lastTest < TestGap
  BY <1>1, <1>2 DEF Tested
<1>3. CASE ~(lastTest # Never /\ now - lastTest < TestGap)
  <2>1. judged["test"] = <<>> /\ lastTest' = now
    BY <1>1, <1>3 DEF Tested
  <2>2. judged'["test"] = Append(judged["test"], now)
    BY <1>1, <1>3 DEF Limited
  <2>3. now # Never /\ now - now < TestGap
    BY PanelAssumption DEF Never
  <2>4. judged'["test"] = <<now>>
    BY <2>1, <2>2
  <2> QED
    BY <1>1, <2>1, <2>3, <2>4 DEF Tested
<1> QED
  BY <1>2, <1>3

LEMMA TestAges ==
  ASSUME now \in Nat, lastTest \in 0..now \cup {Never}, Tested, PanelTick
  PROVE  Tested' /\ lastTest' \in 0..now' \cup {Never}
<1>1. now' = now + 1 /\ lastTest' = lastTest
  BY DEF PanelTick, ClockTick
<1>2. judged'["test"] = Later(judged["test"], (now + 1) - TestGap)
  <2>1. judged'["test"] = Later(judged["test"], now' - TestGap)
    BY DEF PanelTick, Limited, SpanOf
  <2>2. now' - TestGap = (now + 1) - TestGap
    BY <1>1, PanelAssumption
  <2> QED
    BY <2>1, <2>2
<1>3. (now + 1) - TestGap \in Int /\ TestGap \in Int /\ lastTest \in Int /\ now \in Int
  BY PanelAssumption DEF Never
<1>4. CASE lastTest # Never /\ now - lastTest < TestGap
  <2>1. judged["test"] = <<lastTest>>
    BY <1>4 DEF Tested
  <2>2. judged'["test"] = IF lastTest > (now + 1) - TestGap THEN <<lastTest>> ELSE <<>>
    BY <1>2, <1>3, <2>1, LaterOne
  <2>3. lastTest > (now + 1) - TestGap <=> (now + 1) - lastTest < TestGap
    BY <1>3
  <2> QED
    BY <1>1, <1>4, <2>2, <2>3 DEF Tested
<1>5. CASE ~(lastTest # Never /\ now - lastTest < TestGap)
  <2>1. judged["test"] = <<>>
    BY <1>5 DEF Tested
  <2>2. judged'["test"] = <<>>
    BY <1>2, <1>3, <2>1, LaterNothing
  <2>3. ~(lastTest # Never /\ (now + 1) - lastTest < TestGap)
    BY <1>3, <1>5
  <2> QED
    BY <1>1, <2>2, <2>3 DEF Tested
<1>6. lastTest' \in 0..now' \cup {Never}
  BY <1>1
<1> QED
  BY <1>4, <1>5, <1>6

(* Expired sessions leave the map and no one is signed out by it.          *)
LEMMA SessionsPurged ==
  ASSUME now \in Nat, SignedIn, SessionTypes, now' = now,
         sessions' = Restrict(sessions, Live), UNCHANGED <<minted, signedIn>>
  PROVE  SignedIn' /\ SessionTypes'
<1>1. /\ DOMAIN sessions' = Live /\ Live \subseteq DOMAIN sessions
      /\ \A s \in Live : sessions'[s] = sessions[s] /\ sessions[s] > now
  BY DEF Restrict, Live
<1>2. Live' = Live
  BY <1>1 DEF Live
<1>3. IsFiniteSet(Live) /\ Cardinality(Live) <= MaxSessions
  <2>1. IsFiniteSet(DOMAIN sessions) /\ Cardinality(DOMAIN sessions) <= MaxSessions
    BY DEF SignedIn, SessionTypes
  <2>2. IsFiniteSet(Live) /\ Cardinality(Live) <= Cardinality(DOMAIN sessions)
    BY <1>1, <2>1, FS_Subset
  <2>3. Cardinality(Live) \in Nat /\ Cardinality(DOMAIN sessions) \in Nat
    BY <2>1, <2>2, FS_CardinalityType
  <2> QED
    BY <2>1, <2>2, <2>3, PanelAssumption
<1> QED
  BY <1>1, <1>2, <1>3 DEF SignedIn, SessionTypes

(* The right token.                                                        *)
LEMMA SessionsMinted ==
  ASSUME now \in Nat, SignedIn, SessionTypes, NEW s \in Sessions, SignIn(s)
  PROVE  SignedIn' /\ SessionTypes'
<1>1. now' = now
  BY DEF SignIn
<1>2. CASE Cardinality(Live) >= MaxSessions
  <2>1. sessions' = Restrict(sessions, Live) /\ UNCHANGED <<minted, signedIn>>
    BY <1>2 DEF SignIn
  <2> QED
    BY <1>1, <2>1, SessionsPurged
<1>3. CASE ~(Cardinality(Live) >= MaxSessions)
  <2>1. /\ sessions' = With(Restrict(sessions, Live), s, now + SessionLife)
        /\ signedIn' = With(signedIn, s, now) /\ minted' = minted \cup {s}
    BY <1>3 DEF SignIn
  <2>2. /\ DOMAIN sessions' = Live \cup {s} /\ Live \subseteq DOMAIN sessions
        /\ \A x \in Live \cup {s} :
             sessions'[x] = IF x = s THEN now + SessionLife ELSE sessions[x]
        /\ \A x \in Live : sessions[x] > now
    BY <2>1 DEF With, Restrict, Live
  <2>3. /\ DOMAIN signedIn = Live /\ minted \subseteq Sessions
        /\ DOMAIN sessions \subseteq minted
        /\ \A x \in Live : signedIn[x] \in 0..now /\ sessions[x] = signedIn[x] + SessionLife
    BY DEF SignedIn
  <2>4. /\ DOMAIN signedIn' = Live \cup {s}
        /\ \A x \in Live \cup {s} : signedIn'[x] = IF x = s THEN now ELSE signedIn[x]
    BY <2>1, <2>3 DEF With
  <2>5. Live' = Live \cup {s}
    <3>1. now + SessionLife > now
      BY PanelAssumption
    <3> QED
      BY <1>1, <2>2, <3>1 DEF Live
  <2>6. IsFiniteSet(Live) /\ Cardinality(Live) \in Nat
    <3>1. IsFiniteSet(DOMAIN sessions)
      BY DEF SignedIn
    <3>2. IsFiniteSet(Live)
      BY <2>2, <3>1, FS_Subset
    <3> QED
      BY <3>2, FS_CardinalityType
  <2>7. /\ IsFiniteSet(Live \cup {s})
        /\ Cardinality(Live \cup {s}) <= MaxSessions
    <3>1. /\ IsFiniteSet(Live \cup {s})
          /\ Cardinality(Live \cup {s}) =
               IF s \in Live THEN Cardinality(Live) ELSE Cardinality(Live) + 1
      BY <2>6, FS_AddElement
    <3> QED
      BY <1>3, <2>6, <3>1, PanelAssumption
  <2>8. SignedIn'
    <3>1. \A x \in Live \cup {s} :
            signedIn'[x] \in 0..now /\ sessions'[x] = signedIn'[x] + SessionLife
      BY <2>2, <2>3, <2>4
    <3> QED
      BY <1>1, <2>1, <2>2, <2>3, <2>4, <2>5, <2>7, <3>1 DEF SignedIn
  <2>9. SessionTypes'
    <3>1. \A x \in Live : sessions[x] \in 0..now + SessionLife /\ x \in Sessions
      BY <2>2 DEF SessionTypes
    <3>2. now + SessionLife \in 0..now + SessionLife
      BY PanelAssumption
    <3> QED
      BY <1>1, <2>2, <2>7, <3>1, <3>2 DEF SessionTypes
  <2> QED
    BY <2>8, <2>9
<1> QED
  BY <1>2, <1>3

LEMMA SessionsSignedOut ==
  ASSUME now \in Nat, SignedIn, SessionTypes, NEW r \in Requests, SignOut(r)
  PROVE  SignedIn' /\ SessionTypes'
<1> DEFINE gone == request[r].session
<1>1. /\ sessions' = Restrict(sessions, DOMAIN sessions \ {gone})
      /\ signedIn' = Restrict(signedIn, DOMAIN signedIn \ {gone})
      /\ now' = now /\ minted' = minted
  BY DEF SignOut
<1> HIDE DEF gone
<1>2. /\ DOMAIN sessions' = DOMAIN sessions \ {gone}
      /\ DOMAIN signedIn' = DOMAIN signedIn \ {gone}
      /\ \A s \in DOMAIN sessions' : sessions'[s] = sessions[s]
      /\ \A s \in DOMAIN signedIn' : signedIn'[s] = signedIn[s]
  BY <1>1 DEF Restrict
<1>3. Live' = Live \ {gone}
  BY <1>1, <1>2 DEF Live
<1>4. /\ IsFiniteSet(DOMAIN sessions) /\ Cardinality(DOMAIN sessions) <= MaxSessions
      /\ IsFiniteSet(DOMAIN signedIn)
  BY DEF SignedIn, SessionTypes
<1>5. /\ IsFiniteSet(DOMAIN sessions') /\ IsFiniteSet(DOMAIN signedIn')
      /\ Cardinality(DOMAIN sessions') <= Cardinality(DOMAIN sessions)
  BY <1>2, <1>4, FS_Subset
<1>6. Cardinality(DOMAIN sessions') <= MaxSessions
  <2>1. Cardinality(DOMAIN sessions') \in Nat /\ Cardinality(DOMAIN sessions) \in Nat
    BY <1>4, <1>5, FS_CardinalityType
  <2> QED
    BY <1>4, <1>5, <2>1, PanelAssumption
<1>7. SessionTypes'
  BY <1>1, <1>2, <1>6 DEF SessionTypes
<1>8. SignedIn'
  <2>1. /\ minted \subseteq Sessions /\ DOMAIN sessions \subseteq minted
        /\ DOMAIN signedIn = Live
        /\ \A s \in Live : signedIn[s] \in 0..now /\ sessions[s] = signedIn[s] + SessionLife
    BY DEF SignedIn
  <2>2. \A s \in Live \ {gone} :
          signedIn'[s] \in 0..now /\ sessions'[s] = signedIn'[s] + SessionLife
    BY <1>2, <2>1 DEF Live
  <2> QED
    BY <1>1, <1>2, <1>3, <1>5, <2>1, <2>2 DEF SignedIn
<1> QED
  BY <1>7, <1>8

LEMMA SessionsExpire ==
  ASSUME now \in Nat, SignedIn, SessionTypes, PanelTick
  PROVE  SignedIn' /\ SessionTypes'
<1>1. /\ now' = now + 1 /\ sessions' = sessions /\ minted' = minted
      /\ signedIn' = Restrict(signedIn,
                              {s \in DOMAIN signedIn : now' < signedIn[s] + SessionLife})
  BY DEF PanelTick, ClockTick
<1>2. /\ DOMAIN signedIn' = {s \in DOMAIN signedIn : now + 1 < signedIn[s] + SessionLife}
      /\ \A s \in DOMAIN signedIn' : signedIn'[s] = signedIn[s]
  BY <1>1 DEF Restrict
<1>3. /\ DOMAIN signedIn = Live /\ IsFiniteSet(Live)
      /\ \A s \in Live : signedIn[s] \in 0..now /\ sessions[s] = signedIn[s] + SessionLife
  BY DEF SignedIn
<1>4. \A s \in DOMAIN sessions : sessions[s] \in 0..now + SessionLife
  BY DEF SessionTypes
<1>5. Live' = {s \in Live : now + 1 < sessions[s]}
  BY <1>1, <1>4, PanelAssumption DEF Live
<1>6. DOMAIN signedIn' = Live'
  BY <1>2, <1>3, <1>5
<1>7. IsFiniteSet(DOMAIN signedIn')
  BY <1>3, <1>5, <1>6, FS_Subset
<1>8. ASSUME NEW s \in Live'
      PROVE  signedIn'[s] \in 0..now + 1 /\ sessions[s] = signedIn'[s] + SessionLife
  BY <1>2, <1>3, <1>5, <1>6
<1>9. \A s \in DOMAIN sessions : sessions[s] \in 0..(now + 1) + SessionLife
  BY <1>4, PanelAssumption
<1> QED
  BY <1>1, <1>6, <1>7, <1>8, <1>9 DEF SignedIn, SessionTypes

(* Posts.                                                                  *)
PostInv == request \in [Requests -> Posts] /\ FormsActForTheirSession

LEMMA PostMoves ==
  ASSUME PostInv, NEW r \in Requests, NEW post \in Posts,
         request' = [request EXCEPT ![r] = post],
         post.at \in {"checked", "done", "limited"} => post.entitled,
         post.at = "refused" => ~post.entitled
  PROVE  PostInv'
BY DEF PostInv, FormsActForTheirSession

(* A checked post that has had its effect, or came too soon for a test.    *)
LEMMA PostEnds ==
  ASSUME PostInv, NEW r \in Requests, request[r].at = "checked",
         NEW how \in {"done", "limited"}, End(r, how)
  PROVE  PostInv'
<1> DEFINE post == [at |-> how, entitled |-> request[r].entitled]
<1>1. request' = [request EXCEPT ![r] = post]
  BY DEF End, PostInv
<1>2. request[r] \in Posts /\ request[r].entitled
  BY DEF PostInv, FormsActForTheirSession
<1>3. request[r].entitled \in BOOLEAN
  BY <1>2 DEF Posts
<1>4. post \in [at : {"idle", "refused", "limited", "done"}, entitled : BOOLEAN]
  BY <1>3
<1>5. post \in Posts /\ post.entitled /\ post.at # "refused"
  BY <1>2, <1>4 DEF Posts
<1> HIDE DEF post
<1> QED
  BY <1>1, <1>5, PostMoves

LEMMA PostChecked ==
  ASSUME SignedIn, PostInv, NEW r \in Requests, NEW job \in Jobs, NEW s \in minted,
         NEW csrf \in minted, CheckCsrf(r, job, s, csrf)
  PROVE  PostInv'
<1> DEFINE passed == [at |-> "checked", job |-> job, session |-> s,
                      entitled |-> Entitled(s, csrf)]
           refused == [at |-> "refused", entitled |-> Entitled(s, csrf)]
           post == IF s \in Live /\ csrf = s THEN passed ELSE refused
<1>1. request' = [request EXCEPT ![r] = post]
  BY DEF CheckCsrf
<1>2. /\ Entitled(s, csrf) <=> s \in Live /\ csrf = s
      /\ Entitled(s, csrf) \in BOOLEAN /\ s \in Sessions
  BY DEF Entitled, SignedIn
<1>3. passed \in Posts /\ refused \in Posts
  BY <1>2 DEF Posts
<1>4. /\ post \in Posts
      /\ post.at \in {"checked", "done", "limited"} => post.entitled
      /\ post.at = "refused" => ~post.entitled
  BY <1>2, <1>3
<1> HIDE DEF post
<1> QED
  BY <1>1, <1>4, PostMoves

(* The panel's invariant in the parts its steps keep.                      *)
LEMMA PanelParts ==
  PanelInv <=>
    /\ DOMAIN judged = Limited /\ Attempted /\ AttemptTypes
    /\ Tested /\ lastTest \in 0..now \cup {Never}
    /\ SignedIn /\ SessionTypes /\ PostInv
BY DEF PanelInv, PanelTypeOK, AttemptTypes, SessionTypes, PostInv, Posts

(* What a part looks at.                                                   *)
LEMMA PartsRest ==
  /\ Attempted /\ AttemptTypes /\ UNCHANGED <<now, attempts>>
     /\ judged'["wrong token"] = judged["wrong token"] => Attempted' /\ AttemptTypes'
  /\ Tested /\ lastTest \in 0..now \cup {Never} /\ UNCHANGED <<now, lastTest>>
     /\ judged'["test"] = judged["test"] => Tested' /\ lastTest' \in 0..now' \cup {Never}
  /\ SignedIn /\ SessionTypes /\ UNCHANGED <<now, sessions, minted, signedIn>> =>
       SignedIn' /\ SessionTypes'
  /\ PostInv /\ UNCHANGED request => PostInv'
<1>1. ASSUME Attempted, AttemptTypes, UNCHANGED <<now, attempts>>,
             judged'["wrong token"] = judged["wrong token"]
      PROVE  Attempted' /\ AttemptTypes'
  BY <1>1 DEF Attempted, AttemptTypes, Unexpired
<1>2. ASSUME Tested, lastTest \in 0..now \cup {Never}, UNCHANGED <<now, lastTest>>,
             judged'["test"] = judged["test"]
      PROVE  Tested' /\ lastTest' \in 0..now' \cup {Never}
  BY <1>2 DEF Tested
<1>3. ASSUME SignedIn, SessionTypes, UNCHANGED <<now, sessions, minted, signedIn>>
      PROVE  SignedIn' /\ SessionTypes'
  BY <1>3 DEF SignedIn, SessionTypes, Live
<1>4. ASSUME PostInv, UNCHANGED request PROVE PostInv'
  BY <1>4 DEF PostInv, FormsActForTheirSession
<1> QED
  BY <1>1, <1>2, <1>3, <1>4

LEMMA PanelInvStep ==
  ASSUME now \in Nat, PanelInv, PanelNext \/ PanelTick
  PROVE  PanelInv'
<1>0. /\ DOMAIN judged = Limited /\ Attempted /\ AttemptTypes
      /\ Tested /\ lastTest \in 0..now \cup {Never}
      /\ SignedIn /\ SessionTypes /\ PostInv
  BY PanelParts
<1> DEFINE Kept == /\ DOMAIN judged' = Limited /\ Attempted' /\ AttemptTypes'
                   /\ Tested' /\ lastTest' \in 0..now' \cup {Never}
                   /\ SignedIn' /\ SessionTypes' /\ PostInv'
<1>1. ASSUME RefuseUnread PROVE Kept
  <2>1. /\ attempts' = Unexpired
        /\ UNCHANGED <<now, sessions, lastTest, request, judged, minted, signedIn>>
    BY <1>1 DEF RefuseUnread, history
  <2>2. Attempted' /\ AttemptTypes'
    BY <1>0, <2>1, AttemptsRead
  <2> QED
    BY <1>0, <2>1, <2>2, PartsRest
<1>2. ASSUME WrongToken PROVE Kept
  <2>1. /\ UNCHANGED <<now, sessions, lastTest, request, minted, signedIn>>
        /\ DOMAIN judged' = DOMAIN judged /\ judged'["test"] = judged["test"]
    BY <1>0, <1>2 DEF WrongToken, Judge, Limited
  <2>2. Attempted' /\ AttemptTypes'
    BY <1>0, <1>2, AttemptsCounted
  <2> QED
    BY <1>0, <2>1, <2>2, PartsRest
<1>3. ASSUME View PROVE Kept
  <2>1. /\ sessions' = Restrict(sessions, Live)
        /\ UNCHANGED <<now, attempts, lastTest, request, judged, minted, signedIn>>
    BY <1>3 DEF View, history
  <2>2. SignedIn' /\ SessionTypes'
    BY <1>0, <2>1, SessionsPurged
  <2> QED
    BY <1>0, <2>1, <2>2, PartsRest
<1>4. ASSUME NEW s \in Sessions, SignIn(s) PROVE Kept
  <2>1. attempts' = Unexpired /\ UNCHANGED <<now, lastTest, request, judged>>
    BY <1>4 DEF SignIn
  <2>2. Attempted' /\ AttemptTypes'
    BY <1>0, <2>1, AttemptsRead
  <2>3. SignedIn' /\ SessionTypes'
    BY <1>0, <1>4, SessionsMinted
  <2> QED
    BY <1>0, <2>1, <2>2, <2>3, PartsRest
<1>5. ASSUME NEW r \in Requests, NEW job \in Jobs, NEW s \in minted, NEW csrf \in minted,
             CheckCsrf(r, job, s, csrf)
      PROVE  Kept
  <2>1. /\ sessions' = Restrict(sessions, Live)
        /\ UNCHANGED <<now, attempts, lastTest, judged, minted, signedIn>>
    BY <1>5 DEF CheckCsrf, history
  <2>2. SignedIn' /\ SessionTypes'
    BY <1>0, <2>1, SessionsPurged
  <2>3. PostInv'
    BY <1>0, <1>5, PostChecked
  <2> QED
    BY <1>0, <2>1, <2>2, <2>3, PartsRest
<1>6. ASSUME NEW r \in Requests, SignOut(r) PROVE Kept
  <2>1. /\ UNCHANGED <<now, attempts, lastTest, judged>>
        /\ request[r].at = "checked" /\ End(r, "done")
    BY <1>6 DEF SignOut, Checked
  <2>2. SignedIn' /\ SessionTypes'
    BY <1>0, <1>6, SessionsSignedOut
  <2>3. PostInv'
    BY <1>0, <2>1, PostEnds
  <2> QED
    BY <1>0, <2>1, <2>2, <2>3, PartsRest
<1>7. ASSUME NEW r \in Requests, StartTest(r) PROVE Kept
  <2>1. /\ UNCHANGED <<now, attempts, sessions, minted, signedIn>>
        /\ request[r].at = "checked" /\ (End(r, "limited") \/ End(r, "done"))
        /\ DOMAIN judged' = DOMAIN judged
        /\ judged'["wrong token"] = judged["wrong token"]
    BY <1>0, <1>7 DEF StartTest, Checked, Judge, Limited
  <2>2. Tested' /\ lastTest' \in 0..now' \cup {Never}
    BY <1>0, <1>7, TestStarts
  <2>3. PostInv'
    BY <1>0, <2>1, PostEnds
  <2> QED
    BY <1>0, <2>1, <2>2, <2>3, PartsRest
<1>8. ASSUME NEW r \in Requests, CommitSave(r) PROVE Kept
  <2>1. /\ UNCHANGED <<now, attempts, sessions, lastTest, judged, minted, signedIn>>
        /\ request[r].at = "checked" /\ End(r, "done")
    BY <1>8 DEF CommitSave, Checked, history
  <2>2. PostInv'
    BY <1>0, <2>1, PostEnds
  <2> QED
    BY <1>0, <2>1, <2>2, PartsRest
<1>9. ASSUME PanelTick PROVE Kept
  <2>1. request' = request /\ DOMAIN judged' = Limited
    BY <1>9 DEF PanelTick
  <2>2. Attempted' /\ AttemptTypes'
    BY <1>0, <1>9, AttemptsExpire
  <2>3. Tested' /\ lastTest' \in 0..now' \cup {Never}
    BY <1>0, <1>9, TestAges
  <2>4. SignedIn' /\ SessionTypes'
    BY <1>0, <1>9, SessionsExpire
  <2> QED
    BY <1>0, <2>1, <2>2, <2>3, <2>4, PartsRest
<1>10. Kept
  BY <1>1, <1>2, <1>3, <1>4, <1>5, <1>6, <1>7, <1>8, <1>9 DEF PanelNext
<1> QED
  BY <1>10 DEF PanelInv, PanelTypeOK, AttemptTypes, SessionTypes, PostInv, Posts

-----------------------------------------------------------------------------
(* A guard at rest keeps its invariant whatever the time.                  *)
LEMMA AdmissionAtRest ==
  now \in Nat /\ AdmissionRests /\ waiting \in [Workers -> {NoRequest}]
  /\ DOMAIN admitted = PeerKeys => AdmissionInv
<1> SUFFICES ASSUME now \in Nat, AdmissionRests, waiting \in [Workers -> {NoRequest}],
                    DOMAIN admitted = PeerKeys
             PROVE  AdmissionInv
  OBVIOUS
<1>1. AdmissionTypeOK
  <2>1. DOMAIN windows = {} /\ Cardinality(DOMAIN windows) = 0
    BY FS_EmptySet DEF AdmissionRests
  <2> QED
    BY <2>1, AdmissionAssumption DEF AdmissionTypeOK
<1>2. Prompt
  BY DEF AdmissionRests, Prompt
<1>3. ASSUME NEW k \in PeerKeys PROVE LetIn(k)
  <2>1. admitted[k] = <<>> /\ k \notin DOMAIN windows
    BY DEF AdmissionRests
  <2>2. /\ <<>> \in Seq(Int) /\ Ascending(<<>>) /\ Len(<<>>) = 0
        /\ Spread(<<>>, QuotaOf[k[2]]) /\ Closed(<<>>, QuotaOf[k[2]], now)
    BY DEF Ascending, Spread, Closed
  <2> QED
    BY <2>1, <2>2 DEF LetIn
<1> QED
  BY <1>1, <1>2, <1>3 DEF AdmissionInv

LEMMA PanelAtRest ==
  now \in Nat /\ attempts = <<>> /\ lastTest = Never /\ DOMAIN judged = Limited
  /\ (\A kind \in Limited : judged[kind] = <<>>)
  /\ DOMAIN sessions = {} /\ DOMAIN signedIn = {} /\ minted \subseteq Sessions /\ PostInv
    => PanelInv
<1> SUFFICES ASSUME now \in Nat, attempts = <<>>, lastTest = Never,
                    DOMAIN judged = Limited, \A kind \in Limited : judged[kind] = <<>>,
                    DOMAIN sessions = {}, DOMAIN signedIn = {},
                    minted \subseteq Sessions, PostInv
             PROVE  PanelInv
  OBVIOUS
<1>1. judged["wrong token"] = <<>> /\ judged["test"] = <<>> /\ DOMAIN judged = Limited
  BY DEF Limited
<1>2. Unexpired = <<>>
  BY LaterNothing DEF Unexpired
<1>3. Attempted
  <2>1. <<>> \in Seq(Int) /\ Ascending(<<>>) /\ InStep(<<>>, <<>>, Lockout)
    BY DEF Ascending, InStep
  <2>2. 1..Len(judged["wrong token"]) = {}
    <3>1. Len(judged["wrong token"]) = 0
      BY <1>1, EmptySeq
    <3>2. 1..0 = {}
      BY ONLY SMT
    <3> QED
      BY <3>1, <3>2, Zenon
  <2> HIDE DEF Unexpired
  <2>3. /\ attempts \in Seq(Int) /\ Ascending(attempts)
        /\ judged["wrong token"] \in Seq(Int) /\ Ascending(judged["wrong token"])
        /\ InStep(Unexpired, judged["wrong token"], Lockout)
    BY <1>1, <1>2, <2>1
  <2> QED
    BY <2>2, <2>3 DEF Attempted
<1>4. AttemptTypes
  BY PanelAssumption DEF AttemptTypes
<1>5. Tested /\ lastTest \in 0..now \cup {Never}
  BY <1>1 DEF Tested
<1>6. SignedIn /\ SessionTypes
  BY FS_EmptySet, PanelAssumption DEF SignedIn, SessionTypes, Live
<1> QED
  BY <1>1, <1>3, <1>4, <1>5, <1>6, PanelParts

LEMMA GuardInitially ==
  Init => GuardInv
<1> SUFFICES ASSUME Init PROVE GuardInv
  OBVIOUS
<1>1. now = 0 /\ now \in Nat /\ now \in 0..LastTick /\ focus \in {"admission", "panel"}
  BY LastTickAssumption DEF Init, ClockInit
<1>2. AdmissionRests /\ AdmissionInv
  <2>1. /\ windows = <<>> /\ waiting = [w \in Workers |-> NoRequest]
        /\ admitted = [k \in PeerKeys |-> <<>>]
    BY DEF Init, AdmissionInit
  <2>2. AdmissionRests
    BY <2>1 DEF AdmissionRests
  <2> QED
    BY <1>1, <2>1, <2>2, AdmissionAtRest
<1>3. PanelRests /\ PanelInv
  <2>1. /\ attempts = <<>> /\ DOMAIN sessions = {} /\ lastTest = Never
        /\ request = [r \in Requests |-> NoPost]
        /\ judged = [kind \in Limited |-> <<>>]
        /\ minted = {} /\ DOMAIN signedIn = {}
    BY DEF Init, PanelInit
  <2>2. PostInv
    BY <2>1 DEF PostInv, Posts, NoPost, FormsActForTheirSession
  <2>3. PanelRests
    BY <2>1 DEF PanelRests
  <2> QED
    BY <1>1, <2>1, <2>2, <2>3, PanelAtRest
<1> QED
  BY <1>1, <1>2, <1>3 DEF GuardInv

LEMMA AdmissionFollowed ==
  ASSUME GuardInv, focus = "admission", AdmissionNext \/ AdmissionTick,
         UNCHANGED <<focus, panelVars>>
  PROVE  GuardInv'
<1>1. now \in 0..LastTick /\ now \in Nat /\ AdmissionInv /\ PanelInv /\ PanelRests
  BY LastTickAssumption DEF GuardInv
<1>2. now' \in 0..LastTick /\ now' \in Nat
  <2>1. now' = now \/ (now < LastTick /\ now' = now + 1)
    BY DEF AdmissionNext, AdmissionTick, ClockTick, Arrive, Turnaway, LetThrough
  <2> QED
    BY <1>1, <2>1, LastTickAssumption
<1>3. AdmissionInv'
  BY <1>1, AdmissionInvStep
<1>4. UNCHANGED <<attempts, sessions, lastTest, request, judged, minted, signedIn>>
  BY DEF panelVars
<1>5. PanelRests'
  BY <1>1, <1>4 DEF PanelRests
<1>6. PanelInv'
  <2>1. (now \in Nat /\ attempts = <<>> /\ lastTest = Never
         /\ DOMAIN judged = Limited /\ (\A kind \in Limited : judged[kind] = <<>>)
         /\ DOMAIN sessions = {} /\ DOMAIN signedIn = {}
         /\ minted \subseteq Sessions /\ PostInv => PanelInv)'
    BY PanelAtRest, PTL
  <2>2. DOMAIN judged = Limited /\ PostInv
    BY <1>1, PanelParts
  <2>3. PostInv'
    BY <1>4, <2>2 DEF PostInv, FormsActForTheirSession
  <2> QED
    BY <1>1, <1>2, <1>4, <2>1, <2>2, <2>3 DEF PanelRests
<1> QED
  BY <1>2, <1>3, <1>5, <1>6 DEF GuardInv

LEMMA PanelFollowed ==
  ASSUME GuardInv, focus = "panel", PanelNext \/ PanelTick, UNCHANGED <<focus, admissionVars>>
  PROVE  GuardInv'
<1>1. now \in 0..LastTick /\ now \in Nat /\ AdmissionInv /\ PanelInv /\ AdmissionRests
  BY LastTickAssumption DEF GuardInv
<1>2. now' \in 0..LastTick /\ now' \in Nat
  <2>1. now' = now \/ (now < LastTick /\ now' = now + 1)
    BY DEF PanelNext, PanelTick, ClockTick, RefuseUnread, WrongToken, View, SignIn, CheckCsrf,
           SignOut, StartTest, CommitSave
  <2> QED
    BY <1>1, <2>1, LastTickAssumption
<1>3. PanelInv'
  BY <1>1, PanelInvStep
<1>4. UNCHANGED <<windows, waiting, admitted>>
  BY DEF admissionVars
<1>5. AdmissionRests'
  BY <1>1, <1>4 DEF AdmissionRests
<1>6. AdmissionInv'
  <2>1. (now \in Nat /\ AdmissionRests /\ waiting \in [Workers -> {NoRequest}]
         /\ DOMAIN admitted = PeerKeys => AdmissionInv)'
    BY AdmissionAtRest, PTL
  <2>2. waiting \in [Workers -> {NoRequest}] /\ DOMAIN admitted = PeerKeys
    BY <1>1 DEF AdmissionRests, AdmissionInv, AdmissionTypeOK
  <2> QED
    BY <1>2, <1>4, <1>5, <2>1, <2>2
<1> QED
  BY <1>2, <1>3, <1>5, <1>6 DEF GuardInv

LEMMA GuardsRestart ==
  ASSUME GuardInv, Restart
  PROVE  GuardInv'
<1>1. now \in 0..LastTick /\ now \in Nat /\ PanelInv /\ focus \in {"admission", "panel"}
  BY LastTickAssumption DEF GuardInv
<1>2. /\ windows' = <<>> /\ waiting' = [w \in Workers |-> NoRequest]
      /\ admitted' = [k \in PeerKeys |-> <<>>]
      /\ attempts' = <<>> /\ DOMAIN sessions' = {} /\ lastTest' = Never
      /\ request' = [r \in Requests |->
           IF request[r].at = "checked" THEN NoPost ELSE request[r]]
      /\ judged' = [kind \in Limited |-> <<>>] /\ DOMAIN signedIn' = {}
      /\ now' = now /\ minted' = minted /\ focus' = focus
  BY DEF Restart, PanelRestart
<1>3. AdmissionRests' /\ AdmissionInv'
  <2>1. (now \in Nat /\ AdmissionRests /\ waiting \in [Workers -> {NoRequest}]
         /\ DOMAIN admitted = PeerKeys => AdmissionInv)'
    BY AdmissionAtRest, PTL
  <2>2. AdmissionRests'
    BY <1>2 DEF AdmissionRests
  <2> QED
    BY <1>1, <1>2, <2>1, <2>2
<1>4. PanelInv'
  <2>1. (now \in Nat /\ attempts = <<>> /\ lastTest = Never
         /\ DOMAIN judged = Limited /\ (\A kind \in Limited : judged[kind] = <<>>)
         /\ DOMAIN sessions = {} /\ DOMAIN signedIn = {}
         /\ minted \subseteq Sessions /\ PostInv => PanelInv)'
    BY PanelAtRest, PTL
  <2>2. minted \subseteq Sessions /\ PostInv
    BY <1>1, PanelParts DEF SignedIn
  <2>3. PostInv'
    <3>1. NoPost \in Posts
      BY DEF NoPost, Posts
    <3> QED
      BY <1>2, <2>2, <3>1 DEF PostInv, FormsActForTheirSession, NoPost
  <2> QED
    BY <1>1, <1>2, <2>1, <2>2, <2>3
<1>5. focus = "admission" => PanelRests'
  <2>1. focus = "admission" => PanelRests
    BY DEF GuardInv
  <2>2. ASSUME PanelRests PROVE PanelRests'
    <3>1. \A r \in Requests : request'[r] = NoPost
      BY <1>2, <2>2 DEF PanelRests, NoPost
    <3> QED
      BY <1>2, <2>2, <3>1 DEF PanelRests
  <2> QED
    BY <2>1, <2>2
<1> QED
  BY <1>1, <1>2, <1>3, <1>4, <1>5 DEF GuardInv

LEMMA GuardInvStep ==
  GuardInv /\ [Next]_vars => GuardInv'
<1> SUFFICES ASSUME GuardInv, [Next]_vars PROVE GuardInv'
  OBVIOUS
<1>1. CASE focus = "admission" /\ (AdmissionNext \/ AdmissionTick)
                         /\ UNCHANGED <<focus, panelVars>>
  BY <1>1, AdmissionFollowed
<1>2. CASE focus = "panel" /\ (PanelNext \/ PanelTick) /\ UNCHANGED <<focus, admissionVars>>
  BY <1>2, PanelFollowed
<1>3. CASE Restart
  BY <1>3, GuardsRestart
<1>4. CASE UNCHANGED vars
  BY <1>4 DEF vars, admissionVars, panelVars, GuardInv, AdmissionInv, AdmissionTypeOK,
              AdmissionRests, Prompt, LetIn, PanelInv, PanelTypeOK, PanelRests, Attempted,
              Unexpired, Tested, SignedIn, Live, FormsActForTheirSession
<1> QED
  BY <1>1, <1>2, <1>3, <1>4 DEF Next

(* In every state the requests that a key was let through with and its     *)
(* window agree, and so do the lists of the panel and what was judged and  *)
(* who signed in.                                                          *)
THEOREM GuardsStayConsistent ==
  Spec => []GuardInv
BY GuardInitially, GuardInvStep, PTL DEF Spec

(* Every table, list, session and post keeps its type and its bound.       *)
THEOREM GuardTypes ==
  Spec => []TypeOK
<1>1. GuardInv => TypeOK
  BY DEF GuardInv, AdmissionInv, PanelInv, TypeOK
<1> QED
  BY <1>1, GuardsStayConsistent, PTL

(* A key whose window a request keeps was let through as often as the      *)
(* window counts, within the time the history goes back.                   *)
LEMMA KeptWasLetThrough ==
  ASSUME now \in Nat, AdmissionInv, NEW k \in PeerKeys, NEW at \in 0..now,
         now <= at + MaxLag, k \in DOMAIN Retained(at)
  PROVE  Len(admitted[k]) >= Retained(at)[k].count /\ admitted[k] # <<>>
<1> DEFINE window == Retained(at)[k]
           times == admitted[k]
           quota == QuotaOf[k[2]]
<1>1. /\ window \in [start : 0..now, count : 1..quota] /\ at - window.start < Window
      /\ Opened(times, quota, window, now)
  BY KeptWindows
<1>2. times \in Seq(Int) /\ quota \in Nat \ {0}
  BY QuotaTypes DEF AdmissionInv, LetIn
<1> HIDE DEF window, times, quota
<1>3. ~(window.start <= now - Window - MaxLag)
  BY <1>1, AdmissionAssumption
<1>4. ~(Len(times) - window.count + 1 < 1)
  BY <1>1, <1>3 DEF Opened, OpenedAt
<1>5. Len(times) \in Nat /\ window.count \in 1..quota
  BY <1>1, <1>2
<1>6. Len(times) >= window.count /\ Len(times) >= 1
  BY <1>2, <1>4, <1>5
<1>7. times # <<>>
  BY <1>6, EmptySeq
<1> QED
  BY <1>6, <1>7 DEF window, times

(* A peer is turned away for its own requests of the last window, or by a  *)
(* table of peers that were all let through within it.                     *)
THEOREM RefusalsAreAlwaysEarned ==
  Spec => []RefusalsAreEarned
<1>1. ASSUME GuardInv, NEW w \in Workers, waiting[w] # NoRequest, NoPlace(w) \/ Spent(w)
      PROVE  \/ Len(admitted[waiting[w].key]) >= QuotaOf[waiting[w].key[2]]
             \/ /\ Cardinality({k \in PeerKeys : admitted[k] # <<>>}) >= TableSize
                /\ NoPlace(w)
  <2> DEFINE key == waiting[w].key
             at == waiting[w].at
             kept == Retained(at)
             recent == {k \in PeerKeys : admitted[k] # <<>>}
  <2>1. now \in Nat /\ AdmissionInv
    BY <1>1, LastTickAssumption DEF GuardInv
  <2>2. key \in PeerKeys /\ at \in 0..now /\ now <= at + MaxLag
    BY <1>1, <2>1, RequestTypes
  <2>3. CASE Spent(w)
    <3>1. key \in DOMAIN kept /\ kept[key].count >= QuotaOf[key[2]]
      BY <2>3 DEF Spent
    <3>2. Len(admitted[key]) >= kept[key].count
      BY <2>1, <2>2, <3>1, KeptWasLetThrough
    <3>3. kept[key] \in [start : 0..now, count : 1..QuotaOf[key[2]]]
      BY <2>1, <2>2, <3>1, KeptWindows
    <3>4. admitted[key] \in Seq(Int) /\ QuotaOf[key[2]] \in Nat
      BY <2>1, <2>2, QuotaTypes DEF AdmissionInv, LetIn
    <3>5. Len(admitted[key]) \in Nat /\ kept[key].count \in Int
      BY <3>3, <3>4, LenProperties
    <3> QED
      BY <3>1, <3>2, <3>4, <3>5
  <2>4. CASE NoPlace(w)
    <3>1. Cardinality(DOMAIN kept) >= TableSize
      BY <2>4 DEF NoPlace
    <3>2. DOMAIN kept \subseteq PeerKeys
      BY <2>1, <2>2, KeptWindows DEF AdmissionInv, AdmissionTypeOK
    <3>3. DOMAIN kept \subseteq recent
      BY <2>1, <2>2, <3>2, KeptWasLetThrough
    <3>4. IsFiniteSet(recent)
      BY AdmissionAssumption, FS_Subset
    <3>5. Cardinality(DOMAIN kept) <= Cardinality(recent) /\ IsFiniteSet(DOMAIN kept)
      BY <3>3, <3>4, FS_Subset
    <3>6. Cardinality(DOMAIN kept) \in Nat /\ Cardinality(recent) \in Nat
      BY <3>4, <3>5, FS_CardinalityType
    <3> HIDE DEF recent, kept
    <3>7. Cardinality(recent) >= TableSize
      BY <3>1, <3>5, <3>6, AdmissionAssumption
    <3> QED
      BY <2>4, <3>7 DEF recent
  <2> QED
    BY <1>1, <2>3, <2>4
<1>2. GuardInv => RefusalsAreEarned
  BY <1>1 DEF RefusalsAreEarned
<1> QED
  BY <1>2, GuardsStayConsistent, PTL

(* Sign-in is locked only by tokens judged wrong within the lockout, and   *)
(* full only of administrators who signed in within the hour.              *)
THEOREM SignInAlwaysOpensAgain ==
  Spec => []SignInOpensAgain
<1>1. GuardInv => SignInOpensAgain
  <2> SUFFICES ASSUME GuardInv PROVE SignInOpensAgain
    OBVIOUS
  <2>1. Attempted /\ SignedIn
    BY DEF GuardInv, PanelInv
  <2>2. Len(Unexpired) = Len(judged["wrong token"]) /\ DOMAIN signedIn = Live
    BY <2>1 DEF Attempted, InStep, SignedIn
  <2> QED
    BY <2>2 DEF SignInOpensAgain, LockedOut
<1> QED
  BY <1>1, GuardsStayConsistent, PTL

(* What a form post does was authorised by its own session when it was     *)
(* checked, and no authorised post is turned away.                         *)
THEOREM FormsAlwaysActForTheirSession ==
  Spec => []FormsActForTheirSession
<1>1. GuardInv => FormsActForTheirSession
  BY DEF GuardInv, PanelInv
<1> QED
  BY <1>1, GuardsStayConsistent, PTL

-----------------------------------------------------------------------------
(* The limiter's view of a key: its requests of the last Least ticks.      *)
Granted == [k \in PeerKeys |-> Since(k, now - (Window - MaxLag))]

LEMMA LeastType ==
  Least \in Nat \ {0} /\ Least = Window - MaxLag /\ Window \in Nat /\ MaxLag \in Nat
BY AdmissionAssumption DEF Least

LEMMA GrantedOf ==
  ASSUME NEW k \in PeerKeys
  PROVE  Granted[k] = Later(admitted[k], now - Least)
BY DEF Granted, Since, Least

LEMMA GrantedThen ==
  ASSUME NEW k \in PeerKeys
  PROVE  Granted'[k] = Later(admitted'[k], now' - Least)
BY DEF Granted, Since, Least

(* Once more than Spread allows would be a request too many.               *)
LEMMA RoomForOne ==
  ASSUME NEW times \in Seq(Int), Ascending(times), NEW t \in Int, NEW quota \in Nat \ {0},
         Spread(Append(times, t), quota)
  PROVE  Len(Later(times, t - Least)) < 2 * quota - 1
<1> DEFINE n == Len(times)
           more == Append(times, t)
           rest == Later(times, t - Least)
<1>1. t - Least \in Int /\ Least \in Int
  BY LeastType
<1>2. PICK k \in 0..n : SplitAt(times, t - Least, k) /\ RestOf(times, rest, k)
  BY <1>1, LaterSplits
<1>3. /\ Len(more) = n + 1 /\ n \in Nat /\ more[n + 1] = t
      /\ \A i \in 1..n : more[i] = times[i] /\ times[i] \in Int
  OBVIOUS
<1> HIDE DEF more, rest
<1>4. k \in Nat /\ k <= n /\ Len(rest) = n - k
  BY <1>2, <1>3 DEF RestOf
<1>5. ASSUME Len(rest) >= 2 * quota - 1 PROVE FALSE
  <2>1. /\ k + 1 \in 1..n /\ k + 1 \in k + 1..n
        /\ k + 1 \in 1..n + 1 /\ n + 1 \in 1..n + 1 /\ n + 1 >= (k + 1) + 2 * quota - 1
    BY <1>3, <1>4, <1>5
  <2>2. more[n + 1] - more[k + 1] >= Least
    BY <1>3, <2>1 DEF Spread, more
  <2>3. times[k + 1] > t - Least
    BY <1>2, <2>1 DEF SplitAt
  <2>4. times[k + 1] \in Int /\ more[k + 1] = times[k + 1]
    BY <1>3, <2>1
  <2> QED
    BY <1>1, <1>3, <2>2, <2>3, <2>4
<1> QED
  BY <1>4, <1>5 DEF rest

LEMMA LetThroughIsGrant ==
  ASSUME GuardInv, NEW w \in Workers, LetThrough(w)
  PROVE  /\ now' = now /\ waiting[w].key \in PeerKeys
         /\ Len(Granted[waiting[w].key]) < 2 * QuotaOf[waiting[w].key[2]] - 1
         /\ Granted' = [Granted EXCEPT ![waiting[w].key] = Append(@, now)]
<1> DEFINE key == waiting[w].key
           times == admitted[key]
<1>1. now \in Nat /\ AdmissionInv
  BY LastTickAssumption DEF GuardInv
<1>2. /\ now' = now /\ admitted' = [admitted EXCEPT ![key] = Append(@, now)]
      /\ waiting[w] # NoRequest
  BY DEF LetThrough
<1>3. key \in PeerKeys /\ DOMAIN admitted = PeerKeys
  BY <1>1, <1>2, RequestTypes DEF AdmissionInv
<1>4. admitted'[key] = Append(times, now)
  BY <1>2, <1>3
<1>5. /\ times \in Seq(Int) /\ Ascending(times) /\ now \in Int
      /\ Spread(Append(times, now), QuotaOf[key[2]]) /\ QuotaOf[key[2]] \in Nat \ {0}
  <2>1. PICK k \in PeerKeys : k = key
    BY <1>3
  <2>2. LetIn(k) /\ LetIn(k)'
    BY <1>1, LetThroughStep DEF AdmissionInv
  <2>3. admitted[k] = times /\ admitted'[k] = Append(times, now)
    BY <1>4, <2>1
  <2> HIDE DEF key, times
  <2>4. /\ times \in Seq(Int) /\ Ascending(times)
        /\ Spread(Append(times, now), QuotaOf[k[2]])
    BY <2>2, <2>3 DEF LetIn
  <2> QED
    BY <1>1, <2>1, <2>4, QuotaTypes
<1>6. now - Least \in Int /\ now > now - Least
  BY <1>1, LeastType
<1>7. Later(Append(times, now), now - Least) = Append(Later(times, now - Least), now)
  BY <1>5, <1>6, LaterAppend
<1>8. Len(Later(times, now - Least)) < 2 * QuotaOf[key[2]] - 1
  BY <1>5, RoomForOne
<1>9. ASSUME NEW k \in PeerKeys
      PROVE  Granted'[k] = IF k = key THEN Append(Granted[k], now) ELSE Granted[k]
  <2>1. Granted'[k] = Later(admitted'[k], now - Least)
    BY <1>2, GrantedThen
  <2>2. Granted[k] = Later(admitted[k], now - Least)
    BY GrantedOf
  <2>3. k # key => admitted'[k] = admitted[k]
    BY <1>2, <1>3
  <2> QED
    BY <1>4, <1>7, <2>1, <2>2, <2>3
<1>10. Len(Granted[key]) < 2 * QuotaOf[key[2]] - 1
  BY <1>3, <1>8, GrantedOf
<1>11. Granted' = [Granted EXCEPT ![key] = Append(@, now)]
  <2>1. Granted' = [k \in PeerKeys |-> Granted'[k]] /\ Granted = [k \in PeerKeys |-> Granted[k]]
    BY DEF Granted
  <2> HIDE DEF key
  <2> QED
    BY <1>3, <1>9, <2>1
<1> QED
  BY <1>2, <1>3, <1>10, <1>11

LEMMA TickIsWait ==
  ASSUME GuardInv, now' = now + 1,
         \A k \in PeerKeys : \/ admitted'[k] = Later(admitted[k], now' - Window - MaxLag)
                             \/ admitted'[k] = admitted[k] /\ admitted[k] = <<>>
  PROVE  /\ now' > now
         /\ Granted' = [k \in PeerKeys |-> Later(Granted[k], now' - (Window - MaxLag))]
<1>1. now \in Nat /\ AdmissionInv
  BY LastTickAssumption DEF GuardInv
<1>2. now' > now
  BY <1>1
<1>3. ASSUME NEW k \in PeerKeys
      PROVE  Granted'[k] = Later(Granted[k], now' - (Window - MaxLag))
  <2> DEFINE times == admitted[k]
             t == now' - Least
             t0 == now - Least
             t1 == now' - Window - MaxLag
  <2>1. /\ t = now' - (Window - MaxLag) /\ t \in Int /\ t0 \in Int /\ t1 \in Int
        /\ t0 <= t /\ t1 <= t
    BY <1>1, LeastType
  <2>2. times \in Seq(Int) /\ Ascending(times)
    BY <1>1 DEF AdmissionInv, LetIn
  <2>3. Granted'[k] = Later(admitted'[k], t) /\ Granted[k] = Later(times, t0)
    BY GrantedOf, GrantedThen
  <2> HIDE DEF times, t, t0, t1
  <2>4. Later(Later(times, t0), t) = Later(times, t)
    BY <2>1, <2>2, LaterAgain
  <2>5. Later(admitted'[k], t) = Later(times, t)
    <3>1. CASE admitted'[k] = Later(times, t1)
      BY <2>1, <2>2, <3>1, LaterAgain
    <3>2. CASE admitted'[k] = times
      BY <3>2
    <3> QED
      BY <3>1, <3>2 DEF times, t1
  <2> QED
    BY <2>1, <2>3, <2>4, <2>5
<1>4. Granted' = [k \in PeerKeys |-> Granted'[k]]
  BY DEF Granted
<1> QED
  BY <1>2, <1>3, <1>4

LEMMA GrantedNothing ==
  ASSUME now' \in Nat, \A k \in PeerKeys : admitted'[k] = <<>>
  PROVE  Granted' = [k \in PeerKeys |-> <<>>]
<1>1. ASSUME NEW k \in PeerKeys PROVE Granted'[k] = <<>>
  <2>1. Granted'[k] = Later(<<>>, now' - Least) /\ now' - Least \in Int
    BY GrantedThen, LeastType
  <2> QED
    BY <2>1, LaterNothing
<1>2. Granted' = [k \in PeerKeys |-> Granted'[k]]
  BY DEF Granted
<1> QED
  BY <1>1, <1>2

(* A limiter's step, with the view in place of what it has granted.        *)
QuotaStep ==
  \/ \E k \in PeerKeys :
       /\ Len(Granted[k]) < 2 * QuotaOf[k[2]] - 1
       /\ Granted' = [Granted EXCEPT ![k] = Append(@, now)]
       /\ now' = now
  \/ /\ now' > now
     /\ Granted' = [k \in PeerKeys |-> Later(Granted[k], now' - (Window - MaxLag))]
  \/ Granted' = [k \in PeerKeys |-> <<>>] /\ now' = now

LEMMA GrantedAlike ==
  ASSUME UNCHANGED <<now, admitted>>
  PROVE  UNCHANGED <<now, Granted>>
BY DEF Granted, Since

LEMMA QuotaSteps ==
  GuardInv /\ [Next]_vars => QuotaStep \/ UNCHANGED <<now, Granted>>
<1> SUFFICES ASSUME GuardInv, [Next]_vars
             PROVE  QuotaStep \/ UNCHANGED <<now, Granted>>
  OBVIOUS
<1>1. ASSUME NEW w \in Workers, LetThrough(w) PROVE QuotaStep
  BY <1>1, LetThroughIsGrant DEF QuotaStep
<1>2. CASE UNCHANGED <<now, admitted>>
  BY <1>2, GrantedAlike
<1>3. CASE AdmissionTick
  <2>1. now' = now + 1 /\ \A k \in PeerKeys :
          admitted'[k] = Later(admitted[k], now' - Window - MaxLag)
    BY <1>3 DEF AdmissionTick, ClockTick, Since
  <2> QED
    BY <2>1, TickIsWait DEF QuotaStep
<1>4. CASE focus = "panel" /\ PanelTick /\ UNCHANGED admissionVars
  <2>1. now' = now + 1 /\ admitted' = admitted
    BY <1>4 DEF PanelTick, ClockTick, admissionVars
  <2>2. \A k \in PeerKeys : admitted[k] = <<>>
    BY <1>4 DEF GuardInv, AdmissionRests
  <2> QED
    BY <2>1, <2>2, TickIsWait DEF QuotaStep
<1>5. CASE Restart
  <2>1. now' = now /\ now' \in Nat /\ \A k \in PeerKeys : admitted'[k] = <<>>
    BY <1>5, LastTickAssumption DEF Restart, PanelRestart, GuardInv
  <2> QED
    BY <2>1, GrantedNothing DEF QuotaStep
<1>6. ASSUME AdmissionNext
      PROVE  (\E w \in Workers : LetThrough(w)) \/ UNCHANGED <<now, admitted>>
  BY <1>6 DEF AdmissionNext, Arrive, Turnaway
<1>7. ASSUME PanelNext, UNCHANGED admissionVars PROVE UNCHANGED <<now, admitted>>
  BY <1>7 DEF PanelNext, RefuseUnread, WrongToken, View, SignIn, CheckCsrf, SignOut, StartTest,
              CommitSave, admissionVars
<1>8. ASSUME UNCHANGED vars PROVE UNCHANGED <<now, admitted>>
  BY <1>8 DEF vars, admissionVars
<1> QED
  BY <1>1, <1>2, <1>3, <1>4, <1>5, <1>6, <1>7, <1>8 DEF Next

LEMMA QuotaLater ==
  ASSUME NEW times, NEW t
  PROVE  Quota!Later(times, t) = Later(times, t)
BY DEF Quota!Later, Later

LEMMA QuotaStepIsNext ==
  QuotaStep => Quota!Next
<1>1. ASSUME NEW k \in PeerKeys, Len(Granted[k]) < 2 * QuotaOf[k[2]] - 1,
             Granted' = [Granted EXCEPT ![k] = Append(@, now)], now' = now
      PROVE  Quota!Next
  <2>1. Quota!Grant(k)
    BY <1>1 DEF Quota!Grant, Granted
  <2> QED
    BY <2>1 DEF Quota!Next
<1>2. ASSUME now' > now,
             Granted' = [k \in PeerKeys |-> Later(Granted[k], now' - (Window - MaxLag))]
      PROVE  Quota!Next
  <2>1. Quota!Wait
    BY <1>2, QuotaLater DEF Quota!Wait, Granted
  <2> QED
    BY <2>1 DEF Quota!Next
<1>3. ASSUME Granted' = [k \in PeerKeys |-> <<>>], now' = now
      PROVE  Quota!Next
  <2>1. Quota!Restart
    BY <1>3 DEF Quota!Restart, Quota!Nothing, Granted
  <2> QED
    BY <2>1 DEF Quota!Next
<1> QED
  BY <1>1, <1>2, <1>3 DEF QuotaStep

(* A key never gets more than one request less than twice its quota in any *)
(* window, less the lag, of one process's life: however the workers'       *)
(* requests interleave, whatever their clock readings and whatever other   *)
(* peers do to the table (SECURITY.md).                                    *)
THEOREM QuotaIsAlwaysKept ==
  Spec => QuotaIsKept
<1>1. Init => Quota!Init
  <2> SUFFICES ASSUME Init PROVE Quota!Init
    OBVIOUS
  <2>1. now = 0 /\ \A k \in PeerKeys : admitted[k] = <<>>
    BY DEF Init, ClockInit, AdmissionInit
  <2>2. ASSUME NEW k \in PeerKeys PROVE Since(k, now - (Window - MaxLag)) = <<>>
    <3>1. now - (Window - MaxLag) \in Int
      BY <2>1, LeastType
    <3> QED
      BY <2>1, <3>1, LaterNothing DEF Since
  <2> QED
    BY <2>2 DEF Quota!Init, Quota!Nothing
<1>2. GuardInv /\ [Next]_vars =>
        [Quota!Next]_<<now, [k \in PeerKeys |-> Since(k, now - (Window - MaxLag))]>>
  BY QuotaSteps, QuotaStepIsNext DEF Granted
<1> QED
  BY <1>1, <1>2, GuardsStayConsistent, PTL DEF Spec, QuotaIsKept, Quota!Spec

-----------------------------------------------------------------------------
LEMMA ThrottleLater ==
  ASSUME NEW times, NEW t
  PROVE  Throttle!Later(times, t) = Later(times, t)
BY DEF Throttle!Later, Later

(* A judged token and a started test are grants of the throttle.           *)
LEMMA WrongTokenIsGrant ==
  ASSUME GuardInv, WrongToken
  PROVE  Throttle!Next
<1> DEFINE wrong == judged["wrong token"]
<1>1. Attempted /\ DOMAIN judged = Limited
  BY DEF GuardInv, PanelInv
<1>2. Len(Unexpired) = Len(wrong) /\ wrong \in Seq(Int)
  BY <1>1 DEF Attempted, InStep
<1>3. Len(wrong) < MaxAttempts
  <2>1. ~(Len(wrong) >= MaxAttempts)
    BY <1>2 DEF WrongToken, LockedOut
  <2> HIDE DEF wrong
  <2>2. Len(wrong) \in Nat /\ MaxAttempts \in Nat
    BY <1>2, LenProperties, PanelAssumption
  <2> QED
    BY <2>1, <2>2
<1>4. Throttle!Grant("wrong token")
  BY <1>3 DEF Throttle!Grant, WrongToken, Judge, Limited
<1> QED
  BY <1>4 DEF Throttle!Next, Limited

LEMMA StartTestIsGrant ==
  ASSUME GuardInv, NEW r \in Requests, StartTest(r)
  PROVE  Throttle!Next \/ UNCHANGED <<now, judged>>
<1>1. Tested
  BY DEF GuardInv, PanelInv
<1>2. CASE lastTest # Never /\ now - lastTest < TestGap
  BY <1>2 DEF StartTest
<1>3. CASE ~(lastTest # Never /\ now - lastTest < TestGap)
  <2>1. Len(judged["test"]) = 0
    BY <1>1, <1>3, EmptySeq DEF Tested
  <2>2. judged' = [judged EXCEPT !["test"] = Append(@, now)] /\ now' = now
    BY <1>3 DEF StartTest, Judge
  <2>3. Throttle!Grant("test")
    BY <2>1, <2>2 DEF Throttle!Grant, Limited
  <2> QED
    BY <2>3 DEF Throttle!Next, Limited
<1> QED
  BY <1>2, <1>3

LEMMA TimeIsWait ==
  ASSUME GuardInv, PanelTick \/ (focus = "admission" /\ AdmissionTick /\ UNCHANGED panelVars)
  PROVE  Throttle!Next
<1>1. now' > now
  <2>1. now' = now + 1 /\ now \in Nat
    BY LastTickAssumption DEF GuardInv, PanelTick, AdmissionTick, ClockTick
  <2> QED
    BY <2>1
<1>2. judged' = [k \in Limited |-> Later(judged[k], now' - SpanOf[k])]
  <2>1. CASE PanelTick
    BY <2>1 DEF PanelTick
  <2>2. CASE focus = "admission" /\ AdmissionTick /\ UNCHANGED panelVars
    <3>1. judged' = judged /\ judged = [k \in Limited |-> <<>>]
      BY <2>2 DEF GuardInv, PanelRests, panelVars
    <3>2. ASSUME NEW k \in Limited PROVE Later(judged[k], now' - SpanOf[k]) = <<>>
      <4>1. now' \in Int
        BY <2>2, LastTickAssumption DEF GuardInv, AdmissionTick, ClockTick
      <4>2. SpanOf[k] \in Int
        BY PanelAssumption DEF SpanOf
      <4>3. now' - SpanOf[k] \in Int /\ judged[k] = <<>>
        BY <3>1, <4>1, <4>2
      <4> QED
        BY <4>3, LaterNothing
    <3> QED
      BY <3>1, <3>2
  <2> QED
    BY <2>1, <2>2
<1>3. Throttle!Wait
  BY <1>1, <1>2, ThrottleLater DEF Throttle!Wait
<1> QED
  BY <1>3 DEF Throttle!Next

LEMMA ThrottleSteps ==
  GuardInv /\ [Next]_vars => [Throttle!Next]_<<now, judged>>
<1> SUFFICES ASSUME GuardInv, [Next]_vars
             PROVE  Throttle!Next \/ UNCHANGED <<now, judged>>
  OBVIOUS
<1>1. ASSUME PanelNext
      PROVE  \/ WrongToken \/ (\E r \in Requests : StartTest(r))
             \/ UNCHANGED <<now, judged>>
  BY <1>1 DEF PanelNext, RefuseUnread, View, SignIn, CheckCsrf, SignOut, CommitSave, history
<1>2. CASE PanelNext
  BY <1>1, <1>2, WrongTokenIsGrant, StartTestIsGrant
<1>3. CASE PanelTick
  BY <1>3, TimeIsWait
<1>4. CASE focus = "admission" /\ AdmissionTick /\ UNCHANGED panelVars
  BY <1>4, TimeIsWait
<1>5. CASE AdmissionNext /\ UNCHANGED panelVars
  BY <1>5 DEF AdmissionNext, Arrive, Turnaway, LetThrough, panelVars
<1>6. CASE Restart
  <2>1. Throttle!Restart
    BY <1>6 DEF Restart, PanelRestart, Throttle!Restart, Throttle!Nothing
  <2> QED
    BY <2>1 DEF Throttle!Next
<1>7. CASE UNCHANGED vars
  BY <1>7 DEF vars, panelVars
<1> QED
  BY <1>2, <1>3, <1>4, <1>5, <1>6, <1>7 DEF Next

(* No more wrong tokens are judged within the lockout than lock sign-in,   *)
(* and no two tests start within the gap, however sign-ins and tests       *)
(* interleave, in one process (docs/admin-panel.md).                       *)
THEOREM PanelIsAlwaysThrottled ==
  Spec => PanelIsThrottled
<1>1. Init => Throttle!Init
  BY DEF Init, PanelInit, Throttle!Init, Throttle!Nothing
<1> QED
  BY <1>1, ThrottleSteps, GuardsStayConsistent, PTL DEF Spec, PanelIsThrottled, Throttle!Spec
=============================================================================
