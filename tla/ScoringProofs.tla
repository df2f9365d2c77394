---------------------------- MODULE ScoringProofs ----------------------------
(***************************************************************************)
(* What the operators of Scoring compute, whatever the lobbies: a score is *)
(* a number or NaN, and SelectBestLobby's loop returns the first of the    *)
(* best.  The loop and the sum are recursive functions; what they are for  *)
(* every length is shown by the least position at which it could fail.     *)
(***************************************************************************)
EXTENDS Scoring, FiniteSetTheorems, TLAPS

-----------------------------------------------------------------------------
(* Induction and recursion up to n *)

\* Of finite sets a strict superset order is well founded, so of the intervals
\* from 0 to an element of T one is the smallest.
LEMMA Least ==
  ASSUME NEW T \in SUBSET Nat, T # {}
  PROVE  \E m \in T : \A k \in T : ~(k < m)
<1> DEFINE F == {0 .. k : k \in T}
<1>1. IsWellFoundedOn(StrictSubsetOrdering(Nat), FiniteSubsetsOf(Nat))
  BY FS_StrictSubsetOrderingWellFounded
<1>2. F \subseteq FiniteSubsetsOf(Nat)
  <2> SUFFICES ASSUME NEW k \in T
               PROVE  0 .. k \in FiniteSubsetsOf(Nat)
    OBVIOUS
  <2>1. k \in Nat /\ IsFiniteSet(0 .. k)
    BY FS_Interval
  <2> QED
    BY <2>1 DEF FiniteSubsetsOf
<1>3. F # {}
  OBVIOUS
<1>4. \E x \in F : \A y \in F : ~(<<y, x>> \in StrictSubsetOrdering(Nat))
  <2> HIDE DEF F
  <2> QED
    BY <1>1, <1>2, <1>3, WFMin
<1>5. PICK m \in T : \A k \in T : ~(<<0 .. k, 0 .. m>> \in StrictSubsetOrdering(Nat))
  BY <1>4
<1>6. ASSUME NEW k \in T, k < m
      PROVE  FALSE
  <2>1. 0 .. k \in SUBSET Nat /\ 0 .. m \in SUBSET Nat
    BY <1>6
  <2>2. 0 .. k \subseteq 0 .. m /\ 0 .. k # 0 .. m
    <3>1. m \in 0 .. m /\ m \notin 0 .. k
      BY <1>6
    <3> QED
      BY <1>6, <3>1
  <2> QED
    BY <1>5, <1>6, <2>1, <2>2 DEF StrictSubsetOrdering
<1> QED
  BY <1>6

LEMMA UpTo ==
  ASSUME NEW n \in Nat, NEW S, 0 \in S, \A k \in 1 .. n : k - 1 \in S => k \in S
  PROVE  0 .. n \subseteq S
<1> SUFFICES ASSUME NEW j \in 0 .. n, j \notin S
             PROVE  FALSE
  OBVIOUS
<1> DEFINE T == {k \in 0 .. n : k \notin S}
<1>1. T \in SUBSET Nat /\ T # {}
  OBVIOUS
<1>2. PICK m \in T : \A k \in T : ~(k < m)
  BY <1>1, Least
<1>3. m \in 1 .. n /\ m - 1 \in 0 .. n /\ m - 1 < m
  BY <1>2
<1> QED
  BY <1>2, <1>3

\* f begins with a, and each position takes its step from the one before.
Runs(f, a, n, step) == f[0] = a /\ \A k \in 1 .. n : f[k] = step[k][f[k - 1]]

\* A first value and a step for each position determine such a function.
LEMMA Recursion ==
  ASSUME NEW n \in Nat, NEW X, NEW a \in X, NEW step \in [1 .. n -> [X -> X]]
  PROVE  \E f \in [0 .. n -> X] : Runs(f, a, n, step)
<1> USE DEF Runs
<1> DEFINE Part(k) == {f \in [0 .. n -> X] : Runs(f, a, k, step)}
           S == {k \in 0 .. n : Part(k) # {}}
<1>1. 0 \in S
  <2>1. [i \in 0 .. n |-> a] \in Part(0)
    OBVIOUS
  <2> QED
    BY <2>1
<1>2. ASSUME NEW k \in 1 .. n, k - 1 \in S
      PROVE  k \in S
  <2>1. PICK f \in Part(k - 1) : TRUE
    BY <1>2
  <2> DEFINE g == [f EXCEPT ![k] = step[k][f[k - 1]]]
  <2>2. f \in [0 .. n -> X] /\ f[k - 1] \in X /\ k \in 0 .. n
    BY <2>1
  <2>3. step[k][f[k - 1]] \in X
    BY <2>2
  <2>4. g \in [0 .. n -> X] /\ g[0] = a
    BY <2>1, <2>2, <2>3
  <2>5. ASSUME NEW i \in 1 .. k
        PROVE  g[i] = step[i][g[i - 1]]
    <3>1. i - 1 # k /\ i - 1 \in 0 .. n /\ g[i - 1] = f[i - 1]
      BY <2>2
    <3>2. i < k => i \in 1 .. k - 1
      OBVIOUS
    <3> QED
      BY <2>1, <2>2, <3>1, <3>2
  <2>6. g \in Part(k)
    BY <2>4, <2>5
  <2> QED
    BY <2>2, <2>6
<1>3. n \in S
  <2> HIDE DEF S
  <2>1. 0 .. n \subseteq S
    BY <1>1, <1>2, UpTo
  <2> QED
    BY <2>1
<1> QED
  BY <1>3

-----------------------------------------------------------------------------
(* The scores *)

LEMMA TotalType ==
  ASSUME NEW r \in Seq(Int)
  PROVE  Total(r) \in Int
<1> DEFINE n == Len(r)
           Sum(f) == [k \in 0 .. n |-> IF k = 0 THEN 0 ELSE f[k - 1] + r[k]]
           sum == CHOOSE f : f = Sum(f)
<1>1. n \in Nat /\ 0 \in Int
  OBVIOUS
<1> PICK step \in [1 .. n -> [Int -> Int]] :
      \A k \in 1 .. n, x \in Int : step[k][x] = x + r[k]
  <2>1. [k \in 1 .. n |-> [x \in Int |-> x + r[k]]] \in [1 .. n -> [Int -> Int]]
    OBVIOUS
  <2> QED
    BY <2>1
<1>2. PICK f \in [0 .. n -> Int] : Runs(f, 0, n, step)
  <2> HIDE DEF n
  <2> QED
    BY <1>1, Recursion
<1>3. f = Sum(f)
  <2> SUFFICES ASSUME NEW k \in 0 .. n
               PROVE  f[k] = IF k = 0 THEN 0 ELSE f[k - 1] + r[k]
    BY <1>2
  <2> USE DEF Runs
  <2>1. CASE k = 0
    BY <1>2, <2>1
  <2>2. CASE k # 0
    <3>1. k \in 1 .. n /\ k - 1 \in 0 .. n
      BY <1>1, <2>2
    <3>2. f[k - 1] \in Int
      BY <1>2, <3>1
    <3> QED
      BY <1>2, <2>2, <3>1, <3>2
  <2> QED
    BY <2>1, <2>2
<1>4. sum = Sum(sum)
  BY <1>3
<1> DEFINE S == {k \in 0 .. n : sum[k] \in Int}
<1>5. 0 \in S
  <2>1. sum[0] = 0
    <3> HIDE DEF sum
    <3> QED
      BY <1>1, <1>4
  <2> QED
    BY <1>1, <2>1
<1>6. ASSUME NEW k \in 1 .. n, k - 1 \in S
      PROVE  k \in S
  <2>1. k \in 0 .. n /\ k # 0 /\ r[k] \in Int
    BY <1>1
  <2>2. sum[k] = sum[k - 1] + r[k]
    <3> HIDE DEF sum
    <3> QED
      BY <1>4, <2>1
  <2>3. sum[k - 1] \in Int
    BY <1>6
  <2>4. sum[k] \in Int
    <3>1. \A x, y \in Int : x + y \in Int
      OBVIOUS
    <3> HIDE DEF sum
    <3> QED
      BY <2>1, <2>2, <2>3, <3>1, Zenon
  <2> QED
    BY <2>1, <2>4
<1>7. sum[n] \in Int
  <2> HIDE DEF S
  <2>1. 0 .. n \subseteq S
    BY <1>1, <1>5, <1>6, UpTo
  <2> QED
    BY <1>1, <2>1 DEF S
<1> QED
  BY <1>7 DEF Total

LEMMA PlusType == \A p, q \in Ratio : Plus(p, q) \in Ratio
<1> SUFFICES ASSUME NEW a \in Int, NEW b \in Nat, NEW c \in Int, NEW d \in Nat,
                    b = 0 => a = 0, d = 0 => c = 0
             PROVE  <<a * d + c * b, b * d>> \in Ratio
  BY DEF Ratio, Plus
<1>1. a * d \in Int /\ c * b \in Int /\ b * d \in Nat
  OBVIOUS
<1>2. CASE b = 0 \/ d = 0
  <2>1. a * d = 0 /\ c * b = 0
    BY <1>2
  <2> QED
    BY <1>1, <2>1 DEF Ratio
<1>3. CASE b > 0 /\ d > 0
  <2>1. b * d > 0
    BY <1>3
  <2> QED
    BY <1>1, <2>1 DEF Ratio
<1> QED
  BY <1>2, <1>3

LEMMA TimesType == \A w \in Int, p \in Ratio : Times(w, p) \in Ratio
  BY DEF Times, Ratio

LEMMA CategoryType ==
  ASSUME NEW a, NEW b, IsFiniteSet(a), IsFiniteSet(b)
  PROVE  categoryScore(a, b) \in Ratio
<1>1. IsFiniteSet(a \cap b) /\ IsFiniteSet(a \cup b)
  BY FS_Intersection, FS_Union
<1>2. Cardinality(a \cap b) \in Nat /\ Cardinality(a \cup b) \in Nat
  BY <1>1, FS_CardinalityType
<1>3. a \cup b # {} => Cardinality(a \cup b) # 0
  BY <1>1, FS_EmptySet
<1> QED
  BY <1>2, <1>3 DEF categoryScore, Ratio, Zero

LEMMA RatingType ==
  ASSUME NEW d \in Int, d >= 0, NEW m \in Nat
  PROVE  ratingScore(d, m) \in Ratio
  BY DEF ratingScore, Ratio, Zero

LEMMA RatingPartType ==
  ASSUME NEW s, IsScoring(s.cfg), NEW l, IsLobby(l), NEW p, IsPlayer(p)
  PROVE  RatingPart(s, l, p) \in Ratio
<1>1. /\ Total(l.ratings) \in Int /\ Len(l.ratings) \in Nat \ {0}
      /\ p.rating \in Int /\ s.cfg.rating \in Int /\ s.cfg.maxDiff \in Nat
  BY TotalType DEF IsLobby, IsPlayer, IsScoring
<1>2. \A x, y \in Int : Distance(x, y) \in Int /\ Distance(x, y) >= 0
  BY DEF Distance
<1>3. AvgRating(l) \in Int
  BY <1>1 DEF AvgRating
<1>4. ratingScore(Distance(p.rating, AvgRating(l)), s.cfg.maxDiff) \in Ratio
  BY <1>1, <1>2, <1>3, RatingType
<1>5. TeamDistance(l, p) \in Int /\ TeamDistance(l, p) >= 0
  <2>1. p.rating * Len(l.ratings) \in Int
    BY <1>1
  <2> QED
    BY <1>1, <1>2, <2>1 DEF TeamDistance
<1>6. ratingScore(TeamDistance(l, p), Len(l.ratings) * s.cfg.maxDiff) \in Ratio
  <2>1. Len(l.ratings) * s.cfg.maxDiff \in Nat
    BY <1>1
  <2> QED
    BY <1>5, <2>1, RatingType
<1>7. <<1, 1>> \in Ratio
  BY DEF Ratio
<1> QED
  BY <1>1, <1>4, <1>6, <1>7, TimesType DEF RatingPart

LEMMA FillPartType ==
  ASSUME NEW s, IsScoring(s.cfg), NEW l, IsLobby(l)
  PROVE  FillPart(s, l) \in Ratio
<1>1. /\ Len(l.ratings) \in Nat /\ l.max \in Nat /\ l.waited \in Nat
      /\ s.cfg.fill \in Int
  BY DEF IsLobby, IsScoring
<1> DEFINE fill == fillScore(Len(l.ratings), l.max)
           young == IF l.waited < 10 THEN 10 - l.waited ELSE 0
<1>2. fill \in Ratio
  BY <1>1 DEF fillScore, Ratio, Zero
<1>3. young \in Int
  BY <1>1
<1>4. <<7 * fill[1], 10 * fill[2]>> \in Ratio
  <2> HIDE DEF fill
  <2> QED
    BY <1>2 DEF Ratio
<1>5. <<3 * young, 100>> \in Ratio
  <2> HIDE DEF young
  <2> QED
    BY <1>3 DEF Ratio
<1>6. /\ Times(s.cfg.fill, fill) \in Ratio
      /\ Times(s.cfg.fill, Plus(<<7 * fill[1], 10 * fill[2]>>, <<3 * young, 100>>)) \in Ratio
  <2> HIDE DEF fill, young
  <2> QED
    BY <1>1, <1>2, <1>4, <1>5, PlusType, TimesType
<1> QED
  BY <1>6 DEF FillPart

\* The score of a lobby is a number or NaN, never an infinity: the weights and
\* the bounds of a configuration are finite and no divisor but max_rating_diff
\* is 0 (helpers.go:5-23).
LEMMA ScoreType ==
  ASSUME NEW s, IsScoring(s.cfg), NEW l, IsLobby(l), NEW p, IsPlayer(p)
  PROVE  Score(s, l, p) \in Ratio
<1>1. CategoryPart(s, l, p) \in Ratio
  <2>1. categoryScore(p.cats, l.cats) \in Ratio
    BY CategoryType DEF IsLobby, IsPlayer
  <2> QED
    BY <2>1, TimesType DEF CategoryPart, IsScoring
<1>2. RatingPart(s, l, p) \in Ratio /\ FillPart(s, l) \in Ratio
  BY RatingPartType, FillPartType
<1>3. Plus(RatingPart(s, l, p), CategoryPart(s, l, p)) \in Ratio
  BY <1>1, <1>2, PlusType
<1>4. Plus(Plus(RatingPart(s, l, p), CategoryPart(s, l, p)), FillPart(s, l)) \in Ratio
  BY <1>2, <1>3, PlusType
<1> QED
  BY <1>2, <1>3, <1>4 DEF Score

-----------------------------------------------------------------------------
(* The loop of SelectBestLobby *)

\* The positions up to k whose score is a number.
Numbers(score, ids, k) == {i \in ids : i <= k /\ ~IsNaN(score[i])}

\* b is the first of the best of these positions, 0 if there are none.
IsFirstBest(score, real, b) ==
    IF real = {} THEN b = 0
    ELSE /\ b \in real
         /\ \A i \in real : ~Greater(score[i], score[b])
         /\ \A i \in real : i < b => Greater(score[b], score[i])

LEMMA GreaterTransitive ==
  ASSUME NEW p \in Ratio, NEW q \in Ratio, NEW r \in Ratio,
         ~IsNaN(p), ~IsNaN(q), ~IsNaN(r), Greater(p, q), ~Greater(r, q)
  PROVE  Greater(p, r)
<1> SUFFICES ASSUME NEW a \in Int, NEW b \in Nat, NEW c \in Int, NEW d \in Nat,
                    NEW e \in Int, NEW f \in Nat, b > 0, d > 0, f > 0,
                    a * d > c * b, e * d <= c * f
             PROVE  a * f > e * b
  BY DEF Ratio, IsNaN, Greater
<1>1. (a * d) * f > (c * b) * f
  BY SMTT(30)
<1>2. (e * d) * b <= (c * f) * b
  BY SMTT(30)
<1>3. (a * f) * d > (e * b) * d
  BY <1>1, <1>2, SMTT(30)
<1> QED
  BY <1>3, SMTT(30)

\* One more position, whose score is a number: the loop keeps the first of the
\* best.  NaN is not greater than anything.
LEMMA OneMore ==
  ASSUME NEW score, NEW real \in SUBSET Nat, NEW b, NEW k \in Nat,
         score[0] = MinusInf, score[k] \in Ratio, IsFirstBest(score, real, b),
         \A i \in real : i < k /\ score[i] \in Ratio /\ ~IsNaN(score[i])
  PROVE  /\ IsNaN(score[k]) => ~Greater(score[k], score[b])
         /\ ~IsNaN(score[k]) =>
              IsFirstBest(score, real \cup {k}, IF Greater(score[k], score[b]) THEN k ELSE b)
<1>1. IsNaN(score[k]) => ~Greater(score[k], score[b])
  <2> SUFFICES ASSUME NEW q, score[b] = q, score[k] = <<0, 0>>
               PROVE  ~Greater(score[k], q)
    BY DEF IsNaN
  <2>1. q[1] \in Int /\ q[2] \in Int
    <3>1. q = MinusInf \/ q \in Ratio
      BY DEF IsFirstBest
    <3> QED
      BY <3>1 DEF MinusInf, Ratio
  <2> QED
    BY <2>1 DEF Greater
<1>2. CASE ~IsNaN(score[k]) /\ real = {}
  <2>1. b = 0 /\ Greater(score[k], score[b])
    <3>1. PICK x \in Int, d \in Nat : score[k] = <<x, d>> /\ d > 0
      BY <1>2 DEF Ratio, IsNaN
    <3>2. b = 0 /\ score[b] = <<0 - 1, 0>>
      BY <1>2 DEF IsFirstBest, MinusInf
    <3>3. x * 0 > (0 - 1) * d
      BY <3>1
    <3> QED
      BY <3>1, <3>2, <3>3 DEF Greater
  <2>2. ~Greater(score[k], score[k])
    BY DEF Greater, Ratio
  <2>3. IsFirstBest(score, {k}, k)
    BY <2>2 DEF IsFirstBest
  <2> QED
    BY <1>2, <2>1, <2>3
<1>3. CASE ~IsNaN(score[k]) /\ real # {} /\ Greater(score[k], score[b])
  <2>1. ~Greater(score[k], score[k])
    BY DEF Greater, Ratio
  <2>2. ASSUME NEW i \in real
        PROVE  Greater(score[k], score[i]) /\ ~Greater(score[i], score[k])
    <3>1. Greater(score[k], score[i])
      BY <1>3, GreaterTransitive DEF IsFirstBest
    <3> QED
      BY <3>1 DEF Greater, Ratio
  <2> QED
    BY <1>3, <2>1, <2>2 DEF IsFirstBest
<1>4. CASE ~IsNaN(score[k]) /\ real # {} /\ ~Greater(score[k], score[b])
  <2>1. b \in real /\ b < k
    BY <1>4 DEF IsFirstBest
  <2> QED
    BY <1>4, <2>1 DEF IsFirstBest
<1> QED
  BY <1>1, <1>2, <1>3, <1>4

Keep(score, ids, k, b) == IF k \in ids /\ Greater(score[k], score[b]) THEN k ELSE b

LEMMA LoopRuns ==
  ASSUME NEW n \in Nat, NEW ids, NEW score
  PROVE  \E best : /\ FirstBest(score, ids, n) = best[n]
                   /\ best[0] = 0
                   /\ \A k \in 1 .. n : best[k] = Keep(score, ids, k, best[k - 1])
<1> DEFINE Best(f) == [k \in 0 .. n |->
                         IF k = 0 THEN 0
                         ELSE IF k \in ids /\ Greater(score[k], score[f[k - 1]]) THEN k
                         ELSE f[k - 1]]
           best == CHOOSE f : f = Best(f)
<1>1. PICK step \in [1 .. n -> [0 .. n -> 0 .. n]] :
        \A k \in 1 .. n, x \in 0 .. n : step[k][x] = Keep(score, ids, k, x)
  <2>1. [k \in 1 .. n |-> [x \in 0 .. n |-> Keep(score, ids, k, x)]]
          \in [1 .. n -> [0 .. n -> 0 .. n]]
    BY DEF Keep
  <2> QED
    BY <2>1
<1>2. PICK f \in [0 .. n -> 0 .. n] : Runs(f, 0, n, step)
  <2>1. 0 \in 0 .. n
    OBVIOUS
  <2> QED
    BY <2>1, Recursion
<1>3. f = Best(f)
  <2> SUFFICES ASSUME NEW k \in 0 .. n
               PROVE  f[k] = Best(f)[k]
    BY <1>2
  <2>1. CASE k = 0
    BY <1>2, <2>1 DEF Runs
  <2>2. CASE k # 0
    <3>1. k \in 1 .. n /\ k - 1 \in 0 .. n
      BY <2>2
    <3>2. f[k - 1] \in 0 .. n
      BY <1>2, <3>1
    <3> QED
      BY <1>1, <1>2, <2>2, <3>1, <3>2 DEF Runs, Keep
  <2> QED
    BY <2>1, <2>2
<1>4. best = Best(best)
  BY <1>3
<1>5. FirstBest(score, ids, n) = best[n]
  BY DEF FirstBest
<1> HIDE DEF best
<1>6. best[0] = 0
  BY <1>4
<1>7. ASSUME NEW k \in 1 .. n
      PROVE  best[k] = Keep(score, ids, k, best[k - 1])
  <2>1. k \in 0 .. n /\ k # 0
    OBVIOUS
  <2> QED
    BY <1>4, <2>1 DEF Keep
<1> QED
  BY <1>5, <1>6, <1>7

LEMMA FirstBestFound ==
  ASSUME NEW n \in Nat, NEW ids \in SUBSET (1 .. n), NEW score,
         score[0] = MinusInf, \A i \in 1 .. n : score[i] \in Ratio
  PROVE  IsFirstBest(score, {i \in ids : ~IsNaN(score[i])}, FirstBest(score, ids, n))
<1>1. PICK best : /\ FirstBest(score, ids, n) = best[n]
                  /\ best[0] = 0
                  /\ \A k \in 1 .. n : best[k] = Keep(score, ids, k, best[k - 1])
  BY LoopRuns
<1> DEFINE S == {k \in 0 .. n : IsFirstBest(score, Numbers(score, ids, k), best[k])}
<1>2. \A i \in ids : i \in Int /\ 1 <= i /\ i <= n
  OBVIOUS
<1>3. 0 \in S
  <2>1. Numbers(score, ids, 0) = {}
    <3>1. \A i \in ids : ~(i <= 0)
      BY <1>2
    <3> QED
      BY <3>1 DEF Numbers
  <2> QED
    BY <1>1, <2>1 DEF IsFirstBest
<1>4. ASSUME NEW k \in 1 .. n, k - 1 \in S
      PROVE  k \in S
  <2> DEFINE real == Numbers(score, ids, k - 1)
             b == best[k - 1]
  <2>1. IsFirstBest(score, real, b) /\ score[k] \in Ratio /\ k \in Nat
    BY <1>4
  <2>2. best[k] = IF k \in ids /\ Greater(score[k], score[b]) THEN k ELSE b
    BY <1>1 DEF Keep
  <2>3. /\ real \in SUBSET Nat
        /\ \A i \in real : i < k /\ score[i] \in Ratio /\ ~IsNaN(score[i])
    <3> SUFFICES ASSUME NEW i \in real
                 PROVE  i \in Nat /\ i < k /\ score[i] \in Ratio /\ ~IsNaN(score[i])
      OBVIOUS
    <3>1. i \in ids /\ i <= k - 1 /\ ~IsNaN(score[i])
      BY DEF Numbers
    <3> QED
      BY <1>2, <3>1
  <2>4. Numbers(score, ids, k) =
          IF k \in ids /\ ~IsNaN(score[k]) THEN real \cup {k} ELSE real
    <3>1. \A i \in ids : i <= k <=> i <= k - 1 \/ i = k
      BY <1>2
    <3> QED
      BY <3>1 DEF Numbers
  <2> HIDE DEF b, real
  <2>5. /\ IsNaN(score[k]) => ~Greater(score[k], score[b])
        /\ ~IsNaN(score[k]) =>
             IsFirstBest(score, real \cup {k}, IF Greater(score[k], score[b]) THEN k ELSE b)
    BY <2>1, <2>3, OneMore
  <2>6. IsFirstBest(score, Numbers(score, ids, k), best[k])
    BY <2>1, <2>2, <2>4, <2>5
  <2> QED
    BY <2>6
<1>5. IsFirstBest(score, Numbers(score, ids, n), best[n])
  <2> HIDE DEF S
  <2>1. 0 .. n \subseteq S
    BY <1>3, <1>4, UpTo
  <2>2. n \in S
    BY <2>1
  <2> QED
    BY <2>2 DEF S
<1>6. Numbers(score, ids, n) = {i \in ids : ~IsNaN(score[i])}
  BY <1>2 DEF Numbers
<1> QED
  BY <1>1, <1>5, <1>6

\* What SelectBestLobby returns, for any lobbies in any number: none if no
\* candidate has a score that is a number, else the candidate that comes first
\* among those with the highest (matcher.go:36-54).
THEOREM SelectsFirstBest ==
  ASSUME NEW s, IsScoring(s.cfg), NEW p, IsPlayer(p),
         NEW lobbies, Len(lobbies) \in Nat, NEW ids \in SUBSET (1 .. Len(lobbies)),
         \A i \in 1 .. Len(lobbies) : IsLobby(lobbies[i])
  PROVE  LET score(i) == Score(s, lobbies[i], p)
             real == {i \in ids : ~IsNaN(score(i))}
             best == SelectBestLobby(s, lobbies, ids, p)
         IN  IF real = {} THEN best = 0
             ELSE /\ best \in real
                  /\ \A i \in real : ~Greater(score(i), score(best))
                  /\ \A i \in real : i < best => Greater(score(best), score(i))
<1> DEFINE n == Len(lobbies)
           score == [i \in 0 .. n |-> IF i = 0 THEN MinusInf ELSE Score(s, lobbies[i], p)]
           real == {i \in ids : ~IsNaN(score[i])}
           best == FirstBest(score, ids, n)
<1>1. \A i \in 1 .. n : score[i] = Score(s, lobbies[i], p)
  OBVIOUS
<1>2. \A i \in 1 .. n : score[i] \in Ratio
  BY <1>1, ScoreType
<1>3. score[0] = MinusInf
  OBVIOUS
<1>4. SelectBestLobby(s, lobbies, ids, p) = best
  BY DEF SelectBestLobby
<1>5. IsFirstBest(score, real, best)
  <2> HIDE DEF score, n
  <2>1. n \in Nat /\ ids \in SUBSET (1 .. n)
    BY DEF n
  <2> QED
    BY <1>2, <1>3, <2>1, FirstBestFound
<1>6. real = {i \in ids : ~IsNaN(Score(s, lobbies[i], p))}
  BY <1>1
<1> HIDE DEF score, best
<1> QED
  BY <1>1, <1>4, <1>5, <1>6 DEF IsFirstBest
=============================================================================
