------------------------------- MODULE Scoring -------------------------------
(***************************************************************************)
(* internal/models/matcher: the scorers that filter and rank lobbies.      *)
(*                                                                         *)
(* A float64 is an exact ratio <<n, d>>, d >= 0: its rounding is left out, *)
(* its NaN is not.  0/0 is NaN, which propagates through sums and products *)
(* and is neither greater nor less than anything.  Weights are in tenths,  *)
(* which scales every score alike.  A lobby, as far as scores can tell, is *)
(* [ratings, cats, max, waited]: its players' ratings, its categories, its *)
(* maximum, and the minutes since it was made; a player is [rating, cats]. *)
(* A scoring configuration is [rating, category, fill, maxDiff, minMatch], *)
(* three weights and two bounds.                                           *)
(***************************************************************************)
EXTENDS Integers, Sequences, FiniteSets

\* The values a score can have: a number, or NaN.
Ratio == {q \in Int \X Nat : q[2] = 0 => q[1] = 0}

\* What is scored: a stored lobby has the player who made it.
IsPlayer(p) == p.rating \in Int /\ IsFiniteSet(p.cats)
IsLobby(l) ==
    /\ l.ratings \in Seq(Int) \ {<<>>}
    /\ IsFiniteSet(l.cats)
    /\ l.max \in Nat /\ l.waited \in Nat

\* A negative max_rating_diff, which no comment of config.go allows for, is
\* left out.
IsScoring(cfg) ==
    /\ cfg.rating \in Int /\ cfg.category \in Int /\ cfg.fill \in Int
    /\ cfg.maxDiff \in Nat /\ cfg.minMatch \in Ratio

Plus(p, q) == <<p[1] * q[2] + q[1] * p[2], p[2] * q[2]>>
Times(w, p) == <<w * p[1], p[2]>>

\* Mutant: the comparison of matcher.go:48 with >=.
AtLeast(p, q) == p[1] * q[2] >= q[1] * p[2]

Greater(p, q) == p[1] * q[2] > q[1] * p[2]

Zero == <<0, 1>>
MinusInf == <<0 - 1, 0>>
IsNaN(p) == p = <<0, 0>>

Distance(a, b) == IF a > b THEN a - b ELSE b - a

-----------------------------------------------------------------------------
(* helpers.go and models.go *)

\* With maxDiff = 0 the score of an equal rating is NaN, of any other 0.
ratingScore(diff, maxDiff) ==
    IF diff > maxDiff THEN Zero ELSE <<maxDiff - diff, maxDiff>>

categoryScore(a, b) ==
    IF a \cup b = {} THEN Zero ELSE <<Cardinality(a \cap b), Cardinality(a \cup b)>>

fillScore(count, max) == IF max = 0 THEN Zero ELSE <<count, max>>

Total(ratings) ==
    LET sum[n \in 0 .. Len(ratings)] == IF n = 0 THEN 0 ELSE sum[n - 1] + ratings[n]
    IN  sum[Len(ratings)]

\* countAvgRating, which truncates towards 0; TeamScorer's own average does not.
AvgRating(l) ==
    LET n == Len(l.ratings)
    IN  IF Total(l.ratings) < 0 THEN 0 - ((0 - Total(l.ratings)) \div n)
        ELSE Total(l.ratings) \div n

-----------------------------------------------------------------------------
(* The scorers *)

Kinds == {"duel", "battle", "classic", "mega", "team", "blitz"}

DefaultScorer(cfg) == [kind |-> "default", cfg |-> cfg]

newScorer(mode, cfg) ==
    IF mode \in Kinds THEN [kind |-> mode, cfg |-> cfg] ELSE DefaultScorer(cfg)

\* |rating - average of the team| times its size.
TeamDistance(l, p) == Distance(p.rating * Len(l.ratings), Total(l.ratings))

Filter(s, l, p) ==
    \/ s.kind \in {"duel", "battle", "mega"}
    \/ /\ ~Greater(s.cfg.minMatch, categoryScore(p.cats, l.cats))
       /\ (s.kind = "team" /\ l.ratings # <<>>) =>
              2 * TeamDistance(l, p) <= 3 * Len(l.ratings) * s.cfg.maxDiff

RatingPart(s, l, p) ==
    Times(s.cfg.rating,
          IF s.kind # "team" THEN ratingScore(Distance(p.rating, AvgRating(l)), s.cfg.maxDiff)
          ELSE IF l.ratings = <<>> THEN <<1, 1>>
          ELSE ratingScore(TeamDistance(l, p), Len(l.ratings) * s.cfg.maxDiff))

CategoryPart(s, l, p) == Times(s.cfg.category, categoryScore(p.cats, l.cats))

\* A blitz lobby earns three tenths of it by being young.
FillPart(s, l) ==
    LET fill == fillScore(Len(l.ratings), l.max)
        young == IF l.waited < 10 THEN 10 - l.waited ELSE 0
    IN  IF s.kind = "blitz"
        THEN Times(s.cfg.fill, Plus(<<7 * fill[1], 10 * fill[2]>>, <<3 * young, 100>>))
        ELSE Times(s.cfg.fill, fill)

Score(s, l, p) ==
    CASE s.kind = "mega" -> FillPart(s, l)
      [] s.kind \in {"duel", "battle"} -> Plus(RatingPart(s, l, p), CategoryPart(s, l, p))
      [] OTHER -> Plus(Plus(RatingPart(s, l, p), CategoryPart(s, l, p)), FillPart(s, l))

-----------------------------------------------------------------------------
(* matchmaking/matcher.go, for sets of positions in a sequence of lobbies: the
   slices keep that order.                                                 *)

FilterLobbies(s, lobbies, ids, p) == {i \in ids : Filter(s, lobbies[i], p)}

\* The loop of SelectBestLobby over the positions up to n, score[0] being what
\* it starts with: it keeps the first of the best, or 0.
FirstBest(score, ids, n) ==
    LET best[k \in 0 .. n] ==
            IF k = 0 THEN 0
            ELSE IF k \in ids /\ Greater(score[k], score[best[k - 1]]) THEN k
            ELSE best[k - 1]
    IN  best[n]

SelectBestLobby(s, lobbies, ids, p) ==
    FirstBest([i \in 0 .. Len(lobbies) |->
                   IF i = 0 THEN MinusInf ELSE Score(s, lobbies[i], p)],
              ids, Len(lobbies))
=============================================================================
