--------------------------- MODULE MatchmakingProofs ---------------------------
(***************************************************************************)
(* The attempt loop and the table it shares with the other calls, for any  *)
(* number of calls, modes, configurations and reloads.                     *)
(***************************************************************************)
EXTENDS Matchmaking, ScoringProofs

-----------------------------------------------------------------------------
(* A loaded configuration stays in force *)

TableInv ==
    /\ scorers = [m \in Mode |-> scorers[m]]
    /\ latest \in Config \cup {None}
    /\ ReloadSticks

\* A configured mode has a scorer, and so has one that takes the fallback.
LEMMA NewScorerType ==
  /\ \A f \in Config : \A m \in DOMAIN f : newScorer(m, f[m]) \in Scorer
  /\ \A cfg \in Scorings : DefaultScorer(cfg) \in Scorer
<1>1. \A f \in Config : \A m \in DOMAIN f : f[m] \in Scorings
  BY DEF Scorings
<1>2. ASSUME NEW m, NEW cfg \in Scorings
      PROVE  newScorer(m, cfg) \in Scorer /\ DefaultScorer(cfg) \in Scorer
  BY DEF newScorer, DefaultScorer, Scorer
<1> QED
  BY <1>1, <1>2

\* Outside a reload the table changes only where it has no scorer.
LEMMA TableSteps ==
  ASSUME [Next]_vars
  PROVE  \/ \E new \in Config : UpdateConfig(new) /\ latest' = new
         \/ /\ latest' = latest
            /\ \/ scorers' = scorers
               \/ \E m, s : scorers[m] = None /\ scorers' = [scorers EXCEPT ![m] = s]
<1>1. ASSUME NEW c \in Call, NEW s, UseScorer(c, s)
      PROVE  latest' = latest
  BY <1>1 DEF UseScorer, FilterWith, SelectWith
<1>2. ASSUME NEW c \in Call, Begin(c) \/ Attempt(c) \/ Seated(c) \/ Refused(c)
      PROVE  latest' = latest /\ scorers' = scorers
  BY <1>2 DEF Begin, Attempt, Seated, Refused, shared
<1>3. ASSUME NEW c \in Call, LookUp(c)
      PROVE  latest' = latest /\ scorers' = scorers
  BY <1>1, <1>3 DEF LookUp, shared
<1>4. ASSUME NEW c \in Call, Fill(c)
      PROVE  /\ latest' = latest
             /\ \/ scorers' = scorers
                \/ \E m, s : scorers[m] = None /\ scorers' = [scorers EXCEPT ![m] = s]
  BY <1>1, <1>4 DEF Fill
<1>5. CASE ReloadMatcher
  BY <1>5 DEF ReloadMatcher
<1>6. CASE ReloadHandler \/ UNCHANGED vars
  BY <1>6 DEF ReloadHandler, vars, shared
<1> QED
  BY <1>2, <1>3, <1>4, <1>5, <1>6 DEF Next, CallStep

LEMMA TableInvNext == TableInv /\ [Next]_vars => TableInv'
<1> SUFFICES ASSUME TableInv, [Next]_vars
             PROVE  TableInv'
  OBVIOUS
<1> USE DEF TableInv, ReloadSticks
<1>1. ASSUME NEW new \in Config, UpdateConfig(new), latest' = new
      PROVE  TableInv'
  <2>1. \A m \in DOMAIN new : m \in Mode
    BY ConfigAssumption
  <2> QED
    BY <1>1, <2>1 DEF UpdateConfig
<1>2. CASE latest' = latest /\ scorers' = scorers
  BY <1>2
<1>3. ASSUME latest' = latest, NEW k, NEW s,
             scorers[k] = None, scorers' = [scorers EXCEPT ![k] = s]
      PROVE  TableInv'
  <2>1. scorers' = [m \in Mode |-> scorers'[m]]
    BY <1>3
  <2>2. ASSUME latest # None, NEW m \in DOMAIN latest
        PROVE  scorers'[m] = newScorer(m, latest[m])
    <3>1. m \in Mode /\ scorers[m] = newScorer(m, latest[m])
      BY <2>2, ConfigAssumption
    <3>2. m # k
      BY <1>3, <2>2, <3>1, NewScorerType, NoneAssumption
    <3> QED
      BY <1>3, <3>1, <3>2
  <2> QED
    BY <1>3, <2>1, <2>2
<1> QED
  BY <1>1, <1>2, <1>3, TableSteps

\* A configuration that has been loaded stays in force until the next one:
\* a call that found no scorer before the reload finds one when it looks again
\* under the write lock (scorer.go:62-71).
THEOREM ReloadsStick == Spec => []ReloadSticks
<1>1. Init => TableInv
  BY DEF Init, TableInv, ReloadSticks
<1>2. TableInv => ReloadSticks
  BY DEF TableInv
<1> QED
  BY <1>1, TableInvNext, <1>2, PTL DEF Spec

-----------------------------------------------------------------------------
(* No call gives up early *)

TriesInv ==
    /\ limit \in Nat
    /\ attempt \in [Call -> Nat]
    /\ pc \in [Call -> PCs]
    /\ DOMAIN offer = Call
    /\ DOMAIN excluded = Call
    /\ TriesTwiceAtLeast

\* A call is as it was, or it counts an attempt and is not done, or it ends
\* its loop.
Rests(c) ==
  /\ pc'[c] = "create" => pc[c] = "create"
  /\ pc[c] = "create" => /\ attempt'[c] = attempt[c]
                         /\ offer'[c] = offer[c] /\ excluded'[c] = excluded[c]

LEMMA CallSources ==
  ASSUME TriesInv, [Next]_vars, NEW d \in Call
  PROVE  Rests(d) \/ Attempt(d)
<1> USE DEF TriesInv, PCs, Rests, shared, request, loop
<1>1. ASSUME NEW c \in Call, NEW s, UseScorer(c, s)
      PROVE  Rests(d)
  BY <1>1 DEF UseScorer, FilterWith, SelectWith, NextAttempt
<1>2. ASSUME NEW c \in Call, Begin(c) \/ Seated(c) \/ Refused(c)
      PROVE  Rests(d)
  BY <1>2 DEF Begin, Seated, Refused, NextAttempt
<1>3. ASSUME NEW c \in Call, Attempt(c), c # d
      PROVE  Rests(d)
  BY <1>3 DEF Attempt
<1>4. ASSUME NEW c \in Call, LookUp(c) \/ Fill(c)
      PROVE  Rests(d)
  BY <1>1, <1>4 DEF LookUp, Fill
<1>5. CASE ReloadMatcher \/ ReloadHandler \/ UNCHANGED vars
  BY <1>5 DEF ReloadMatcher, ReloadHandler, vars
<1> QED
  BY <1>2, <1>3, <1>4, <1>5 DEF Next, CallStep

LEMMA TriesTypes ==
  ASSUME TriesInv, [Next]_vars
  PROVE  /\ limit' \in Nat
         /\ attempt' \in [Call -> Nat]
         /\ pc' \in [Call -> PCs]
         /\ DOMAIN offer' = Call
         /\ DOMAIN excluded' = Call
<1> DEFINE Types == /\ limit' \in Nat
                    /\ attempt' \in [Call -> Nat]
                    /\ pc' \in [Call -> PCs]
                    /\ DOMAIN offer' = Call
                    /\ DOMAIN excluded' = Call
<1> USE DEF TriesInv, PCs, shared, request, loop
<1>1. ASSUME NEW c \in Call, NEW s, UseScorer(c, s), limit' = limit
      PROVE  Types
  <2>1. CASE FilterWith(c, s)
    <3>1. \/ NextAttempt(c) /\ excluded' = excluded
          \/ pc' = [pc EXCEPT ![c] = "select"] /\ UNCHANGED <<excluded, attempt>>
      BY <2>1 DEF FilterWith
    <3>2. offer' = offer
      BY <2>1 DEF FilterWith
    <3>3. CASE NextAttempt(c) /\ excluded' = excluded
      BY <1>1, <3>2, <3>3 DEF NextAttempt
    <3>4. CASE pc' = [pc EXCEPT ![c] = "select"] /\ UNCHANGED <<excluded, attempt>>
      BY <1>1, <3>2, <3>4
    <3> QED
      BY <3>1, <3>3, <3>4
  <2>2. CASE SelectWith(c, s)
    BY <1>1, <2>2 DEF SelectWith, NextAttempt
  <2> QED
    BY <1>1, <2>1, <2>2 DEF UseScorer
<1>2. ASSUME NEW c \in Call, Begin(c)
      PROVE  Types
  <2>1. PICK o \in Offer : offer' = [offer EXCEPT ![c] = o]
    BY <1>2 DEF Begin
  <2> QED
    BY <1>2, <2>1 DEF Begin
<1>6. ASSUME NEW c \in Call, Seated(c) \/ Refused(c)
      PROVE  Types
  BY <1>6 DEF Seated, Refused, NextAttempt
<1>3. ASSUME NEW c \in Call, Attempt(c)
      PROVE  Types
  BY <1>3 DEF Attempt, MaxAttempts
<1>4. ASSUME NEW c \in Call, LookUp(c) \/ Fill(c)
      PROVE  Types
  BY <1>1, <1>4 DEF LookUp, Fill
<1>5. CASE ReloadMatcher \/ ReloadHandler \/ UNCHANGED vars
  BY <1>5, LimitAssumption DEF ReloadMatcher, ReloadHandler, vars
<1> QED
  BY <1>2, <1>3, <1>4, <1>5, <1>6 DEF Next, CallStep

LEMMA TriesInvNext == TriesInv /\ [Next]_vars => TriesInv'
<1> SUFFICES ASSUME TriesInv, [Next]_vars, NEW d \in Call, pc'[d] = "create"
             PROVE  attempt'[d] >= 2 \/ Remaining(d)' = {}
  BY TriesTypes DEF TriesInv, TriesTwiceAtLeast
<1>1. CASE Rests(d)
  <2>1. pc[d] = "create" /\ attempt'[d] = attempt[d]
    BY <1>1 DEF Rests
  <2>2. Remaining(d)' = Remaining(d)
    BY <1>1, <2>1 DEF Rests, Remaining
  <2> QED
    BY <2>1, <2>2 DEF TriesInv, TriesTwiceAtLeast
<1>2. CASE Attempt(d)
  <2>1. offer'[d] = offer[d] /\ excluded'[d] = excluded[d] /\ attempt'[d] = attempt[d]
    BY <1>2 DEF Attempt, request, loop
  <2>2. Remaining(d)' = Remaining(d)
    BY <2>1 DEF Remaining
  <2>3. ~(attempt[d] < MaxAttempts) \/ Remaining(d) = {}
    BY <1>2 DEF Attempt, TriesInv
  <2> QED
    BY <2>1, <2>2, <2>3 DEF TriesInv, MaxAttempts
<1> QED
  BY <1>1, <1>2, CallSources

\* Whatever limit is configured, and whenever it is reloaded, a call that makes
\* a lobby of its own has been refused by all it found or has tried twice
\* (handler.go:99, handler/config.go:47-54).
THEOREM NobodyGivesUpEarly == Spec => []TriesTwiceAtLeast
<1>1. Init => TriesInv
  BY LimitAssumption DEF Init, TriesInv, PCs, TriesTwiceAtLeast
<1>2. TriesInv => TriesTwiceAtLeast
  BY DEF TriesInv
<1> QED
  BY <1>1, TriesInvNext, <1>2, PTL DEF Spec

-----------------------------------------------------------------------------
(* What a call knows of its offer, and who scored it *)

TableType ==
    /\ config = [m \in DOMAIN config |-> config[m]]
    /\ DOMAIN config \subseteq Mode
    /\ \A m \in DOMAIN config : config[m] \in Scorings
    /\ scorers \in [Mode -> Scorer \cup {None}]

LocalTypes ==
    /\ pc \in [Call -> PCs]
    /\ mode \in [Call -> Mode \cup {None}]
    /\ offer \in [Call -> Offer \cup {None}]
    /\ excluded \in [Call -> SUBSET Nat]
    /\ candidates \in [Call -> SUBSET Nat]
    /\ selected \in [Call -> Nat]
    /\ asked \in [Call -> Seq(Nat)]
    /\ DOMAIN filterer = Call
    /\ DOMAIN since = Call
    /\ DOMAIN attempt = Call

\* A call asks only candidates, none of which has refused it; whom it has asked
\* has refused it, but for the lobby it is asking or has joined.
AskInv(c) ==
    /\ pc[c] = "idle" => excluded[c] = {} /\ candidates[c] = {}
    /\ pc[c] # "idle" =>
         /\ mode[c] \in Mode /\ offer[c] \in Offer
         /\ excluded[c] \subseteq DOMAIN offer[c].lobbies
         /\ candidates[c] \subseteq Remaining(c)
    /\ pc[c] \in {"select", "select_fill", "join"} => candidates[c] # {}
    /\ pc[c] \in {"join", "joined"} <=> selected[c] # 0
    /\ selected[c] # 0 => selected[c] \in candidates[c]
    /\ \A i \in DOMAIN asked[c] :
         asked[c][i] \in excluded[c] \/ asked[c][i] = selected[c]
    /\ \A i \in DOMAIN asked[c] : asked[c][i] # 0
    /\ \A i, j \in DOMAIN asked[c] : asked[c][i] = asked[c][j] => i = j

\* Between filtering and selecting the table keeps the scorer that filtered.
FiltererInv(c) ==
    pc[c] \in {"select", "select_fill"} /\ ~since[c] =>
        filterer[c] # None /\ scorers[mode[c]] = filterer[c]

CallInv(c) == AskInv(c) /\ FiltererInv(c)

MatchInv == TableType /\ LocalTypes /\ \A c \in Call : CallInv(c)

LEMMA MatchInvInit == Init => MatchInv
<1> SUFFICES ASSUME Init
             PROVE  MatchInv
  OBVIOUS
<1>1. TableType
  <2>1. config \in Config /\ scorers = [m \in Mode |-> None]
    BY DEF Init
  <2>2. \A m \in DOMAIN config : config[m] \in Scorings
    BY <2>1 DEF Scorings
  <2> QED
    BY <2>1, <2>2, ConfigAssumption DEF TableType
<1>2. LocalTypes
  BY DEF Init, LocalTypes, PCs
<1>3. ASSUME NEW c \in Call
      PROVE  CallInv(c)
  BY DEF Init, CallInv, AskInv, FiltererInv
<1> QED
  BY <1>1, <1>2, <1>3 DEF MatchInv

LEMMA FallbackIsOne == FallbackScoring \in Scorings
  BY DEF Scorings

LEMMA GetConfigType ==
  ASSUME TableType, NEW m
  PROVE  GetConfig(m) \in Scorings
  BY FallbackIsOne DEF TableType, GetConfig

LEMMA TableTypeNext ==
  ASSUME MatchInv, [Next]_vars
  PROVE  TableType'
<1> USE DEF MatchInv, TableType
<1>1. CASE config' = config /\ scorers' = scorers
  BY <1>1
<1>2. ASSUME NEW new \in Config, UpdateConfig(new)
      PROVE  TableType'
  <2>1. config' = new /\ \A m \in DOMAIN new : new[m] \in Scorings
    BY <1>2 DEF UpdateConfig, Scorings
  <2>2. scorers' \in [Mode -> Scorer \cup {None}]
    BY <1>2, NewScorerType DEF UpdateConfig
  <2> QED
    BY <2>1, <2>2, ConfigAssumption
<1>3. ASSUME NEW m \in Mode, Remember(m),
             scorers' = [scorers EXCEPT ![m] = DefaultScorer(GetConfig(m))]
      PROVE  TableType'
  <2>1. /\ config' = [k \in DOMAIN config' |-> config'[k]]
        /\ DOMAIN config' \subseteq Mode
        /\ \A k \in DOMAIN config' : config'[k] = GetConfig(k)
    BY <1>3 DEF Remember
  <2>2. \A k : GetConfig(k) \in Scorings
    BY GetConfigType
  <2>3. DefaultScorer(GetConfig(m)) \in Scorer
    BY <2>2, NewScorerType
  <2> QED
    BY <1>3, <2>1, <2>2, <2>3
<1>4. ASSUME NEW c \in Call, Fill(c)
      PROVE  TableType'
  <2>1. mode[c] \in Mode
    BY <1>4 DEF Fill, CallInv, AskInv
  <2> QED
    BY <1>1, <1>3, <1>4, <2>1 DEF Fill
<1>5. ASSUME NEW c \in Call, Begin(c) \/ Attempt(c) \/ LookUp(c) \/ Seated(c) \/ Refused(c)
      PROVE  config' = config /\ scorers' = scorers
  BY <1>5 DEF Begin, Attempt, LookUp, Seated, Refused, shared
<1>6. CASE ReloadMatcher
  BY <1>2, <1>6 DEF ReloadMatcher
<1>7. CASE ReloadHandler \/ UNCHANGED vars
  BY <1>1, <1>7 DEF ReloadHandler, vars, shared
<1> QED
  BY <1>1, <1>4, <1>5, <1>6, <1>7 DEF Next, CallStep

\* An offer is scored as SelectsFirstBest wants it.
LEMMA OfferType ==
  ASSUME NEW o \in Offer
  PROVE  /\ IsPlayer(o.player)
         /\ Len(o.lobbies) \in Nat
         /\ DOMAIN o.lobbies = 1 .. Len(o.lobbies)
         /\ \A i \in 1 .. Len(o.lobbies) : IsLobby(o.lobbies[i])
<1>1. DOMAIN o.lobbies = 1 .. Len(o.lobbies)
  BY OfferAssumption
<1> QED
  BY <1>1, OfferAssumption

\* best is the first of the best candidates of c by the scorer s.
PicksBy(c, s, best) ==
    LET score(i) == Score(s, offer[c].lobbies[i], offer[c].player)
        real == {i \in candidates[c] : ~IsNaN(score(i))}
    IN  IF real = {} THEN best = 0
        ELSE /\ best \in real
             /\ \A i \in real : ~Greater(score(i), score(best))
             /\ \A i \in real : i < best => Greater(score(best), score(i))

LEMMA PicksByScorer ==
  ASSUME MatchInv, NEW c \in Call, pc[c] # "idle", NEW s \in Scorer
  PROVE  PicksBy(c, s, SelectBestLobby(s, offer[c].lobbies, candidates[c], offer[c].player))
<1>1. offer[c] \in Offer /\ candidates[c] \subseteq DOMAIN offer[c].lobbies
  BY DEF MatchInv, CallInv, AskInv, Remaining
<1>2. IsScoring(s.cfg)
  BY ConfigAssumption DEF Scorer
<1>3. /\ IsPlayer(offer[c].player)
      /\ Len(offer[c].lobbies) \in Nat
      /\ candidates[c] \in SUBSET (1 .. Len(offer[c].lobbies))
      /\ \A i \in 1 .. Len(offer[c].lobbies) : IsLobby(offer[c].lobbies[i])
  BY <1>1, OfferType
<1> QED
  BY <1>2, <1>3, SelectsFirstBest DEF PicksBy

-----------------------------------------------------------------------------
(* What a step means to a call *)

Locals(d) == <<pc[d], mode[d], offer[d], excluded[d], candidates[d], selected[d],
               asked[d], filterer[d]>>

\* Somebody else's step: a scorer that is in the table stays there, or it was
\* replaced by a reload.
Kept(d) ==
    /\ Locals(d)' = Locals(d)
    /\ \/ since'[d] = TRUE
       \/ /\ since'[d] = since[d]
          /\ \A m \in Mode : scorers[m] # None => scorers'[m] = scorers[m]

\* d filters or selects with the scorer that the table now has for its mode.
Uses(d, s) ==
    /\ UseScorer(d, s)
    /\ s \in Scorer
    /\ s = scorers'[mode[d]]
    /\ scorers[mode[d]] # None => s = scorers[mode[d]]

Misses(d) ==
    /\ pc[d] \in {"filter", "select"}
    /\ pc' = [pc EXCEPT ![d] = IF @ = "filter" THEN "filter_fill" ELSE "select_fill"]
    /\ UNCHANGED <<request, loop, latest, asked, filterer, since, scorers>>

LEMMA UseIsLocal ==
  ASSUME LocalTypes, NEW d \in Call, NEW c \in Call, c # d, NEW s, UseScorer(c, s)
  PROVE  Locals(d)' = Locals(d) /\ since'[d] = since[d]
<1> USE DEF LocalTypes, Locals, request
<1>1. CASE FilterWith(c, s)
  <2>1. CASE NextAttempt(c) /\ excluded' = excluded
    BY <1>1, <2>1 DEF FilterWith, NextAttempt
  <2>2. CASE /\ \E kept : candidates' = [candidates EXCEPT ![c] = kept]
             /\ pc' = [pc EXCEPT ![c] = "select"]
             /\ UNCHANGED <<excluded, attempt, selected>>
    BY <1>1, <2>2 DEF FilterWith
  <2> QED
    BY <1>1, <2>1, <2>2 DEF FilterWith
<1>2. CASE SelectWith(c, s)
  <2>1. CASE NextAttempt(c) /\ excluded' = excluded /\ asked' = asked
    BY <1>2, <2>1 DEF SelectWith, NextAttempt
  <2>2. CASE \E best : /\ selected' = [selected EXCEPT ![c] = best]
                       /\ asked' = [asked EXCEPT ![c] = Append(@, best)]
                       /\ pc' = [pc EXCEPT ![c] = "join"]
                       /\ UNCHANGED <<excluded, attempt, candidates>>
    BY <1>2, <2>2 DEF SelectWith
  <2> QED
    BY <1>2, <2>1, <2>2 DEF SelectWith
<1> QED
  BY <1>1, <1>2 DEF UseScorer

LEMMA LookUpUses ==
  ASSUME MatchInv, NEW c \in Call, LookUp(c)
  PROVE  Misses(c) \/ Uses(c, scorers[mode[c]])
<1>1. mode[c] \in Mode
  BY DEF LookUp, MatchInv, CallInv, AskInv
<1>2. scorers[mode[c]] # None => scorers[mode[c]] \in Scorer
  BY <1>1 DEF MatchInv, TableType
<1> QED
  BY <1>2 DEF LookUp, Misses, Uses, shared

LEMMA FillUses ==
  ASSUME MatchInv, NEW c \in Call, Fill(c)
  PROVE  /\ \E s : Uses(c, s)
         /\ \A m \in Mode : scorers[m] # None => scorers'[m] = scorers[m]
<1> USE DEF MatchInv
<1>1. mode[c] \in Mode
  BY DEF Fill, CallInv, AskInv
<1>2. DefaultScorer(GetConfig(mode[c])) \in Scorer
  BY GetConfigType, NewScorerType
<1>3. CASE /\ scorers[mode[c]] # None
           /\ UseScorer(c, scorers[mode[c]])
           /\ scorers' = scorers
  <2>1. Uses(c, scorers[mode[c]])
    BY <1>1, <1>3 DEF Uses, TableType
  <2> QED
    BY <1>3, <2>1
<1>4. CASE /\ scorers[mode[c]] = None
           /\ UseScorer(c, DefaultScorer(GetConfig(mode[c])))
           /\ scorers' = [scorers EXCEPT ![mode[c]] = DefaultScorer(GetConfig(mode[c]))]
  <2>1. scorers'[mode[c]] = DefaultScorer(GetConfig(mode[c]))
    BY <1>1, <1>4 DEF TableType
  <2>2. Uses(c, DefaultScorer(GetConfig(mode[c])))
    BY <1>2, <1>4, <2>1 DEF Uses
  <2>3. \A m \in Mode : scorers[m] # None => scorers'[m] = scorers[m]
    BY <1>4 DEF TableType
  <2> QED
    BY <2>2, <2>3
<1> QED
  BY <1>3, <1>4 DEF Fill

LEMMA MatchSteps ==
  ASSUME MatchInv, [Next]_vars, NEW d \in Call
  PROVE  \/ Kept(d)
         \/ Begin(d) \/ Attempt(d) \/ Seated(d) \/ Refused(d) \/ Misses(d)
         \/ \E s : Uses(d, s)
<1> USE DEF MatchInv
<1>1. ASSUME NEW c \in Call, c # d, Begin(c) \/ Attempt(c) \/ Seated(c) \/ Refused(c)
      PROVE  Kept(d)
  <2> USE DEF LocalTypes, Kept, Locals, shared, request, loop
  <2>1. CASE Begin(c)
    BY <1>1, <2>1 DEF Begin
  <2>2. CASE Attempt(c)
    BY <1>1, <2>2 DEF Attempt
  <2>3. CASE Seated(c)
    BY <1>1, <2>3 DEF Seated
  <2>4. CASE Refused(c)
    BY <1>1, <2>4 DEF Refused, NextAttempt
  <2> QED
    BY <1>1, <2>1, <2>2, <2>3, <2>4
<1>2. ASSUME NEW c \in Call, LookUp(c)
      PROVE  Misses(c) \/ Uses(c, scorers[mode[c]])
  BY <1>2, LookUpUses
<1>3. ASSUME NEW c \in Call, Fill(c)
      PROVE  /\ \E s : Uses(c, s)
             /\ \A m \in Mode : scorers[m] # None => scorers'[m] = scorers[m]
  BY <1>3, FillUses
<1>4. ASSUME NEW c \in Call, c # d, LookUp(c) \/ Fill(c)
      PROVE  Kept(d)
  <2>1. CASE \E s : UseScorer(c, s)
    <3>1. Locals(d)' = Locals(d) /\ since'[d] = since[d]
      BY <1>4, <2>1, UseIsLocal
    <3>2. LookUp(c) => scorers' = scorers
      BY DEF LookUp, shared
    <3> QED
      BY <1>3, <1>4, <3>1, <3>2 DEF Kept
  <2>2. CASE Misses(c)
    BY <1>4, <2>2 DEF Misses, Kept, Locals, LocalTypes, request, loop
  <2> QED
    BY <1>2, <1>3, <1>4, <2>1, <2>2 DEF Uses
<1>5. CASE ReloadMatcher \/ ReloadHandler \/ UNCHANGED vars
  BY <1>5 DEF ReloadMatcher, ReloadHandler, vars, shared, request, loop, Kept, Locals
<1>6. ASSUME NEW c \in Call, Begin(c) \/ CallStep(c)
      PROVE  \/ Kept(d)
             \/ Begin(d) \/ Attempt(d) \/ Seated(d) \/ Refused(d) \/ Misses(d)
             \/ \E s : Uses(d, s)
  <2>1. CASE c = d
    BY <1>2, <1>3, <1>6, <2>1 DEF CallStep
  <2>2. CASE c # d
    BY <1>1, <1>4, <1>6, <2>2 DEF CallStep
  <2> QED
    BY <2>1, <2>2
<1> QED
  BY <1>5, <1>6 DEF Next

\* What is kept and what is selected, by any scorer.
LEMMA UseTypes ==
  ASSUME MatchInv, NEW c \in Call, pc[c] # "idle", NEW s \in Scorer
  PROVE  /\ FilterLobbies(s, offer[c].lobbies, Remaining(c), offer[c].player)
               \subseteq Remaining(c)
         /\ Remaining(c) \subseteq Nat \ {0}
         /\ SelectBestLobby(s, offer[c].lobbies, candidates[c], offer[c].player)
               \in candidates[c] \cup {0}
<1>1. offer[c] \in Offer
  BY DEF MatchInv, CallInv, AskInv
<1>2. Remaining(c) \subseteq Nat \ {0}
  <2>1. DOMAIN offer[c].lobbies = 1 .. Len(offer[c].lobbies) /\ Len(offer[c].lobbies) \in Nat
    BY <1>1, OfferType
  <2> QED
    BY <2>1 DEF Remaining
<1>3. SelectBestLobby(s, offer[c].lobbies, candidates[c], offer[c].player)
        \in candidates[c] \cup {0}
  BY PicksByScorer DEF PicksBy
<1> QED
  BY <1>2, <1>3 DEF FilterLobbies

LEMMA LocalTypesNext ==
  ASSUME MatchInv, [Next]_vars
  PROVE  LocalTypes'
<1> USE DEF MatchInv, LocalTypes, PCs
<1>1. ASSUME NEW c \in Call, NEW s, Uses(c, s)
      PROVE  LocalTypes'
  <2>1. pc[c] # "idle" /\ s \in Scorer /\ mode' = mode /\ offer' = offer
    BY <1>1 DEF Uses, UseScorer, FilterWith, SelectWith, request
  <2>2. CASE FilterWith(c, s)
    <3>1. PICK kept \in SUBSET Nat :
            \/ NextAttempt(c) /\ excluded' = excluded
            \/ /\ candidates' = [candidates EXCEPT ![c] = kept]
               /\ pc' = [pc EXCEPT ![c] = "select"]
               /\ UNCHANGED <<excluded, attempt, selected>>
      BY <2>1, <2>2, UseTypes DEF FilterWith
    <3>2. /\ filterer' = [filterer EXCEPT ![c] = s]
          /\ since' = [since EXCEPT ![c] = FALSE]
          /\ asked' = asked
      BY <2>2 DEF FilterWith
    <3>3. CASE NextAttempt(c) /\ excluded' = excluded
      BY <2>1, <3>2, <3>3 DEF NextAttempt
    <3>4. CASE /\ candidates' = [candidates EXCEPT ![c] = kept]
               /\ pc' = [pc EXCEPT ![c] = "select"]
               /\ UNCHANGED <<excluded, attempt, selected>>
      BY <2>1, <3>2, <3>4
    <3> QED
      BY <3>1, <3>3, <3>4
  <2>3. CASE SelectWith(c, s)
    <3>1. PICK best \in Nat :
            \/ NextAttempt(c) /\ UNCHANGED <<excluded, asked>>
            \/ /\ selected' = [selected EXCEPT ![c] = best]
               /\ asked' = [asked EXCEPT ![c] = Append(@, best)]
               /\ pc' = [pc EXCEPT ![c] = "join"]
               /\ UNCHANGED <<excluded, attempt, candidates>>
      BY <2>1, <2>3, UseTypes DEF SelectWith
    <3>2. filterer' = filterer /\ since' = since
      BY <2>3 DEF SelectWith
    <3>3. CASE NextAttempt(c) /\ UNCHANGED <<excluded, asked>>
      BY <2>1, <3>2, <3>3 DEF NextAttempt
    <3>4. CASE /\ selected' = [selected EXCEPT ![c] = best]
               /\ asked' = [asked EXCEPT ![c] = Append(@, best)]
               /\ pc' = [pc EXCEPT ![c] = "join"]
               /\ UNCHANGED <<excluded, attempt, candidates>>
      BY <2>1, <3>2, <3>4
    <3> QED
      BY <3>1, <3>3, <3>4
  <2> QED
    BY <1>1, <2>2, <2>3 DEF Uses, UseScorer
<1>2. ASSUME NEW c \in Call, Misses(c)
      PROVE  LocalTypes'
  BY <1>2 DEF Misses, request, loop
<1>3. ASSUME NEW c \in Call, Begin(c)
      PROVE  LocalTypes'
  <2>1. PICK m \in Mode, o \in Offer :
          mode' = [mode EXCEPT ![c] = m] /\ offer' = [offer EXCEPT ![c] = o]
    BY <1>3 DEF Begin
  <2> QED
    BY <1>3, <2>1 DEF Begin, loop
<1>4. ASSUME NEW c \in Call, Attempt(c) \/ Seated(c)
      PROVE  LocalTypes'
  BY <1>4 DEF Attempt, Seated, request, loop
<1>5. ASSUME NEW c \in Call, Refused(c)
      PROVE  LocalTypes'
  BY <1>5 DEF Refused, NextAttempt, request
<1>6. CASE ReloadMatcher \/ ReloadHandler \/ UNCHANGED vars
  BY <1>6 DEF ReloadMatcher, ReloadHandler, vars, request, loop
<1> QED
  BY <1>1, <1>2, <1>3, <1>4, <1>5, <1>6, LookUpUses, FillUses DEF Next, CallStep

LEMMA KeptInv ==
  ASSUME MatchInv, [Next]_vars, NEW d \in Call, Kept(d)
  PROVE  CallInv(d)'
<1>1. AskInv(d)'
  <2>1. AskInv(d) /\ Remaining(d)' = Remaining(d)
    BY DEF MatchInv, CallInv, Kept, Locals, Remaining
  <2> QED
    BY <2>1 DEF AskInv, Kept, Locals
<1>2. FiltererInv(d)'
  <2>1. FiltererInv(d) /\ (pc[d] # "idle" => mode[d] \in Mode)
    BY DEF MatchInv, CallInv, AskInv
  <2> QED
    BY <2>1 DEF FiltererInv, Kept, Locals
<1> QED
  BY <1>1, <1>2 DEF CallInv

\* The steps that touch no table: asking is over when the call is refused, and
\* the refusal excludes the lobby it asked.
LEMMA LoopInv ==
  ASSUME MatchInv, NEW d \in Call,
         Begin(d) \/ Attempt(d) \/ Seated(d) \/ Refused(d) \/ Misses(d)
  PROVE  CallInv(d)'
<1> USE DEF MatchInv, LocalTypes, PCs, CallInv, AskInv, FiltererInv, Remaining
<1>1. CASE Begin(d)
  BY <1>1 DEF Begin, shared, loop
<1>2. CASE Attempt(d)
  BY <1>2 DEF Attempt, request, loop
<1>3. CASE Seated(d)
  BY <1>3 DEF Seated, request, loop
<1>4. CASE Refused(d)
  <2>1. /\ pc'[d] = "attempt" /\ candidates'[d] = {} /\ selected'[d] = 0
        /\ excluded'[d] = excluded[d] \cup {selected[d]}
        /\ mode'[d] = mode[d] /\ offer'[d] = offer[d] /\ asked'[d] = asked[d]
    BY <1>4 DEF Refused, NextAttempt, request
  <2>2. selected[d] # 0 /\ selected[d] \in DOMAIN offer[d].lobbies
    BY <1>4 DEF Refused
  <2> QED
    BY <1>4, <2>1, <2>2 DEF Refused
<1>5. CASE Misses(d)
  BY <1>5 DEF Misses, request, loop
<1> QED
  BY <1>1, <1>2, <1>3, <1>4, <1>5

LEMMA UseInv ==
  ASSUME MatchInv, NEW d \in Call, NEW s, Uses(d, s)
  PROVE  CallInv(d)'
<1> USE DEF MatchInv, LocalTypes, PCs
<1>1. /\ pc[d] # "idle" /\ s \in Scorer
      /\ mode'[d] = mode[d] /\ offer'[d] = offer[d] /\ excluded'[d] = excluded[d]
    BY DEF Uses, UseScorer, FilterWith, SelectWith, request
<1>2. AskInv(d) /\ Remaining(d)' = Remaining(d)
  BY <1>1 DEF CallInv, Remaining
<1>3. selected[d] = 0
  BY <1>2 DEF AskInv, Uses, UseScorer
<1>4. CASE NextAttempt(d) /\ asked' = asked
  <2>1. pc'[d] = "attempt" /\ candidates'[d] = {} /\ selected'[d] = 0
    BY <1>4 DEF NextAttempt
  <2> QED
    BY <1>1, <1>2, <1>3, <1>4, <2>1 DEF CallInv, AskInv, FiltererInv
<1>5. CASE FilterWith(d, s) /\ pc' = [pc EXCEPT ![d] = "select"]
  <2>1. /\ pc'[d] = "select" /\ candidates'[d] # {} /\ selected'[d] = 0
        /\ candidates'[d] \subseteq Remaining(d) /\ asked'[d] = asked[d]
        /\ filterer'[d] = s
    BY <1>1, <1>3, <1>5, UseTypes DEF FilterWith, NextAttempt
  <2>2. s = scorers'[mode'[d]] /\ s # None
    BY <1>1, NoneAssumption DEF Uses
  <2> QED
    BY <1>1, <1>2, <1>3, <2>1, <2>2 DEF CallInv, AskInv, FiltererInv
<1>6. CASE SelectWith(d, s) /\ pc' = [pc EXCEPT ![d] = "join"]
  <2>1. PICK best \in candidates[d] :
          /\ best # 0 /\ pc'[d] = "join" /\ candidates'[d] = candidates[d]
          /\ selected'[d] = best /\ asked'[d] = Append(asked[d], best)
    <3> DEFINE b == SelectBestLobby(s, offer[d].lobbies, candidates[d], offer[d].player)
    <3>1. b \in candidates[d] \cup {0}
      BY <1>1, UseTypes
    <3>2. ~NextAttempt(d)
      BY <1>6 DEF NextAttempt
    <3>3. /\ b # 0 /\ selected' = [selected EXCEPT ![d] = b]
          /\ asked' = [asked EXCEPT ![d] = Append(@, b)] /\ candidates' = candidates
      BY <1>6, <3>2 DEF SelectWith
    <3> HIDE DEF b
    <3> QED
      BY <1>6, <3>1, <3>3
  <2>2. /\ asked[d] \in Seq(Nat) /\ best \in Nat /\ best \notin excluded[d]
        /\ \A i \in DOMAIN asked[d] : asked[d][i] \in excluded[d]
    BY <1>2, <1>3, <2>1 DEF AskInv, Remaining
  <2>3. \A i, j \in DOMAIN asked[d] : asked[d][i] = asked[d][j] => i = j
    BY <1>2 DEF AskInv
  <2>4. /\ \A i \in DOMAIN asked'[d] : asked'[d][i] \in excluded[d] \/ asked'[d][i] = best
        /\ \A i, j \in DOMAIN asked'[d] : asked'[d][i] = asked'[d][j] => i = j
        /\ \A i \in DOMAIN asked'[d] : asked'[d][i] # 0
    <3> DEFINE n == Len(asked[d])
    <3>1. /\ n \in Nat /\ DOMAIN asked[d] = 1 .. n /\ DOMAIN asked'[d] = 1 .. (n + 1)
          /\ asked'[d][n + 1] = best
          /\ \A i \in 1 .. n : asked'[d][i] = asked[d][i]
      BY <2>1, <2>2
    <3> HIDE DEF n
    <3>2. \A i \in 1 .. n : asked[d][i] # best /\ asked[d][i] # 0
      BY <1>2, <2>2, <3>1 DEF AskInv
    <3> QED
      BY <2>1, <2>2, <2>3, <3>1, <3>2
  <2>5. AskInv(d)'
    BY <1>1, <1>2, <2>1, <2>4 DEF AskInv
  <2> QED
    BY <2>1, <2>5 DEF CallInv, FiltererInv
<1> QED
  BY <1>4, <1>5, <1>6 DEF Uses, UseScorer, FilterWith, SelectWith

LEMMA MatchInvNext == MatchInv /\ [Next]_vars => MatchInv'
<1> SUFFICES ASSUME MatchInv, [Next]_vars
             PROVE  MatchInv'
  OBVIOUS
<1>1. ASSUME NEW d \in Call
      PROVE  CallInv(d)'
  BY MatchSteps, KeptInv, LoopInv, UseInv
<1> QED
  BY <1>1, TableTypeNext, LocalTypesNext DEF MatchInv

-----------------------------------------------------------------------------
(* What it is for *)

\* The table holds scorers of configured values only, and a call's exclusions,
\* candidates and selection fit its offer (scorer.go:53-97, handler.go:97-124).
THEOREM MatchmakingTypeCorrect == Spec => []MatchTypeOK
<1>1. MatchInv => MatchTypeOK
  BY DEF MatchInv, TableType, LocalTypes, CallInv, AskInv, MatchTypeOK
<1> QED
  BY MatchInvInit, MatchInvNext, <1>1, PTL DEF Spec

\* However often the table is reloaded and the limit raised, a lobby that has
\* refused a call is not asked by it again: an AddPlayer whose write was
\* applied and its reply lost is not repeated (handler.go:119).
THEOREM AsksEachLobbyOnce == Spec => []NoLobbyAskedTwice
<1>1. MatchInv => NoLobbyAskedTwice
  BY DEF MatchInv, CallInv, AskInv, NoLobbyAskedTwice
<1> QED
  BY MatchInvInit, MatchInvNext, <1>1, PTL DEF Spec

LEMMA SelectionUses ==
  ASSUME MatchInv, [Next]_vars, NEW c \in Call, Selects(c)
  PROVE  \E s : Uses(c, s) /\ SelectWith(c, s)
<1> USE DEF MatchInv, LocalTypes
<1>1. ~Kept(c)
  BY DEF Selects, Kept, Locals
<1>2. ~Begin(c) /\ ~Attempt(c) /\ ~Seated(c) /\ ~Refused(c) /\ ~Misses(c)
  BY DEF Selects, Begin, Attempt, Seated, Refused, Misses
<1>3. PICK s : Uses(c, s)
  BY <1>1, <1>2, MatchSteps
<1> QED
  BY <1>3 DEF Uses, UseScorer, Selects

\* An attempt filters and ranks by one scorer, whichever calls fill the table
\* in between: it fills only what is empty (matcher.go:24 and 41,
\* scorer.go:62-71).
THEOREM AttemptsKeepTheirScorer == Spec => OneScorerPerAttempt
<1>1. ASSUME MatchInv, [Next]_vars, NEW c \in Call, Selects(c), ~since[c]
      PROVE  scorers'[mode[c]] = filterer[c]
  <2>1. PICK s : Uses(c, s)
    BY <1>1, SelectionUses
  <2>2. filterer[c] # None /\ scorers[mode[c]] = filterer[c]
    BY <1>1 DEF MatchInv, CallInv, FiltererInv, Selects
  <2> QED
    BY <2>1, <2>2 DEF Uses
<1>2. ASSUME MatchInv, [Next]_vars, NEW c \in Call, Selects(c)
      PROVE  since[c] \/ scorers'[mode[c]] = filterer[c]
  BY <1>1, <1>2 DEF MatchInv, LocalTypes
<1>3. MatchInv /\ [Next]_vars =>
        [\A c \in Call : Selects(c) => since[c] \/ scorers'[mode[c]] = filterer[c]]_vars
  BY <1>2
<1> QED
  BY MatchInvInit, MatchInvNext, <1>3, PTL DEF Spec, OneScorerPerAttempt

\* Whatever the scores, ties and NaN among them, a call asks the first of its
\* best candidates by the scorer the table holds at that moment (matcher.go:48).
THEOREM AsksTheFirstBest == Spec => PicksFirstBest
<1>1. ASSUME MatchInv, [Next]_vars, NEW c \in Call, Selects(c)
      PROVE  PicksBy(c, scorers'[mode[c]], selected'[c])
  <2>1. PICK s : Uses(c, s) /\ SelectWith(c, s)
    BY <1>1, SelectionUses
  <2> DEFINE best == SelectBestLobby(s, offer[c].lobbies, candidates[c], offer[c].player)
  <2>2. PicksBy(c, s, best)
    BY <1>1, <2>1, PicksByScorer DEF Uses, Selects
  <2>3. selected'[c] = best
    BY <1>1, <2>1 DEF SelectWith, NextAttempt, MatchInv, LocalTypes
  <2> HIDE DEF best
  <2> QED
    BY <2>1, <2>2, <2>3 DEF Uses
<1>2. MatchInv /\ [Next]_vars =>
        [\A c \in Call : Selects(c) => PicksBy(c, scorers'[mode[c]], selected'[c])]_vars
  BY <1>1
<1> QED
  BY MatchInvInit, MatchInvNext, <1>2, PTL DEF Spec, PicksFirstBest, PicksBy
=============================================================================
