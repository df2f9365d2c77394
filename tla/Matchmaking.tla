----------------------------- MODULE Matchmaking -----------------------------
(***************************************************************************)
(* How a JoinLobby call picks the lobbies it asks for a seat: the attempt  *)
(* loop of handler.go over the table of scorers of matcher/scorer.go,      *)
(* which calls fill when they first need a mode and which a hot reload of  *)
(* the configuration rewrites at any moment.                               *)
(*                                                                         *)
(* A critical section of s.mx or h.mx is one action.  What AddPlayer does  *)
(* is LobbyStore's: here it seats the player or refuses.                   *)
(***************************************************************************)
EXTENDS Scoring

CONSTANTS
    Call,        \* JoinLobby calls that found open lobbies
    Mode,        \* the modes they ask for
    Offer,       \* what they found: a player and a sequence of lobbies
    Config,      \* the matcher's configurations: a scoring per configured mode
    Limit,       \* the values configured for max_lobby_attempts
    MaxReloads,  \* bound: how often each of the two sections is reloaded
    None         \* no scorer, no mode, no offer

\* config.go:15, in the units of a run, for a mode that is not configured.
CONSTANT FallbackScoring

\* All the scoring configurations there are, and the scorers made of them.
Scorings == (UNION {{f[m] : m \in DOMAIN f} : f \in Config}) \cup {FallbackScoring}
Scorer == [kind : Kinds \cup {"default"}, cfg : Scorings]

ASSUME NoneAssumption ==
    None \notin Mode /\ None \notin Offer /\ None \notin Config /\ None \notin Scorer
ASSUME ConfigAssumption ==
    /\ \A f \in Config : f = [m \in DOMAIN f |-> f[m]] /\ DOMAIN f \subseteq Mode
    /\ \A cfg \in Scorings : IsScoring(cfg)
\* GetTopLobbies returns stored lobbies.
ASSUME OfferAssumption ==
    \A o \in Offer :
        /\ IsPlayer(o.player)
        /\ o.lobbies = [i \in 1 .. Len(o.lobbies) |-> o.lobbies[i]]
        /\ Len(o.lobbies) \in Nat
        /\ \A i \in DOMAIN o.lobbies : IsLobby(o.lobbies[i])
ASSUME LimitAssumption == Limit \subseteq Nat /\ MaxReloads \in Nat

VARIABLES
    (* shared *)
    config,      \* LobbyScorer.config
    scorers,     \* LobbyScorer.scorers
    limit,       \* Handler.cfg.MaxLobbyAttempts
    reloads,     \* how often each section has been reloaded
    (* locals of a call *)
    pc,
    mode,
    offer,
    excluded,    \* positions in the offer whose AddPlayer failed
    attempt,
    candidates,  \* the positions that FilterLobbies let through
    selected,    \* the position that SelectBestLobby returned
    (* observation *)
    latest,      \* the configuration last given to UpdateConfig, if any
    asked,       \* the positions asked for a seat so far, in order
    filterer,    \* the scorer that filtered in this attempt
    since        \* was the table reloaded since then?

shared == <<config, scorers, limit, reloads>>
request == <<mode, offer>>
loop == <<excluded, attempt, candidates, selected>>
vars == <<shared, pc, request, loop, latest, asked, filterer, since>>

PCs == {"idle", "attempt", "filter", "filter_fill", "select", "select_fill",
        "join", "joined", "create"}

Init ==
    /\ config \in Config
    /\ scorers = [m \in Mode |-> None]
    /\ limit \in Limit
    /\ reloads = [matcher |-> 0, handler |-> 0]
    /\ pc = [c \in Call |-> "idle"]
    /\ mode = [c \in Call |-> None]
    /\ offer = [c \in Call |-> None]
    /\ excluded = [c \in Call |-> {}]
    /\ attempt = [c \in Call |-> 0]
    /\ candidates = [c \in Call |-> {}]
    /\ selected = [c \in Call |-> 0]
    /\ latest = None
    /\ asked = [c \in Call |-> <<>>]
    /\ filterer = [c \in Call |-> None]
    /\ since = [c \in Call |-> FALSE]

-----------------------------------------------------------------------------
(* The configuration *)

\* Mutant: UpdateConfig leaves the scorers that are there alone.
UpdateConfigKeeps(new) ==
    /\ config' = new
    /\ scorers' = [m \in Mode |-> IF m \in DOMAIN new /\ scorers[m] = None
                                  THEN newScorer(m, new[m]) ELSE scorers[m]]

\* LobbyScorer.UpdateConfig: modes that the new configuration does not name
\* keep the scorer they have.
UpdateConfig(new) ==
    /\ config' = new
    /\ scorers' = [m \in Mode |-> IF m \in DOMAIN new THEN newScorer(m, new[m])
                                  ELSE scorers[m]]

ReloadMatcher ==
    /\ reloads.matcher < MaxReloads
    /\ reloads' = [reloads EXCEPT !.matcher = @ + 1]
    /\ \E new \in Config : UpdateConfig(new) /\ latest' = new
    /\ since' = [c \in Call |-> TRUE]
    /\ UNCHANGED <<limit, pc, request, loop, asked, filterer>>

ReloadHandler ==
    /\ reloads.handler < MaxReloads
    /\ reloads' = [reloads EXCEPT !.handler = @ + 1]
    /\ limit' \in Limit
    /\ UNCHANGED <<config, scorers, pc, request, loop, latest, asked, filterer, since>>

\* Mutant: config.go:50 left out.
MaxAttemptsAsIs == limit

\* getMaxLobbyAttempts: at least two, written back.
MaxAttempts == IF limit < 2 THEN 2 ELSE limit

-----------------------------------------------------------------------------
(* The attempt loop *)

\* The positions of the lobbies that have not refused the call.
Remaining(c) == DOMAIN offer[c].lobbies \ excluded[c]

Begin(c) ==
    /\ pc[c] = "idle"
    /\ mode' \in {[mode EXCEPT ![c] = m] : m \in Mode}
    /\ offer' \in {[offer EXCEPT ![c] = o] : o \in Offer}
    /\ pc' = [pc EXCEPT ![c] = "attempt"]
    /\ UNCHANGED <<shared, loop, latest, asked, filterer, since>>

\* The loop's condition, which reads the limit anew, and its break.
Attempt(c) ==
    /\ pc[c] = "attempt"
    /\ limit' = MaxAttempts
    /\ pc' = [pc EXCEPT ![c] = IF attempt[c] < MaxAttempts /\ Remaining(c) # {}
                               THEN "filter" ELSE "create"]
    /\ UNCHANGED <<config, scorers, reloads, request, loop, latest, asked, filterer, since>>

NextAttempt(c) ==
    /\ pc' = [pc EXCEPT ![c] = "attempt"]
    /\ attempt' = [attempt EXCEPT ![c] = @ + 1]
    /\ candidates' = [candidates EXCEPT ![c] = {}]
    /\ selected' = [selected EXCEPT ![c] = 0]

\* FilterLobbies, and SelectBestLobby's return for no candidates: nothing is
\* excluded then.
FilterWith(c, s) ==
    LET kept == FilterLobbies(s, offer[c].lobbies, Remaining(c), offer[c].player)
    IN  /\ filterer' = [filterer EXCEPT ![c] = s]
        /\ since' = [since EXCEPT ![c] = FALSE]
        /\ IF kept = {} THEN NextAttempt(c) /\ UNCHANGED excluded
           ELSE /\ candidates' = [candidates EXCEPT ![c] = kept]
                /\ pc' = [pc EXCEPT ![c] = "select"]
                /\ UNCHANGED <<excluded, attempt, selected>>
        /\ UNCHANGED <<request, latest, asked>>

\* SelectBestLobby, up to the call of AddPlayer.
SelectWith(c, s) ==
    LET best == SelectBestLobby(s, offer[c].lobbies, candidates[c], offer[c].player)
    IN  /\ IF best = 0 THEN NextAttempt(c) /\ UNCHANGED <<excluded, asked>>
           ELSE /\ selected' = [selected EXCEPT ![c] = best]
                /\ asked' = [asked EXCEPT ![c] = Append(@, best)]
                /\ pc' = [pc EXCEPT ![c] = "join"]
                /\ UNCHANGED <<excluded, attempt, candidates>>
        /\ UNCHANGED <<request, latest, filterer, since>>

UseScorer(c, s) ==
    \/ pc[c] \in {"filter", "filter_fill"} /\ FilterWith(c, s)
    \/ pc[c] \in {"select", "select_fill"} /\ SelectWith(c, s)

\* GetScorer, its look-up under the read lock.
LookUp(c) ==
    /\ pc[c] \in {"filter", "select"}
    /\ IF scorers[mode[c]] # None THEN UseScorer(c, scorers[mode[c]])
       ELSE /\ pc' = [pc EXCEPT ![c] = IF @ = "filter" THEN "filter_fill" ELSE "select_fill"]
            /\ UNCHANGED <<request, loop, latest, asked, filterer, since>>
    /\ UNCHANGED shared

\* Mutant: GetConfig hands out the zero value for a mode it does not know.
GetConfigZero(m) ==
    IF m \in DOMAIN config THEN config[m]
    ELSE [rating |-> 0, category |-> 0, fill |-> 0, maxDiff |-> 0, minMatch |-> Zero]

\* Config.GetConfig, which remembers the fallback it hands out.
GetConfig(m) == IF m \in DOMAIN config THEN config[m] ELSE FallbackScoring
Remember(m) ==
    config' = [k \in DOMAIN config \cup {m} |-> GetConfig(k)]

\* Mutant: GetScorer fills without looking again under the write lock.
FillUnchecked(c) ==
    /\ pc[c] \in {"filter_fill", "select_fill"}
    /\ LET m == mode[c]
           s == DefaultScorer(GetConfig(m))
       IN  /\ UseScorer(c, s)
           /\ scorers' = [scorers EXCEPT ![m] = s]
           /\ Remember(m)
    /\ UNCHANGED <<limit, reloads>>

\* GetScorer, under the write lock: someone may have filled it meanwhile.
Fill(c) ==
    /\ pc[c] \in {"filter_fill", "select_fill"}
    /\ LET m == mode[c]
           s == DefaultScorer(GetConfig(m))
       IN  \/ /\ scorers[m] # None
              /\ UseScorer(c, scorers[m])
              /\ UNCHANGED <<config, scorers>>
           \/ /\ scorers[m] = None
              /\ UseScorer(c, s)
              /\ scorers' = [scorers EXCEPT ![m] = s]
              /\ Remember(m)
    /\ UNCHANGED <<limit, reloads>>

Seated(c) ==
    /\ pc[c] = "join"
    /\ pc' = [pc EXCEPT ![c] = "joined"]
    /\ UNCHANGED <<shared, request, loop, latest, asked, filterer, since>>

\* Mutant: handler.go:119 left out.
RefusedForgotten(c) ==
    /\ pc[c] = "join"
    /\ NextAttempt(c)
    /\ UNCHANGED <<excluded, shared, request, latest, asked, filterer, since>>

\* AddPlayer fails: the lobby is excluded.
Refused(c) ==
    /\ pc[c] = "join"
    /\ excluded' = [excluded EXCEPT ![c] = @ \cup {selected[c]}]
    /\ NextAttempt(c)
    /\ UNCHANGED <<shared, request, latest, asked, filterer, since>>

-----------------------------------------------------------------------------
CallStep(c) ==
    \/ Attempt(c)
    \/ LookUp(c)
    \/ Fill(c)
    \/ Seated(c)
    \/ Refused(c)

Next ==
    \/ \E c \in Call : Begin(c) \/ CallStep(c)
    \/ ReloadMatcher
    \/ ReloadHandler

Spec == Init /\ [][Next]_vars

-----------------------------------------------------------------------------
MatchTypeOK ==
    /\ DOMAIN config \subseteq Mode
    /\ scorers \in [Mode -> Scorer \cup {None}]
    /\ pc \in [Call -> PCs]
    /\ mode \in [Call -> Mode \cup {None}]
    /\ offer \in [Call -> Offer \cup {None}]
    /\ \A c \in Call : pc[c] # "idle" =>
         /\ mode[c] \in Mode /\ offer[c] \in Offer
         /\ excluded[c] \subseteq DOMAIN offer[c].lobbies
         /\ pc[c] \in {"select", "select_fill", "join"} => candidates[c] # {}
         /\ pc[c] \in {"join", "joined"} <=> selected[c] # 0

\* Once a configuration has been loaded, each mode it names is scored by its
\* own scorer with that configuration until the next one comes, whichever
\* calls were filling the table when it came (scorer.go:40, 62-71).
ReloadSticks ==
    latest # None =>
        \A m \in DOMAIN latest : scorers[m] = newScorer(m, latest[m])

\* No call asks a lobby twice for a seat: an applied write whose reply was lost
\* is not repeated (handler.go:119; NoDoubleSeat of LobbyStore needs it).
NoLobbyAskedTwice ==
    \A c \in Call : \A i, j \in DOMAIN asked[c] :
        asked[c][i] = asked[c][j] => i = j

Selects(c) == pc[c] \in {"select", "select_fill"} /\ pc'[c] \in {"join", "attempt"}

\* The lobbies of an attempt are ranked by the scorer that filtered them,
\* unless the configuration was reloaded in between (matcher.go:24 and 41).
OneScorerPerAttempt ==
    [][\A c \in Call :
        Selects(c) => since[c] \/ scorers'[mode[c]] = filterer[c]]_vars

\* The lobby asked is the first of those with the highest score; a score that
\* is NaN is never the highest, and if all are, none is asked (matcher.go:48).
PicksFirstBest ==
    [][\A c \in Call : Selects(c) =>
        LET score(i) == Score(scorers'[mode[c]], offer[c].lobbies[i], offer[c].player)
            real == {i \in candidates[c] : ~IsNaN(score(i))}
            best == selected'[c]
        IN  IF real = {} THEN best = 0
            ELSE /\ best \in real
                 /\ \A i \in real : ~Greater(score(i), score(best))
                 /\ \A i \in real : i < best => Greater(score(best), score(i))]_vars

\* A call makes a lobby of its own only when every lobby it found has refused
\* it or when it has tried twice, whatever limit is configured and whenever the
\* limit is reloaded (handler.go:99, handler/config.go:47-54).
TriesTwiceAtLeast ==
    \A c \in Call : pc[c] = "create" => attempt[c] >= 2 \/ Remaining(c) = {}
=============================================================================
