------------------------------- MODULE Lobby -------------------------------
(***************************************************************************)
(* The lobby record of internal/models/models.go and the operations on it. *)
(*                                                                         *)
(* The handler makes one Player per JoinLobby call, and a seat is named    *)
(* here by the call it was made for.  What is stored is the call's         *)
(* PlayerId, which calls may share: a player that comes back calls again.  *)
(* No code compares it with anything, so two calls of one player are two   *)
(* newcomers, and what is said of a call's seats is not said of a          *)
(* player's.  Ratings, categories and timestamps only rank lobbies: the    *)
(* record keeps what decides who sits where, the roster, its two borders   *)
(* and the optimistic-lock version.                                        *)
(***************************************************************************)
EXTENDS Integers, Sequences

CONSTANTS
    Call,     \* JoinLobby calls; several may be of one player
    Borders   \* the [min, max] pairs configured for the game modes

\* Go's int16: the type of MinPlayers, MaxPlayers and Version.
MaxInt16 == 32767
MinInt16 == 0 - MaxInt16 - 1
Int16 == MinInt16 .. MaxInt16

\* Conversion to, and wrap-around arithmetic in, int16.
ToInt16(n) == ((n - MinInt16) % 65536) + MinInt16

ASSUME BordersAssumption == Borders \subseteq [min : Int16, max : Int16]

LobbyRecord ==
    [players : Seq(Call), min : Int16, max : Int16, version : Int16]

\* The literal JoinLobby builds, with its borders set: the creator is the
\* only player and the version starts at 1.
NewLobby(c, b) ==
    [players |-> <<c>>, min |-> b.min, max |-> b.max, version |-> 1]

\* The calls seated in a lobby record.
Seated(r) == {r.players[i] : i \in DOMAIN r.players}

\* Mutant: the comparison of models.go:46 and 27 off by one.
CanAddPlayerAtMax(r) == ToInt16(Len(r.players)) <= r.max

CanAddPlayer(r) == ToInt16(Len(r.players)) < r.max

\* Mutant: models.go:36 left out.
AddPlayerSameVersion(r, c) == [r EXCEPT !.players = Append(@, c)]

\* Lobby.AddPlayer on its accepting path: append, whoever sits there already,
\* and version++, in int16.
AddPlayer(r, c) ==
    [r EXCEPT !.players = Append(@, c), !.version = ToInt16(@ + 1)]

\* Mutant: state.go:145 left out.
ReadyEarly(r, settled) ==
    LET playerCount == ToInt16(Len(r.players))
    IN  playerCount >= r.max \/ settled

\* isLobbyReady.  settled: the last join is MinReadyDuration or longer ago,
\* as it always is for a lobby nobody has joined, whose LastJoinedAt is zero.
Ready(r, settled) ==
    LET playerCount == ToInt16(Len(r.players))
    IN  /\ playerCount >= r.min
        /\ playerCount >= r.max \/ settled
=============================================================================
