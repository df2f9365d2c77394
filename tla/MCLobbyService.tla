--------------------------- MODULE MCLobbyService ---------------------------
(* Instances of LobbyService for TLC. *)
EXTENDS LobbyServiceInv, TLC

MCPairBorders == {[min |-> 2, max |-> 2]}
MCBothBorders == MCPairBorders \cup {[min |-> 1, max |-> 2]}

Symmetry == Permutations(Call)

Makers == {l \in Call : lease[l] # "none"}
Leavers == {c \in Call : cancelled[c]}

\* How many lobbies are made, run out of time, and how many clients leave.
OneLobby == Cardinality(Makers) <= 1
FewLobbies == Cardinality(Makers) <= 2
FewDeadlines == Cardinality({l \in Call : lease[l] = "over"}) <= 1
NoDeadlines == \A l \in Call : lease[l] # "over"
NoCancels == Leavers = {}
\* One call makes a lobby, or both do and then no client leaves.
FewMakers == OneLobby \/ NoCancels
\* At most one client leaves, and as all calls are alike always the same.
OneLeaver == Leavers \subseteq {CHOOSE k \in Call : TRUE}

\* A transaction fails within a join or a removal, not elsewhere.
FaultsInWrites ==
    /\ \A c \in Call : pc[c] \notin {"create_err", "gave_up"}
    /\ \A l \in Call : mutex[l] # NoCall => InCS(mutex[l]) /\ target[mutex[l]] = l

LobbiesFrom(n) ==
    \A l \in Call : \A r \in {record[l], copy[l], view[l]} \ {NoLobby} : r.min = n

\* Two calls, whose lobbies may start with one: joins fail, a client leaves.
Idle == {c \in Call : pc[c] = "start"}
Pair ==
    /\ Cardinality(Call \ Idle) <= 2
    /\ Cardinality(Leavers) <= 1
    /\ Leavers \cap Idle = {}
    /\ LobbiesFrom(1)
\* Or three, whose lobbies need two: no join fails half-way, everybody stays,
\* and of two lobbies one runs out of time when all have found theirs.
Trio ==
    /\ NoCancels
    /\ OneLobby \/ NoDeadlines \/ \A c \in Call : Searched(c)
    /\ \A c \in Call : ~misled[c] /\ (failed[c] => pc[c] = "unlock")
    /\ LobbiesFrom(2)
PairOrTrio == Pair \/ Trio
=============================================================================
