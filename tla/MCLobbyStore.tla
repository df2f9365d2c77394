---------------------------- MODULE MCLobbyStore ----------------------------
(* Instances of LobbyStore for TLC. *)
EXTENDS LobbyStoreInv, TLC

\* Two joiners both fit; or, besides, race for one seat.
MCWideBorders == {[min |-> 2, max |-> 3]}
MCBothBorders == MCWideBorders \cup {[min |-> 1, max |-> 2]}

Symmetry == Permutations(Call)

\* At most two calls make a lobby, and at most one loses its client.
FewLobbies == Cardinality({l \in Call : lease[l] # "none"}) <= 2
OneLobby == Cardinality({l \in Call : lease[l] # "none"}) <= 1
FewDeadlines == Cardinality({l \in Call : lease[l] = "over"}) <= 1
NoDeadlines == \A l \in Call : lease[l] # "over"
\* Two calls, each with a lobby of wide borders; or three that share one, and
\* then no client leaves, no process dies, and a narrow one does not run out
\* of time.
Idle == {c \in Call : pc[c] = "start"}
Wide == \A l \in Call : \A r \in {record[l], copy[l]} \ {NoLobby} : r.max > 2
PairOrTrio ==
    IF Cardinality(Call \ Idle) <= 2 /\ Wide
    THEN \A c \in Idle : ~cancelled[c]
    ELSE OneLobby /\ (Wide \/ NoDeadlines) /\ \A c \in Call : ~cancelled[c]
FewCancels == Cardinality({c \in Call : cancelled[c]}) <= 1

\* One LobbyTLL and one clock: the lobbies run out of time in the order in
\* which they are made.  Not with Symmetry, it tells the calls apart.
Rank ==
    CHOOSE f \in [Call -> 1 .. Cardinality(Call)] :
        \A k, l \in Call : f[k] = f[l] => k = l
InOrder ==
    \A k, l \in Call : Rank[k] < Rank[l] =>
        /\ lease[l] # "none" => lease[k] # "none"
        /\ lease[l] = "over" => lease[k] = "over"
=============================================================================
