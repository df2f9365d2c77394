-------------------------------- MODULE Roster --------------------------------
(***************************************************************************)
(* What a caller of apis/store may rely on, with no word of Redis, locks   *)
(* or versions: each lobby has a roster that is there or is not.  While it *)
(* is there it grows by one newcomer at a time, at its end; a lobby that   *)
(* comes (back) has its maker first and everyone who was told of a seat.   *)
(***************************************************************************)
EXTENDS Naturals, Sequences

CONSTANT Call   \* JoinLobby calls; a lobby is named by the call that makes it

VARIABLES
    roster,  \* of each lobby; <<>> is no lobby
    told     \* of each lobby: the calls that were told they have a seat

rvars == <<roster, told>>

On(s) == {s[i] : i \in DOMAIN s}
Distinct(s) == \A i, j \in DOMAIN s : s[i] = s[j] => i = j

RosterInit ==
    /\ roster = [l \in Call |-> <<>>]
    /\ told = [l \in Call |-> {}]

Appear(l) ==
    /\ roster[l] = <<>>
    /\ roster' = [roster EXCEPT ![l] = roster'[l]]
    /\ told' \in {told, [told EXCEPT ![l] = @ \cup {l}]}
    /\ roster'[l] # <<>>
    /\ roster'[l][1] = l
    /\ Distinct(roster'[l])
    /\ told'[l] \subseteq On(roster'[l])

Seat(l) ==
    /\ roster[l] # <<>>
    /\ \E c \in Call \ On(roster[l]) :
         roster' = [roster EXCEPT ![l] = Append(@, c)]
    /\ UNCHANGED told

Vanish(l) ==
    /\ roster' = [roster EXCEPT ![l] = <<>>]
    /\ UNCHANGED told

Tell(l) ==
    /\ \E c \in Call :
         /\ roster[l] # <<>> => c \in On(roster[l])
         /\ told' = [told EXCEPT ![l] = @ \cup {c}]
    /\ UNCHANGED roster

RosterNext == \E l \in Call : Appear(l) \/ Seat(l) \/ Vanish(l) \/ Tell(l)

RosterSpec == RosterInit /\ [][RosterNext]_rvars
=============================================================================
