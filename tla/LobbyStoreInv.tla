---------------------------- MODULE LobbyStoreInv ----------------------------
(***************************************************************************)
(* The inductive invariants behind the safety properties of LobbyStore.    *)
(* TLC checks them on the instances, LobbyStoreProofs proves them.         *)
(***************************************************************************)
EXTENDS LobbyStore

\* Between the making of a copy and the last use of it.
HasCopy(c) == pc[c] \in {"check", "write", "new", "create", "create_err"}
HasTarget(c) == InCS(c) \/ HasCopy(c)

\* What a call has in hand at each point of its program.
Locals ==
    \A c \in Call :
        /\ HasTarget(c) => target[c] \in Call
        /\ HasCopy(c) => copy[c] \in LobbyRecord

TypeInv == TypeOK /\ Locals

-----------------------------------------------------------------------------
(* For RecordsWellFormed, whatever fails: a stored record and a copy are
   built by NewLobby and AddPlayer alone.                                  *)

WellFormed(r, l) ==
    /\ Len(r.players) >= 1
    /\ r.players[1] = l
    /\ r.version = Len(r.players)
    /\ Len(r.players) = 1 \/ Len(r.players) <= r.max

CopiesWellFormed ==
    \A c \in Call : HasCopy(c) => WellFormed(copy[c], target[c])

RecordInv == TypeInv /\ RecordsWellFormed /\ CopiesWellFormed

-----------------------------------------------------------------------------
(* For NoLostJoin, as long as no transaction is refused or loses its reply
   and no lock outlives its lease: Faults has neither "exec" nor "slow".   *)

\* The lock protects the whole of AddPlayer.
LockHeld == \A c \in Call : InCS(c) => mutex[target[c]] = c

\* A lobby whose record has never been written.
Unborn(l) ==
    /\ pc[l] \notin {"create_err", "created", "gave_up", "dead"}
    /\ pc[l] = "create" => "data" \in slots[l] /\ ~cancelled[l]

\* Nobody but its creator works on it.
UnbornUnknown ==
    \A l \in Call : Unborn(l) =>
        /\ record[l] = NoLobby
        /\ acked[l] = {}
        /\ \A c \in Call :
             /\ l \notin found[c]
             /\ target[c] = l => c = l /\ pc[c] \in {"new", "create"}

\* A creator works on its own lobby, whatever fails.
OwnLobby ==
    \A c \in Call : pc[c] \in {"new", "create", "create_err"} => target[c] = c

\* Only the end of its stream fails it.
Creators ==
    \A c \in Call :
        /\ pc[c] = "create_err" => cancelled[c]
        /\ failed[c] => InCS(c) \/ cancelled[c]

\* A joiner's copy seats everyone the store has acknowledged, and is newer
\* than the stored version until it is written.
CopiesCurrent ==
    \A c \in Call :
        /\ pc[c] \in {"check", "write"} =>
              acked[target[c]] \cup {c} \subseteq Seated(copy[c])
        /\ pc[c] = "check" => version[target[c]] < copy[c].version

\* A joiner that is past its write, and was told no error, is on the roster.
WritersSeated ==
    \A c \in Call :
        (/\ InCS(c) /\ ~failed[c]
         /\ pc[c] = "unlock" \/ (pc[c] = "write" /\ "data" \notin slots[c])
         /\ record[target[c]] # NoLobby)
        => c \in Seated(record[target[c]])

SeatInv ==
    /\ RecordInv
    /\ LockHeld
    /\ UnbornUnknown
    /\ OwnLobby
    /\ Creators
    /\ CopiesCurrent
    /\ WritersSeated
    /\ NoLostJoin

-----------------------------------------------------------------------------
(* For NoDoubleSeat, whatever fails: a call makes one copy of a lobby.     *)

\* A lobby of which the call has not made a copy, and still may.
Untried(c, l) ==
    \/ pc[c] \in {"start", "load", "zrem"}
    \/ l \in found[c]
    \/ pc[c] = "get" /\ target[c] = l

\* What a call works on it will not try again.
TriedOnce == \A c \in Call : HasTarget(c) => target[c] \notin found[c]

\* A lobby that a call may still try seats it neither in its record nor in
\* anybody's copy.
NewcomersOut ==
    \A c, l \in Call : Untried(c, l) =>
        /\ record[l] # NoLobby => c \notin Seated(record[l])
        /\ \A d \in Call : (HasCopy(d) /\ target[d] = l) => c \notin Seated(copy[d])

OneSeatEach(r) ==
    \A i, j \in DOMAIN r.players : r.players[i] = r.players[j] => i = j

CopiesSeatOnce == \A d \in Call : HasCopy(d) => OneSeatEach(copy[d])

OnceInv == TypeInv /\ TriedOnce /\ NewcomersOut /\ CopiesSeatOnce /\ NoDoubleSeat

-----------------------------------------------------------------------------
(* For OneLobbyPerCall, whatever fails: a call that was not misled has one
   place at most, and while it may still write, none but where it writes.  *)

\* On the record of a lobby, or on what somebody else may write there.
Placed(c, l) ==
    \/ record[l] # NoLobby /\ c \in Seated(record[l])
    \/ \E d \in Call \ {c} : HasCopy(d) /\ target[d] = l /\ c \in Seated(copy[d])

\* A call that has its lobby, or is about to learn that it has.
Settled(c, l) ==
    \/ pc[c] \in {"joined", "created", "gave_up", "dead"}
    \/ pc[c] \in {"new", "create", "create_err"} /\ target[c] = l
    \/ /\ pc[c] \in {"write", "unlock"}
       /\ target[c] = l /\ ~failed[c] /\ "data" \notin slots[c]

PlacedSettled ==
    \A c, l \in Call : Placed(c, l) => misled[c] \/ Settled(c, l)

OnePlace ==
    \A c, k, l \in Call : Placed(c, k) /\ Placed(c, l) => k = l \/ misled[c]

PlaceInv == TypeInv /\ PlacedSettled /\ OnePlace

-----------------------------------------------------------------------------
(* The store as a roster, see Roster.                                      *)

\* A joiner's copy that is still to be written is the record, if it is still
\* there, and the joiner.
Pending(c) == pc[c] = "check" \/ (pc[c] = "write" /\ "data" \in slots[c])
CopiesExtend ==
    \A c \in Call : Pending(c) =>
        \/ record[target[c]] = NoLobby
        \/ copy[c].players = Append(record[target[c]].players, c)

Players(l) == IF record[l] = NoLobby THEN <<>> ELSE record[l].players

R == INSTANCE Roster WITH
        roster <- [l \in Call |-> Players(l)], told <- acked

\* Redis, lock, version and copies together keep rosters that only grow, by
\* one newcomer a time, until they vanish, and on which everyone stays who was
\* told of a seat, as long as no transaction is refused or loses its reply and
\* no lock is outlived (store.go:44-81, 143-221).
StoreKeepsRosters == R!RosterSpec
=============================================================================
