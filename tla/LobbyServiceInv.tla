--------------------------- MODULE LobbyServiceInv ---------------------------
(***************************************************************************)
(* The inductive invariants behind the safety properties of LobbyService.  *)
(* TLC checks them on the instances, LobbyServiceProofs proves them.       *)
(***************************************************************************)
EXTENDS LobbyService, LobbyStoreInv

\* A waiter past its decision has one, and a start has its roster.
Decided ==
    \A l \in Call :
        /\ waiter[l] \in {"remove", "broadcast", "publish"} => verdict[l] \in Verdicts
        /\ Starting(l) => view[l] \in LobbyRecord

ServiceInv == TypeInv /\ ServiceTypeOK /\ Decided

\* For StartWithinBorders, whatever fails.
BordersInv == ServiceInv /\ RecordInv /\ StartWithinBorders

-----------------------------------------------------------------------------
(* For StartedRostersDisjoint, whatever fails: a place in a lobby that has
   started counts for good, although its record is gone.                   *)

Taken(c, l) == Placed(c, l) \/ (Starting(l) /\ c \in Seated(view[l]))

TakenSettled ==
    \A c, l \in Call : Taken(c, l) => misled[c] \/ Settled(c, l)

OneTaken ==
    \A c, k, l \in Call : Taken(c, k) /\ Taken(c, l) => k = l \/ misled[c]

StartInv == ServiceInv /\ TakenSettled /\ OneTaken

-----------------------------------------------------------------------------
(* For OneVerdict, whatever fails: a call is told by GetTopLobbies' error,
   by the waiter of the lobby it made, or by the one of the lobby it joined,
   and by each of them once.                                               *)

\* A call that looks for no lobby any more.
Searched(c) == pc[c] \in {"list_err", "joined", "created", "gave_up", "dead"}

\* A call that still does has heard nothing, and nobody could tell it anything.
SearcherUntold(c) ==
    /\ ~Searched(c) => phase[c] = "searching"
    /\ phase[c] = "searching" =>
          /\ ~local[c] /\ sub[c] = "none" /\ wire[c] = "nothing"
          /\ told[c] = {} /\ waiter[c] = "off"

\* Who made a lobby has no subscription; its own waiter alone talks to it.
MakerUnsubscribed(c) ==
    waiter[c] # "off" \/ local[c] \/ phase[c] = "spawned" =>
        sub[c] = "none" /\ wire[c] = "nothing"

\* A waiter that has not broadcast has told its creator nothing.
MakerHearsOnce(c) == waiter[c] \in {"wait", "remove", "broadcast"} => told[c] = {}

\* What a subscriber has heard, or is about to, is the last its lobby's waiter
\* does.
JoinerHearsOnce(c) ==
    /\ wire[c] # "nothing" => sub[c] # "none" /\ told[c] = {}
    /\ (sub[c] # "none" /\ (wire[c] # "nothing" \/ told[c] # {}))
          => seat[c] \in Call /\ waiter[seat[c]] = "done"

ToldOne(c) == \A v, w \in told[c] : v = w

HearsOnce(c) ==
    /\ SearcherUntold(c)
    /\ MakerUnsubscribed(c)
    /\ MakerHearsOnce(c)
    /\ JoinerHearsOnce(c)
    /\ ToldOne(c)

VerdictInv == ServiceInv /\ \A c \in Call : HearsOnce(c)

-----------------------------------------------------------------------------
(* The service as what a player may rely on, see Verdict.                  *)

\* From NewLobby to the end.
Making(c) == pc[c] \in {"new", "create", "create_err", "created", "gave_up"}

\* A call gets its seat with the last step of its search, or with its waiter.
HomeOf(c) ==
    /\ seat[c] # NoCall => pc[c] \in {"joined", "created", "gave_up", "dead"}
    /\ pc[c] = "joined" => seat[c] \in Call
    /\ Making(c) /\ phase[c] = "searching" => seat[c] = NoCall
    /\ phase[c] = "spawned" \/ local[c] \/ waiter[c] # "off" => seat[c] = c

\* What a subscriber is about to hear is what its own lobby came to.
WireOf(c) ==
    /\ sub[c] # "none" => seat[c] \in Call
    /\ wire[c] # "nothing" => wire[c] = verdict[seat[c]]

\* A lobby is undecided until its waiter has decided.
Undecided(l) == waiter[l] \in {"off", "wait"} => verdict[l] = "nothing"

\* A call that was not misled has its seat where it has its place.
TakenAtHome ==
    \A c, l \in Call : Taken(c, l) =>
        \/ misled[c]
        \/ (Making(c) => l = c) /\ seat[c] \in {NoCall, l}

HomeInv ==
    /\ StartInv
    /\ RecordInv
    /\ VerdictInv
    /\ OwnLobby
    /\ TakenAtHome
    /\ \A c \in Call : HomeOf(c) /\ WireOf(c) /\ Undecided(c)

Starters(l) == IF Starting(l) THEN Seated(view[l]) ELSE {}

V == INSTANCE Verdict WITH
        Nowhere <- NoCall, home <- seat, outcome <- verdict,
        starters <- [l \in Call |-> Starters(l)], heard <- told, left <- cancelled

\* Whatever fails, handlers, waiters and the bus together decide each lobby
\* once, tell each call nothing but its own lobby's verdict, and that once,
\* and start no two lobbies with one call, nor one with a call that has its
\* seat elsewhere, unless AddPlayer wrote that call on a roster and returned
\* an error (handler.go:85-180, waiter.go:41-70, streamer.go:44-132).
ServiceKeepsVerdicts == V!VerdictSpec
=============================================================================
