------------------------------- MODULE Verdict -------------------------------
(***************************************************************************)
(* What a JoinLobby call may rely on of apis/handler, apis/lobby and       *)
(* apis/streamer together, with no word of Redis, retries, waiters or      *)
(* subscriptions: a call settles in one lobby at most, a lobby is decided  *)
(* once, and a call hears one verdict, its own lobby's, or before it has a *)
(* lobby, that there is an error.  Who is on the roster a lobby starts     *)
(* with settles in no other, and starts with no other: except for the      *)
(* calls that were seated by an attempt that told them it had failed.      *)
(***************************************************************************)
EXTENDS Naturals

CONSTANTS
    Call,    \* JoinLobby calls; a lobby is named by the call that makes it
    Nowhere  \* the home of a call without a lobby

VARIABLES
    home,     \* the lobby each call ends up in
    outcome,  \* of each lobby: nothing yet, or its verdict
    starters, \* of each lobby: the calls it starts with
    heard,    \* of each call: the verdicts it was told
    left,     \* of each call: has its client gone?
    misled    \* of each call: did a join seat it and report a failure?

wvars == <<home, outcome, starters, heard, left, misled>>

VerdictInit ==
    /\ home = [c \in Call |-> Nowhere]
    /\ outcome = [l \in Call |-> "nothing"]
    /\ starters = [l \in Call |-> {}]
    /\ heard = [c \in Call |-> {}]
    /\ left = [c \in Call |-> FALSE]
    /\ misled = [c \in Call |-> FALSE]

Settle(c) ==
    /\ home[c] = Nowhere
    /\ heard[c] = {}
    /\ \E l \in Call :
         /\ misled[c] \/ \A k \in Call : c \in starters[k] => k = l
         /\ home' = [home EXCEPT ![c] = l]
    /\ UNCHANGED <<outcome, starters, heard, left, misled>>

\* The calls a lobby can start with.
Free(l, s) ==
    /\ l \in s
    /\ \A k \in Call : \A c \in starters[k] \cap s : misled[c]
    /\ \A c \in s : misled[c] \/ home[c] \in {Nowhere, l}

Start(l) ==
    /\ outcome[l] = "nothing"
    /\ outcome' = [outcome EXCEPT ![l] = "STARTING"]
    /\ \E s \in SUBSET Call :
         Free(l, s) /\ starters' = [starters EXCEPT ![l] = s]
    /\ UNCHANGED <<home, heard, left, misled>>

End(l) ==
    /\ outcome[l] = "nothing"
    /\ \E v \in {"TIMEOUT", "ERROR"} : outcome' = [outcome EXCEPT ![l] = v]
    /\ UNCHANGED <<home, starters, heard, left, misled>>

Hear(c) ==
    /\ ~left[c]
    /\ heard[c] = {}
    /\ \E v \in {"STARTING", "TIMEOUT", "ERROR"} :
         /\ v = IF home[c] = Nowhere THEN "ERROR" ELSE outcome[home[c]]
         /\ heard' = [heard EXCEPT ![c] = {v}]
    /\ UNCHANGED <<home, outcome, starters, left, misled>>

Leave(c) ==
    /\ left' = [left EXCEPT ![c] = TRUE]
    /\ UNCHANGED <<home, outcome, starters, heard, misled>>

\* A join fails after it has seated the call; the call is still searching.
Mislead(c) ==
    /\ home[c] = Nowhere
    /\ heard[c] = {}
    /\ misled' = [misled EXCEPT ![c] = TRUE]
    /\ UNCHANGED <<home, outcome, starters, heard, left>>

VerdictNext ==
    \E c \in Call :
        Settle(c) \/ Start(c) \/ End(c) \/ Hear(c) \/ Leave(c) \/ Mislead(c)

VerdictSpec == VerdictInit /\ [][VerdictNext]_wvars
=============================================================================
