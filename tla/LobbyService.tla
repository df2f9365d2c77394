---------------------------- MODULE LobbyService ----------------------------
(***************************************************************************)
(* A JoinLobby call from its request to the end of its stream: the handler *)
(* (internal/apis/handler), the waiter it starts for the lobby it makes    *)
(* (internal/apis/lobby) and the stream manager that carries the waiter's  *)
(* verdict to the players (internal/apis/streamer), over LobbyStore.       *)
(*                                                                         *)
(* Every step that touches Redis is an action of LobbyStore; this module   *)
(* says when the handler and the waiter take it.  That a stream was told   *)
(* WAITING is not recorded: `told' is about the verdicts.                  *)
(***************************************************************************)
EXTENDS LobbyStore

CONSTANTS
    MaxLobbyAttempts,  \* tries to join a lobby, and to store a new one
    LossyBus           \* may NATS refuse a Subscribe or a Publish?

ASSUME AttemptsAssumption == MaxLobbyAttempts \in Nat \ {0}
ASSUME BusAssumption == LossyBus \in BOOLEAN

VARIABLES
    tries,    \* attempts used up in the handler's current loop
    phase,    \* where the handler is once it has, or has made, a lobby
    seat,     \* the lobby the call ended up in, as the handler believes
    local,    \* is the creator's stream in localStreams?
    sub,      \* the joiner's NATS subscription: none, sent, active
    told,     \* the verdicts sent down the call's stream
    wire,     \* a verdict published and not yet delivered to the call
    waiter,   \* where the waiter of each lobby is
    verdict,  \* what the waiter has decided to tell
    view      \* the record it decided on

handler == <<tries, phase, seat>>
streams == <<local, sub, told, wire>>
waiting == <<waiter, verdict, view>>
svars == <<vars, handler, streams, waiting>>

\* The final statuses of lobby.v1.Status.
Verdicts == {"STARTING", "TIMEOUT", "ERROR"}

ServiceTypeOK ==
    /\ tries \in [Call -> 0 .. MaxLobbyAttempts]
    /\ phase \in [Call -> {"searching", "spawned", "parked", "returned"}]
    /\ seat \in [Call -> Call \cup {NoCall}]
    /\ local \in [Call -> BOOLEAN]
    /\ sub \in [Call -> {"none", "sent", "active"}]
    /\ told \in [Call -> SUBSET Verdicts]
    /\ wire \in [Call -> Verdicts \cup {"nothing"}]
    /\ waiter \in [Call -> {"off", "wait", "remove", "broadcast", "publish", "done"}]
    /\ verdict \in [Call -> Verdicts \cup {"nothing"}]
    /\ view \in [Call -> LobbyRecord \cup {NoLobby}]

ServiceInit ==
    /\ Init
    /\ tries = [c \in Call |-> 0]
    /\ phase = [c \in Call |-> "searching"]
    /\ seat = [c \in Call |-> NoCall]
    /\ local = [c \in Call |-> FALSE]
    /\ sub = [c \in Call |-> "none"]
    /\ told = [c \in Call |-> {}]
    /\ wire = [c \in Call |-> "nothing"]
    /\ waiter = [l \in Call |-> "off"]
    /\ verdict = [l \in Call |-> "nothing"]
    /\ view = [l \in Call |-> NoLobby]

\* stream.Send: it fails when the stream is done, and nobody is told.
Sent(to, v) ==
    [c \in Call |-> IF c \in to /\ ~cancelled[c] THEN told[c] \cup {v} ELSE told[c]]

-----------------------------------------------------------------------------
(* The handler *)

\* Mutant: handler.go:99 and 154 with <=.
MoreTriesOffByOne(c) == tries[c] <= MaxLobbyAttempts

MoreTries(c) == tries[c] < MaxLobbyAttempts

\* Mutant: attempt++ left out.
TryUncounted(c) == c \in Call /\ UNCHANGED tries

Try(c) == tries' = [tries EXCEPT ![c] = @ + 1]

\* GetTopLobbies, and its error: sendErrorStatus, then the call returns.
List(c) ==
    /\ \/ ReadIndex(c)
       \/ \E l \in Call : LoadLobby(c, l)
       \/ CleanMissing(c)
    /\ UNCHANGED <<handler, streams, waiting>>

ListError(c) ==
    /\ ListFails(c)
    /\ told' = Sent({c}, "ERROR")
    /\ phase' = [phase EXCEPT ![c] = "returned"]
    /\ UNCHANGED <<tries, seat, local, sub, wire, waiting>>

\* An attempt whose matchmaking selects nothing (all filtered, or no score):
\* it is used up, and no lobby is excluded.
NoCandidate(c) ==
    /\ pc[c] = "listed"
    /\ found[c] # {}
    /\ MoreTries(c)
    /\ Try(c)
    /\ UNCHANGED <<vars, phase, seat, streams, waiting>>

\* An attempt that selects a lobby and calls AddPlayer for it.
JoinBegins(c) ==
    /\ MoreTries(c)
    /\ \E l \in Call : Lock(c, l) \/ LockFails(c, l)
    /\ Try(c)
    /\ UNCHANGED <<phase, seat, streams, waiting>>

JoinProceeds(c) ==
    /\ GetForAdd(c) \/ CheckVersion(c)
       \/ (pc[c] = "write" /\ (WriteData(c) \/ WriteIndex(c)))
    /\ UNCHANGED <<handler, streams, waiting>>

JoinEnds(c) ==
    /\ Unlock(c)
    /\ seat' = [seat EXCEPT ![c] = IF failed[c] THEN @ ELSE target[c]]
    /\ UNCHANGED <<tries, phase, streams, waiting>>

\* RegisterStreamWithSubscription, after AddPlayer has returned.  Subscribe
\* only queues the SUB: another connection's message may overtake it.
Subscribe(c) ==
    /\ pc[c] = "joined"
    /\ phase[c] = "searching"
    /\ \/ sub' = [sub EXCEPT ![c] = "sent"]
       \/ LossyBus /\ UNCHANGED sub
    /\ phase' = [phase EXCEPT ![c] = "parked"]
    /\ UNCHANGED <<vars, tries, seat, local, told, wire, waiting>>

SubscriptionActive(c) ==
    /\ sub[c] = "sent"
    /\ sub' = [sub EXCEPT ![c] = "active"]
    /\ UNCHANGED <<vars, handler, local, told, wire, waiting>>

\* No lobby left to try, or no attempt.
CreateBegins(c) ==
    /\ found[c] = {} \/ ~MoreTries(c)
    /\ NewLobbyBegins(c)
    /\ tries' = [tries EXCEPT ![c] = 0]
    /\ UNCHANGED <<phase, seat, streams, waiting>>

CreateProceeds(c) ==
    /\ \/ CheckNew(c) /\ MoreTries(c) /\ Try(c)
       \/ pc[c] = "create" /\ (WriteData(c) \/ WriteIndex(c)) /\ UNCHANGED tries
       \/ GiveUp(c) /\ ~MoreTries(c) /\ UNCHANGED tries
    /\ UNCHANGED <<phase, seat, streams, waiting>>

\* `go h.waiter.WaitForLobbyFill', whether AddLobby ever succeeded or not.
SpawnWaiter(c) ==
    /\ pc[c] \in {"created", "gave_up"}
    /\ phase[c] = "searching"
    /\ seat' = [seat EXCEPT ![c] = c]
    /\ waiter' = [waiter EXCEPT ![c] = "wait"]
    /\ phase' = [phase EXCEPT ![c] = "spawned"]
    /\ UNCHANGED <<vars, tries, streams, verdict, view>>

\* RegisterStream; then the handler waits for the end of the stream.
Register(c) ==
    /\ pc[c] # "dead"
    /\ phase[c] = "spawned"
    /\ local' = [local EXCEPT ![c] = TRUE]
    /\ phase' = [phase EXCEPT ![c] = "parked"]
    /\ UNCHANGED <<vars, tries, seat, sub, told, wire, waiting>>

\* <-ctx.Done(): the call returns, and the goroutines that watch the stream
\* take it out of localStreams or unsubscribe it.
Leave(c) ==
    /\ pc[c] # "dead"
    /\ phase[c] = "parked"
    /\ cancelled[c]
    /\ phase' = [phase EXCEPT ![c] = "returned"]
    /\ local' = [local EXCEPT ![c] = FALSE]
    /\ sub' = [sub EXCEPT ![c] = "none"]
    /\ wire' = [wire EXCEPT ![c] = "nothing"]
    /\ UNCHANGED <<vars, tries, seat, told, waiting>>

-----------------------------------------------------------------------------
(* The waiter *)

\* A tick that reads the record, finds the lobby expired or ready, and goes
\* on to removeLobby.
TickDecides(l) ==
    /\ waiter[l] = "wait"
    /\ RemoveBegins(l)
    /\ \/ /\ lease[l] = "over"
          /\ verdict' = [verdict EXCEPT ![l] = "TIMEOUT"]
       \/ /\ lease[l] # "over"
          /\ \E settled \in BOOLEAN : Ready(record[l], settled)
          /\ verdict' = [verdict EXCEPT ![l] = "STARTING"]
    /\ view' = [view EXCEPT ![l] = record[l]]
    /\ waiter' = [waiter EXCEPT ![l] = "remove"]
    /\ UNCHANGED <<handler, streams>>

\* A tick that finds the lobby waiting.  With enough players and little time
\* left it extends ExpireAt, in the copy it has just read: nobody reads that
\* again, so `lease' stays.  The WAITING update drops a stream whose client
\* has left since.
TickWaits(l) ==
    /\ pc[l] # "dead"
    /\ waiter[l] = "wait"
    /\ record[l] # NoLobby
    /\ lease[l] # "over"
    /\ \E settled \in BOOLEAN : ~Ready(record[l], settled)
    /\ local' = [local EXCEPT ![l] = @ /\ ~cancelled[l]]
    /\ UNCHANGED <<vars, handler, sub, told, wire, waiting>>

\* A tick whose GetLobby fails, or finds nothing.
TickFails(l) ==
    /\ pc[l] # "dead"
    /\ waiter[l] = "wait"
    /\ ReadFails(l) \/ record[l] = NoLobby \/ lease[l] = "over"
    /\ verdict' = [verdict EXCEPT ![l] = "ERROR"]
    /\ waiter' = [waiter EXCEPT ![l] = "broadcast"]
    /\ UNCHANGED <<vars, handler, streams, view>>

\* The lobby's context is done first: the waiter returns without a word.
WaiterCtxDone(l) ==
    /\ pc[l] # "dead"
    /\ waiter[l] = "wait"
    /\ cancelled[l] \/ lease[l] = "over"
    /\ waiter' = [waiter EXCEPT ![l] = "done"]
    /\ UNCHANGED <<vars, handler, streams, verdict, view>>

\* Mutant: removeLobby retries until the record is gone.
RemoveOrStay(l) ==
    /\ waiter[l] = "remove"
    /\ RemoveData(l) \/ RemoveIndex(l)
    /\ waiter' = [waiter EXCEPT ![l] =
                    IF removing'[l] = {} /\ record'[l] = NoLobby
                    THEN "broadcast" ELSE @]
    /\ UNCHANGED <<handler, streams, verdict, view>>

\* removeLobby, which only logs an error.
Remove(l) ==
    /\ waiter[l] = "remove"
    /\ RemoveData(l) \/ RemoveIndex(l)
    /\ waiter' = [waiter EXCEPT ![l] = IF removing'[l] = {} THEN "broadcast" ELSE @]
    /\ UNCHANGED <<handler, streams, verdict, view>>

\* Mutant: the return of waiter.go:52 left out, the waiter ticks on.
BroadcastAndStay(l) ==
    /\ pc[l] # "dead"
    /\ waiter[l] = "broadcast"
    /\ told' = Sent(IF local[l] THEN {l} ELSE {}, verdict[l])
    /\ waiter' = [waiter EXCEPT ![l] = IF verdict[l] = "ERROR" THEN "wait" ELSE "publish"]
    /\ local' = [local EXCEPT ![l] = @ /\ ~cancelled[l]]
    /\ UNCHANGED <<vars, handler, sub, wire, verdict, view>>

\* Mutant: broadcastStatus does not publish when it could not send.
BroadcastOrQuit(l) ==
    /\ pc[l] # "dead"
    /\ waiter[l] = "broadcast"
    /\ told' = Sent(IF local[l] THEN {l} ELSE {}, verdict[l])
    /\ waiter' = [waiter EXCEPT ![l] = IF verdict[l] = "ERROR" \/ cancelled[l]
                                       THEN "done" ELSE "publish"]
    /\ local' = [local EXCEPT ![l] = @ /\ ~cancelled[l]]
    /\ UNCHANGED <<vars, handler, sub, wire, verdict, view>>

\* Mutant: the local streams of every lobby are sent to.
BroadcastToAll(l) ==
    /\ pc[l] # "dead"
    /\ waiter[l] = "broadcast"
    /\ told' = Sent({k \in Call : local[k]}, verdict[l])
    /\ waiter' = [waiter EXCEPT ![l] = IF verdict[l] = "ERROR" THEN "done" ELSE "publish"]
    /\ local' = [k \in Call |-> local[k] /\ ~cancelled[k]]
    /\ UNCHANGED <<vars, handler, sub, wire, verdict, view>>

\* BroadcastLobbyUpdate to this instance's streams of the lobby.  Only the
\* creator's is there: a joiner's goes to remoteStreams, which nobody reads.
\* A stream that cannot be sent to is dropped.
Broadcast(l) ==
    /\ pc[l] # "dead"
    /\ waiter[l] = "broadcast"
    /\ told' = Sent(IF local[l] THEN {l} ELSE {}, verdict[l])
    /\ waiter' = [waiter EXCEPT ![l] = IF verdict[l] = "ERROR" THEN "done" ELSE "publish"]
    /\ local' = [local EXCEPT ![l] = @ /\ ~cancelled[l]]
    /\ UNCHANGED <<vars, handler, sub, wire, verdict, view>>

\* PublishLobbyStatus: NATS hands it to the subscriptions it knows of.  An
\* error is only logged.
Publish(l) ==
    /\ pc[l] # "dead"
    /\ waiter[l] = "publish"
    /\ \/ wire' = [c \in Call |-> IF sub[c] = "active" /\ seat[c] = l
                                  THEN verdict[l] ELSE wire[c]]
       \/ LossyBus /\ UNCHANGED wire
    /\ waiter' = [waiter EXCEPT ![l] = "done"]
    /\ UNCHANGED <<vars, handler, local, sub, told, verdict, view>>

\* The subscription's callback.
Deliver(c) ==
    /\ pc[c] # "dead"
    /\ wire[c] # "nothing"
    /\ told' = Sent({c}, wire[c])
    /\ wire' = [wire EXCEPT ![c] = "nothing"]
    /\ UNCHANGED <<vars, handler, local, sub, waiting>>

-----------------------------------------------------------------------------
HandlerStep(c) ==
    \/ List(c)
    \/ ListError(c)
    \/ NoCandidate(c)
    \/ JoinBegins(c)
    \/ JoinProceeds(c)
    \/ JoinEnds(c)
    \/ Subscribe(c)
    \/ CreateBegins(c)
    \/ CreateProceeds(c)
    \/ SpawnWaiter(c)
    \/ Register(c)
    \/ Leave(c)

WaiterStep(l) ==
    \/ TickDecides(l)
    \/ TickWaits(l)
    \/ TickFails(l)
    \/ WaiterCtxDone(l)
    \/ Remove(l)
    \/ Broadcast(l)
    \/ Publish(l)

ServiceNext ==
    \/ \E c \in Call :
         HandlerStep(c) \/ WaiterStep(c) \/ SubscriptionActive(c) \/ Deliver(c)
    \/ Environment /\ UNCHANGED <<handler, streams, waiting>>

\* Goroutines run; time passes; NATS and the lock's expiry get there.  A
\* player is obliged neither to come nor to leave.
Fairness ==
    \A c \in Call :
        /\ WF_svars(pc[c] # "start" /\ HandlerStep(c))
        /\ WF_svars(WaiterStep(c))
        /\ WF_svars(SubscriptionActive(c) \/ Deliver(c))
        /\ WF_svars(DeadlinePasses(c) /\ UNCHANGED <<handler, streams, waiting>>)
        /\ WF_svars(MutexExpires(c) /\ UNCHANGED <<handler, streams, waiting>>)

ServiceSpec == ServiceInit /\ [][ServiceNext]_svars
FairServiceSpec == ServiceSpec /\ Fairness

-----------------------------------------------------------------------------
(* What the service promises *)

Starting(l) == verdict[l] = "STARTING"

\* Two lobbies start with the same call on their rosters only if AddPlayer
\* wrote it on one of them and then returned an error; no refusal, failed
\* removal, retry or departure does it otherwise (handler.go:118-133).
StartedRostersDisjoint ==
    \A k, l \in Call :
        (k # l /\ Starting(k) /\ Starting(l))
            => \A c \in Seated(view[k]) \cap Seated(view[l]) : misled[c]

\* A lobby starts with enough players, and with no more than it has room for
\* (state.go:144, models.go:27).
StartWithinBorders ==
    \A l \in Call : Starting(l) =>
        /\ Len(view[l].players) >= view[l].min
        /\ Len(view[l].players) <= view[l].max \/ view[l].players = <<l>>

\* No call hears two verdicts: after ERROR, TIMEOUT or STARTING nothing
\* contradicts it (waiter.go:45-65).
OneVerdict ==
    \A c \in Call : Cardinality(told[c]) <= 1

\* Every call comes to rest: it has or has made a lobby and waits for its
\* stream to end, or it has returned.  No lock, retry or failure holds it
\* forever (handler.go:99, 154).
CallsComeToRest ==
    \A c \in Call :
        (pc[c] # "start") ~> (phase[c] \in {"parked", "returned"})

\* Every waiter ends (waiter.go:41-70), the server is not left with one per
\* lobby ever made.
WaitersEnd ==
    \A l \in Call : (waiter[l] # "off") ~> (waiter[l] = "done")

\* A call whose subscription was in place when the waiter decided hears that
\* verdict, unless its client leaves first; the creator's leaving in between
\* does not stop it (state.go:57-87).
SubscribersHearVerdict ==
    \A l \in Call : \A c \in Call \ {l} :
        (waiter[l] = "remove" /\ sub[c] = "active" /\ seat[c] = l)
            ~> (verdict[l] \in told[c] \/ cancelled[c])

\* A lobby's lock is freed even if the call that took it left and its unlock
\* was not sent (store.go:147, 158).
LocksFreed ==
    \A l \in Call : (mutex[l] # NoCall) ~> (mutex[l] = NoCall)

\* A waiter that is done has told its lobby's creator, if that one is there
\* to hear it, how the lobby ended (lobby.pb.go:32 "Lobby is expired and
\* player should find another one").
CreatorHearsTheEnd ==
    \A l \in Call :
        (waiter[l] = "done" /\ local[l] /\ ~cancelled[l]) => told[l] # {}

\* Once a lobby has started, everyone on its roster who is still there and
\* has a working subscription was told so, or is about to be (lobby.pb.go:31
\* "Lobby is ready to start a game").
StartReachesRoster ==
    \A l \in Call : \A c \in Call :
        (/\ waiter[l] = "done"
         /\ Starting(l)
         /\ c \in Seated(view[l]) \ {l}
         /\ sub[c] = "active"
         /\ ~cancelled[c])
        => "STARTING" \in told[c] \cup {wire[c]}
=============================================================================
