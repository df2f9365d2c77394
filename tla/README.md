# Lobby service: TLA+ models and proofs

The lobby service seats players of an online quiz in lobbies.  `JoinLobby` is
its only RPC: a stream that first finds or makes a lobby for the player and
then tells the player what becomes of it.  Instances share nothing but a Redis
cluster and NATS.  This directory holds models of that protocol, the TLC
configurations that check them on small instances, and proofs for every
instance.  Paths below are relative to `internal/` unless they say otherwise.

## The system

| Part | State | Operations | Hard behaviour |
|---|---|---|---|
| Lobby record `models/models.go` | roster, borders, version (`int16`) | `CanAddPlayer`, `AddPlayer` | wrap-around, limits |
| Store `apis/store/store.go` | Redis: `lobby:{id}`, `lobby:version:{id}`, `lobby:active:{mode}`, lock `{lobby:id}`, each with a TTL | `AddLobby`, `GetTopLobbies`, `AddPlayer` (lock, `GetLobby`, `AtomicUpdateLobby`, unlock), `RemoveLobby` | two cluster slots per pipeline, lost replies, expiring locks and keys |
| Handler `apis/handler/handler.go` | locals of one call: listed lobbies, excluded ids, attempts | `JoinLobby` | retries, the client leaving at any point |
| Waiter `apis/lobby/` | one goroutine per lobby, in its creator's instance | `WaitForLobbyFill`: ticks, readiness, expiry, error, removal, broadcast | races with joiners, its context ending |
| Streams `apis/streamer/streamer.go` | `localStreams`, `remoteStreams`, NATS subscriptions | `RegisterStream`, `RegisterStreamWithSubscription`, `BroadcastLobbyUpdate`, `PublishLobbyStatus` | late subscriptions, lost messages |
| Matchmaking `apis/matchmaking`, `models/matcher` | table of scorers per mode, filled on demand | `FilterLobbies`, `SelectBestLobby`, `UpdateConfig` | hot reload between two look-ups, double-checked filling, NaN |
| Configuration `handler/config.go`, `lobby/config.go`, `internal/config` | a section per component, replaced at any moment | `UpdateConfig`, getters that raise what is too low | values that change inside a loop |
| Index scores `models/scorer` | table of providers per mode | `CalculateScore` | none but floating point |
| Server `server/server.go`, `main.go` | listeners, closers, the goroutines that serve | `NewServer`, `Start`, `Shutdown` | order of start and stop, streams that do not end, failing listeners |

How they interact: the handler calls the store and the matcher; a call that
makes a lobby starts a waiter, which reads and removes the lobby through the
store and tells its verdict to the creator's stream and, over NATS, to the
joiners' streams.  Calls of all instances meet in Redis only: in the lock, the
version and the records, between any two commands of one another.

What makes each part right:

- *Store*: a stored record is well formed, whatever fails; an acknowledged
  call stays on the roster; no call sits twice on one; `AddPlayer` excludes; removed
  lobbies stay removed; open lobbies stay listed; the clean-up removes dead
  references.
- *Handler*: it ends, in one lobby, unless `AddPlayer` seats it and reports an error.
- *Waiter and streams*: a lobby starts within its borders, and with no call that
  another lobby has started with, under the same condition; one verdict per call; the
  verdict reaches those it is for; waiters end.
- *Matchmaking*: the lobbies of an attempt are ranked by the scorer that filtered them; the
  best, and the first of the best, is asked; a loaded configuration is in force until the
  next; no lobby is asked twice.
- *Server*: a signal ends the process; no stream is dropped before the deadline;
  Redis and NATS are closed after the last stream, and after the last handler if the
  deadline has not forced the stop.

## Modules

| Module | Models |
|---|---|
| `Lobby` | `models.go`: the record, its `int16` arithmetic, `CanAddPlayer`, `AddPlayer`; `isLobbyReady` |
| `LobbyStore` (extends `Lobby`) | `store.go` with the calls that drive it: one action per Redis command or slot transaction |
| `LobbyService` (extends `LobbyStore`) | the handler's control, the waiters and the streams over the store |
| `Scoring` | the scorers and the selection, as operators |
| `Matchmaking` (extends `Scoring`) | the attempt loop over the table of scorers, with hot reloads |
| `ServerLifecycle` | `main`, `NewServer`, `Start`, `Shutdown` with open streams |
| `Roster` | what a caller of the store may rely on: the abstract specification of `LobbyStore` |
| `Verdict` | what a `JoinLobby` call may rely on: the abstract specification of `LobbyService` |
| `LobbyStoreInv`, `LobbyServiceInv` | the inductive invariants, `LobbyStore` as a `Roster` and `LobbyService` as a `Verdict` |
| `LobbyStoreProofs`, `LobbySeatProofs`, `RosterProofs`, `OneLobbyProofs` | theorems about `LobbyStore` |
| `LobbyServiceProofs` | theorems about `LobbyService`, on top of those about the store |
| `ScoringProofs` | lemmas about the scores, and what the selection returns |
| `MatchmakingProofs`, `ServerLifecycleProofs` | theorems about those modules, with their invariants |
| `MCLobbyStore`, `MCLobbyService`, `MCMatchmaking` | borders, configurations, symmetry and bounds for TLC |

### LobbyStore

A *call* is one `JoinLobby` request.  A lobby's id is generated by the call
that makes it and a call makes at most one, so a lobby is named by its
creator: `Call` is the set of calls and of possible lobbies.  A seat is named by the
call it was made for.  What the code stores is the call's `PlayerId`
(`handler.go:79`), which two calls may share, as when a player comes back: `AddPlayer` appends
without looking (`models.go:31`), nothing takes a leaver off a roster, and no code
compares the ids.  Two calls of one player are therefore two newcomers, here and in the code, and every
property below that speaks of seats speaks of *calls*: none says that a player
who calls twice has one seat.

Redis is `record`, `version`, `index`, `mutex`; `pinned` says that the record's keys
were written without a TTL, and `indexTTL` which lobby's remaining time the index was given.
`lease` says whether a lobby's `ExpireAt` has passed.  The rest are a call's locals:
`pc`, what `GetTopLobbies` has read so far, the copy it is writing, and the
slots of its pipeline that are still to be executed.  `acked` and `misled` only
observe: whom the store has told of a seat, and whom an `AddPlayer` has seated although it
ends in an error.

| Code | Actions |
|---|---|
| `GetTopLobbies`, `loadLobbiesByIDs` | `ReadIndex`, `LoadLobby` (an MGET per slot, in any order), `ListFails`, `CleanMissing` |
| `AddPlayer` | `Lock` or `LockFails`, `GetForAdd`, `CheckVersion`, `WriteData` and `WriteIndex`, `Unlock` |
| `AddLobby` | `NewLobbyBegins`, `CheckNew` (per attempt), `WriteData` and `WriteIndex`, `GiveUp` |
| `RemoveLobby` | `RemoveBegins` (of a lobby that is ready or out of time: the waiter's decision), `RemoveData`, `RemoveIndex` |
| time, clients, processes | `DeadlinePasses`, `RecordExpires`, `IndexExpires`, `MutexExpires`, `Cancel`, `Crash` |

`lobby:{id}` and `lobby:version:{id}` share a hash tag and so a slot; the index
has another.  go-redis sends a `TxPipeline` on a cluster as one MULTI/EXEC per
slot: hence two steps, in either order, that fail apart.  A done context
stops every later command, the unlock included.  `Faults` says what else may go
wrong: failing reads (`get`); transactions, SET NX and unlocks that are refused, or
applied with a lost reply (`exec`); a call slower than its lock (`slow`); a killed process
(`crash`).

A call is *misled* when its `AddPlayer` has written the record and returns an error: the
reply was lost, or the index's slot was refused, or not sent since the client had left by
then (`store.go:207-218`).  The handler then goes on to another lobby
(`handler.go:118`), and the call may be on two rosters, of two lobbies that both
start.  `misled` marks exactly those calls; the properties about one lobby per call
except them and nobody else, and hold under every fault.

### LobbyService

Adds the attempts, the subscription, the waiter and what each stream was
told.  `TickDecides` is the waiter's `RemoveBegins`.  Handler and waiter take the store's actions as their own steps.  An attempt's
selection is left open: any listed lobby not yet tried (`JoinBegins`), or none
(`NoCandidate`).  `verdict` and `view` are what the waiter decided, and on
which record.  A tick that finds the lobby waiting (`TickWaits`) changes nothing but a
stream that is gone: its extension of `ExpireAt` (`lobby/state.go:93`) is made in a copy that
nobody reads again, so the lease stays.

### Roster

Redis, locks, versions and copies are gone: a lobby's roster is there or not; it
appears with its maker first and everybody who was told of a seat, grows by one
newcomer at its end, and vanishes.  It may reappear, since `RemoveLobby` excludes nobody.
`LobbyStoreInv` maps `record` and `acked` to it; `StoreKeepsRosters` says that
every step of `LobbyStore` is a step of `Roster` or leaves it alone.

### Verdict

Retries, waiters, subscriptions and the bus are gone.  A call settles in one
lobby; a lobby is decided once, to start with some calls, or to end; a call hears one
verdict: its lobby's, or an error when it has no lobby.  A lobby starts with
its maker, with nobody that another lobby has started with, and with nobody that
has settled elsewhere, gone or not; whom it starts with can settle in it
only.  `Mislead` marks a call that is still searching; the last two promises are not made to
it.  `LobbyServiceInv` maps `seat`, `verdict`, `view`, `told`, `cancelled` and
`misled` to it.  That a call hears of it at all is not part of it, since NATS may lose what is sent.

### Scoring and Matchmaking

A score is an exact ratio whose denominator may be 0, so that 0/0 stands for NaN and behaves
like it.  `Filter` and `Score` have the seven scorers' formulas.  Lobbies are named by
their positions in the list: `FilterLobbies` is the set of those that pass, the loop of
`SelectBestLobby` is `FirstBest`, a recursive function.  An average rating truncates towards 0, as
Go's division does.

| Code | Actions |
|---|---|
| `JoinLobby`, its attempts | `Begin`, `Attempt`, `Seated`, `Refused`; what `AddPlayer` does is `LobbyStore`'s |
| `GetScorer` under the read lock, then filtering or selecting | `LookUp` |
| `GetScorer` under the write lock | `Fill`, which looks again |
| `UpdateConfig` of the two sections | `ReloadMatcher`, `ReloadHandler` |

The lobbies are those `GetTopLobbies` returned: the call never reads them again, so they are
data of the call.  `NewLobbyScorer` builds the configured scorers and drops
them (`scorer.go:31`): `Init` has an empty table.

### ServerLifecycle

Five goroutines: main (`Build`, `Initialize`, `StartServers`, `Register`,
`StartReturns`), one per server (`Listen`, `ServeReturns`), the one that waits for a
signal and runs `Shutdown` (`Notify`, `Select`, `CloseListener`,
`CloseLogger`, `CloseResource`), and the helper of `Shutdown` (`StopHttp`,
`StopGrpc`).  A stream is open, left by its client or cut by the server, and `ended` when its
`JoinLobby` handler has returned (`HandlerReturns`), some time later.  `GracefulStop`
waits for the handlers.  `Stop` does not: `NewServer` does not ask for
`WaitForHandlers` (`server.go:109`), so that after a forced stop a handler may run on
while Redis and NATS are closed.  When main returns or one of them panics, all end.  `Registry` says what
Prometheus answers to a collector it has already: the program as it stands gets `refuses`, and
panics in `NewServer`; `accepts` stands for the program with that call taken out, for all
that comes after it.

## Runs

| Run | Instance | Shows |
|---|---|---|
| `store_safe` | 3 calls, 2 lobbies, borders 2..3, crashes | `MutualExclusion`, `NoLostJoin`, `StoreKeepsRosters` |
| `store_faults` | 3 calls and a lobby of 1..2 or 2..3, or 2 calls with a lobby each, every fault | `TypeOK`, `RecordsWellFormed`, `NoDoubleSeat`, `OneLobbyPerCall` |
| `service_safe` | 2 calls with borders 1..2 and `exec`, or 3 calls with 2..2; lossy bus | `ServiceTypeOK`, `StartedRostersDisjoint`, `StartWithinBorders`, `OneVerdict`, `ServiceKeepsVerdicts` |
| `service_live` | 2 calls, borders 2..2, fairness | `CallsComeToRest`, `WaitersEnd`, `SubscribersHearVerdict`, `LocksFreed` |
| `matchmaking` | 2 calls, 4 modes, a reload of each section | `MatchTypeOK`, `ReloadSticks`, `NoLobbyAskedTwice`, `TriesTwiceAtLeast`, `OneScorerPerAttempt`, `PicksFirstBest` |
| `server_stop` | 2 streams, every failure of start and stop | `LifecycleTypeOK`, `StoreOutlivesStreams`, `NoStreamDroppedEarly`, `SignalEndsProcess` |
| `store_zombie` | no faults | `RemovedStaysRemoved` is violated |
| `store_delisted` | no faults, deadlines in order | `ListingOutlivesLobbies` is violated |
| `store_cleanup` | no faults | `CleanUpCleans` is violated |
| `service_missed_start` | no faults, no cancellation | `StartReachesRoster` is violated |
| `service_silent_end` | no faults, no cancellation | `CreatorHearsTheEnd` is violated |
| `server_panic` | the program as it is | `NeverPanics` is violated |

Each violated property states what a name, a log line or the API's documentation
says of the code at that place; `PROJECT.json` quotes it and says what the
shortest run does.

**Bounds.**  Three calls are a creator and two joiners that race for its lobby,
or two creators and a joiner with a choice; `MaxLobbyAttempts` is 2, the least
the code accepts (`handler/config.go:50`), and `TopLobbiesLimit` 2, so that the index can
exceed it only when all three calls make a lobby.  The constraints cut what does not
interact: `FewLobbies` two lobbies, `OneLobby` one,
`FewCancels` one client that leaves, `OneLeaver` the same one (the calls are alike), `NoCancels`
none, `FewDeadlines` one deadline that passes.  `InOrder` makes deadlines pass in the order
lobbies were made: elsewhere they pass in any order, which covers a changed
`LobbyTLL` and clocks of different instances.  `store_safe` has no `slow`, under which none of
its properties holds, and no `exec`, under which only `MutualExclusion` does.

`PairOrTrio` splits the instances with many faults in two.  In `store_faults` the *pair* is two
calls with a lobby each, of wide borders, of which one runs out of time, a client that leaves
and a process that dies: a call that was seated and told of an error goes on to make its own
lobby.  The *trio* is a maker and two joiners with any borders (a deadline passes with the wide
ones): with 1..2 the joiners race for the last seat, 2..3 leaves room for a call seated twice.  Both have failing reads, half-done transactions, lost
replies and outlived locks.  In `service_safe` the pair has lobbies that
may start with one call, so that one which is misled can start twice, while the creator
may leave with its removal half done; the trio has lobbies that need two, nobody is misled,
everybody stays, and a deadline passes when there is one lobby, or two and all calls have found
theirs.  `FaultsInWrites` keeps the faults of `service_safe` to joins and removals: those of `AddLobby`, and of an unlock, are in `store_faults`.  The theorems
below have neither of these bounds.
`CHECK_DEADLOCK FALSE`: a system whose calls have all returned stops.

`service_live` has two calls, since liveness is checked on the whole graph without
symmetry.  `FewMakers` keeps the behaviours in which one call makes a
lobby and a client may leave, and those in which both make one and nobody leaves.  A
constraint cuts what a call held by fairness would do next only when a second call gives up
finding the first lobby after someone has left; because no call is obliged to come, every behaviour of
one creator alone is there in full.

`matchmaking`: two calls are a filler and a rival.  Of the four modes two are named by each
configuration and two are not, so that both kinds meet the table before and after the
reload; one leaves `blitz` a `maxDiff` of 0.  One offer is a tie of two lobbies, the other has
three that differ in rating, categories, seats and age.  `Limit` 1 is below what the code
accepts, 3 is its default; `MaxReloads` is 1 per section: a second reload finds no more
in the table than the first.  `server_stop` has two streams, one that leaves and one that stays.

**Fairness** (`Fairness` in `LobbyService`): each goroutine, the handler's
and the waiter's, is scheduled while it can take a step; the NATS connection
handles what was sent; deadlines and the lock's expiry come.  Weak fairness is enough: no step is
enabled and disabled for ever by others.  A tick that finds the lobby waiting is possible only before the deadline, which comes: after it
the waiter decides or its context ends.  `ServerLifecycle` assumes the same of its
goroutines, and that `StopTimeout` passes; it obliges no client to leave and nobody to send a
signal.  Nothing obliges a client to come or to leave, or a fault to
happen.

## Proofs

For every set of calls, modes and streams, every borders within `int16`, every limit and
configuration:

| Theorem | Assumes | Says |
|---|---|---|
| `TypeCorrect` | nothing | `[]TypeOK` |
| `RecordsStayWellFormed` | nothing: all faults | `[]RecordsWellFormed` |
| `LocksExclude` | no `slow` | `[]MutualExclusion` |
| `NoJoinIsLost` | no `slow`, no `exec` | `[]NoLostJoin` |
| `NoCallSitsTwice` | nothing: all faults | `[]NoDoubleSeat` |
| `StoreImplementsRoster` | no `slow`, no `exec` | `StoreKeepsRosters` |
| `OneLobbyAtMost` | nothing: all faults | `[]OneLobbyPerCall` |
| `ServiceRunsOnStore` | nothing | `ServiceSpec => Spec`: all of the above hold of the service |
| `ServiceTypeCorrect` | nothing | `[]ServiceTypeOK` |
| `StartsWithinBorders` | nothing: all faults | `[]StartWithinBorders` |
| `NoCallStartsTwice` | nothing: all faults | `[]StartedRostersDisjoint` |
| `VerdictsAreFinal` | nothing: all faults | `[]OneVerdict` |
| `ServiceImplementsVerdict` | nothing: all faults | `ServiceKeepsVerdicts` |
| `SelectsFirstBest` | lobbies and scorers of their types | what `SelectBestLobby` returns, for any list |
| `MatchmakingTypeCorrect` | nothing | `[]MatchTypeOK` |
| `ReloadsStick` | nothing | `[]ReloadSticks` |
| `NobodyGivesUpEarly` | nothing | `[]TriesTwiceAtLeast` |
| `AsksEachLobbyOnce` | nothing | `[]NoLobbyAskedTwice` |
| `AttemptsKeepTheirScorer` | nothing | `[]OneScorerPerAttempt` |
| `AsksTheFirstBest` | nothing | `PicksFirstBest` |
| `LifecycleTypeCorrect` | nothing | `[]LifecycleTypeOK` |
| `StreamsEndFirst` | nothing | `[]StoreOutlivesStreams` |
| `PlayersHaveTheirTime` | nothing | `NoStreamDroppedEarly` |

No `exec` means that no transaction is refused and none loses its reply, so that a
half-done pipeline comes only of a client that has left or a process that was killed.
The assumptions on constants are the modules' own: the borders are pairs of
`int16` (the type of `StatPair`), `NoCall` and `NoLobby` are no call and no record, no
lobby's id is a lobby's key, the limits are positive, `Faults` are fault kinds.  A configuration names
modes and gives them finite numbers and a `max_rating_diff` that is not negative; an offered lobby has
a player, finitely many categories, a maximum and an age that are not negative; `None` is nothing else.

*Types.*  `TypeOK` alone is not inductive: that a write stores a lobby
depends on the writer having a copy and a target.  `TypeInv` adds `Locals`.

*Well-formed records.*  `RecordInv` adds that every copy in a call's memory is well
formed too (`CopiesWellFormed`).  `CopySources` and `RecordSources` list where
a copy and a record can come from in one step; a copy is made by `NewLobby` or by
`AddPlayer` on a well-formed record, and the latter keeps version = number of
seats because a record with room is below an `int16` maximum
(`AddPlayerWF`).

*Mutual exclusion.*  `LockHeld`: a call inside `AddPlayer` is the one whose
value the lock key holds.  Other calls' unlocks spare it, and an expiry
that frees it would be a `slow` fault.

*No lost join.*  `SeatInv` adds: a joiner's copy seats everyone acknowledged so far and is newer
than the stored version (`CopiesCurrent`), so that the version check never
skips it; a joiner past its write is on the roster if there is one
(`WritersSeated`); a creator works on its own record (`OwnLobby`), and can only rewrite it while
nobody else can know of the lobby (`UnbornUnknown`, `Creators`), because where no transaction is
refused or loses its reply a failed attempt means that its context is done.  That is where both assumptions are needed: with
either fault TLC finds a run that loses a join.

*No call sits twice.*  `OnceInv`: a lobby that a call may still try seats the call neither in its
record nor in anybody's copy (`NewcomersOut`), and what it works on it will not try
again (`TriedOnce`).  So `AddPlayer` appends to a roster, and the copy that
comes of it seats nobody twice (`CopiesSeatOnce`), whichever copies are written
later, and in which order.

*The store is a roster.*  `CopiesExtend` adds to `SeatInv` and `OnceInv` that a joiner's copy still to be
written is the record and the joiner, if the record is still there: under
the lock nobody else writes it.  `StepKinds` lists what a step does to the records and to what
callers were told; each kind is a step of `Roster`: a write is `Seat`, or
`Appear` when the record is gone; a removal or expiry is `Vanish`; the return of
`AddPlayer` or `AddLobby` is `Tell`.

*One lobby per call.*  `PlaceInv`: a call on a record, or in a copy that somebody else may write, is
`misled` or `Settled`: through with writing, and told of no error, or about to be told of none.
`WriterSettled` shows that who writes its record is one of the two; `SettledStays` that who is settled stays so, or is misled by the step;
`WriterElsewhere` that a call which writes is placed nowhere else.  Locks have no part in
it, and no fault is excluded.

*The service on the store.*  Each action of handler, waiter and stream is a step of the
store or leaves it alone (`StoreStep`), so every lemma about a step of the store is
at hand.  `ServiceInv`: a waiter past its decision has one, and who starts has a roster.

*Borders of a start.*  `BordersInv` adds `RecordInv`: the waiter decides on a stored record, which is
well formed, so the player count it compares has not wrapped.

*No call starts twice.*  A start removes the record, or fails to, so a place on a record is not
enough to remember: `Taken` is a place on a record, in somebody's copy, or on the roster of a
start.  `StartInv` is `PlaceInv` for that: who is taken is misled, or settled and taken by
one lobby only.

*One verdict.*  `HearsOnce`: a call that searches has no waiter, stream or subscription to hear
from; a lobby's maker has no subscription; a waiter that has not broadcast has told its maker
nothing; what a subscriber heard, or is about to, its lobby's waiter sent last.

*The service is a verdict.*  `HomeInv` joins `StartInv`, `RecordInv`, `VerdictInv` and `OwnLobby` and
adds where a call has its seat at each point (`HomeOf`), that what is on the wire is what its
lobby came to (`WireOf`), that a lobby with a ticking waiter is undecided, and that a call
that is not misled has its seat, if any, where it is taken (`TakenAtHome`).  `SettleStep`, `StartStep`,
`EndStep`, `HearStep` and the `Mislead` of a failing write map the steps that change what `Verdict`
sees; `VerdictStep` shows that no other does.

*What the selection returns.*  The loop is a recursive function; that it is one (`Recursion`) and what
it has found after `n` lobbies are shown by taking the least position at which they would
fail.  An intermediate result is 0 or a candidate with a score that is a number, greater than
that of every candidate before it, less than that of none: so ties go to the first
and NaN to nobody.  `ScoreType` shows that every score is a ratio, for every scorer.

*Matchmaking.*  `MatchInv` has the types of the table and of a call's locals and, per call, that what
it asked is excluded or just selected (`AskInv`), and that the scorer it filtered with
is the table's until the next reload (`FiltererInv`): a fill adds a scorer where there
was none, and a mode that has been looked up has one.  `TableInv`: outside a reload the table of scorers changes only where it has none, and
a mode that the last configuration names has one.  `TriesInv`: what is left to try, and the number
of attempts, stay as they are once the loop has ended, and the limit is at least 2 when it ends.

*Server.*  Types: what is closed was built, who serves has a listener.  `StopInv`: past its select
`Shutdown` has stopped the gRPC server, by the helper or by force; a gRPC server that is
stopped, or does not serve, has no open stream; once the helper is through `GracefulStop` no handler
runs, and none will; past the select none runs unless the deadline has passed; nothing is
closed before the select.

TLC has checked `RecordInv`, `OnceInv` and `PlaceInv` as invariants of the instance of `store_faults`,
`SeatInv` and `CopiesExtend` of the one of `store_safe`; `BordersInv`, `StartInv`, `VerdictInv` and
`HomeInv` of the one of `service_safe`; `MatchInv` of the one of `matchmaking`.

Only model-checked: liveness under fairness (`CallsComeToRest`, `WaitersEnd`,
`SubscribersHearVerdict`, `LocksFreed`, `SignalEndsProcess`), which is out of the prover's reach.  Every
invariant, action property and refinement that a passing run checks is proved.

## Not modelled

- *Index scores* (`models/scorer`): floating point that orders the sorted set; `LobbyStore` lets
  `GetTopLobbies` return any ids, which covers every order.
- *Rounding of scores and overflow of rating sums*: `Scoring` is exact.  *Which lobby* an
  attempt selects is open in `LobbyService`, which covers every scorer and reload of `Matchmaking`.
- *Players*: what a player has who calls twice, see `LobbyStore` above.
- *Waiters at shutdown*: nobody waits for their goroutines, which end with the process or when
  Redis is closed under them; `ServerLifecycle` has the handlers only.
- *The inactive state*: it needs an empty roster, which `RecordsStayWellFormed` excludes.
- *A negative `max_rating_diff`*, with which distances would divide by a negative number.
- *Configurations without modes*, whose nil map `GetConfig` would write to (`matcher/config.go:25`).
- *Replica reads and failover of Redis*, *metrics*, *telemetry*, *generated code*,
  *`GetLobbies` and `GetLobbiesByScore`* (no caller), *`go-common`* (loading and watching
  the configuration, the closer's order).
- *Data races*: the stream manager deletes from an inner map under a read
  lock (`streamer.go:126`); only the lobby's own waiter does so.

## Plan

What a proof could still add: the weakest faults under which `NoJoinIsLost` holds (a lost reply
of a removal or of an unlock does no harm, one of `AddLobby`'s write does); that `Verdict` and
`Roster` have their own invariants (a call hears once, a roster is distinct) as theorems of
those modules; safety lemmas on which the liveness properties rest, such as that a waiting
call's lock has a live holder or will expire.
