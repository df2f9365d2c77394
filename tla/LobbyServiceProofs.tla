-------------------------- MODULE LobbyServiceProofs --------------------------
(***************************************************************************)
(* Proofs about LobbyService, for every set of calls and every choice of   *)
(* borders, limits, bus and faults.                                        *)
(***************************************************************************)
EXTENDS LobbyServiceInv, OneLobbyProofs, FiniteSetTheorems

-----------------------------------------------------------------------------
(* The service runs on the store *)

\* Every step of the handler, the waiter, the streams and the environment is
\* a step of the store or leaves it alone.
LEMMA StoreStep == [ServiceNext]_svars => [Next]_vars
<1> SUFFICES ASSUME ServiceNext, ~UNCHANGED vars
             PROVE  Next
  BY DEF svars
<1>1. ASSUME NEW c \in Call, HandlerStep(c)
      PROVE  Next
  <2>1. CASE List(c) \/ ListError(c) \/ JoinBegins(c)
    BY <2>1 DEF List, ListError, JoinBegins, Next, CallStep
  <2>2. CASE JoinProceeds(c) \/ JoinEnds(c)
    BY <2>2 DEF JoinProceeds, JoinEnds, Next, CallStep
  <2>3. CASE CreateBegins(c) \/ CreateProceeds(c)
    BY <2>3 DEF CreateBegins, CreateProceeds, Next, CallStep
  <2>4. CASE NoCandidate(c) \/ Subscribe(c) \/ SpawnWaiter(c) \/ Register(c) \/ Leave(c)
    BY <1>1, <2>4 DEF NoCandidate, Subscribe, SpawnWaiter, Register, Leave
  <2> QED
    BY <1>1, <2>1, <2>2, <2>3, <2>4 DEF HandlerStep
<1>2. ASSUME NEW l \in Call, WaiterStep(l)
      PROVE  Next
  <2>1. CASE TickDecides(l) \/ Remove(l)
    BY <2>1 DEF TickDecides, Remove, RemovalStep, Next
  <2>2. CASE TickWaits(l) \/ TickFails(l) \/ WaiterCtxDone(l) \/ Broadcast(l) \/ Publish(l)
    BY <2>2 DEF TickWaits, TickFails, WaiterCtxDone, Broadcast, Publish
  <2> QED
    BY <1>2, <2>1, <2>2 DEF WaiterStep
<1>3. ASSUME NEW c \in Call, SubscriptionActive(c) \/ Deliver(c)
      PROVE  Next
  BY <1>3 DEF SubscriptionActive, Deliver
<1>4. CASE Environment
  BY <1>4 DEF Next
<1> QED
  BY <1>1, <1>2, <1>3, <1>4 DEF ServiceNext

\* What holds of every behaviour of the store holds of the service's: the
\* handler and the waiter use no command of Redis that LobbyStore has not
\* (handler.go:85-180, waiter.go:41-70).
THEOREM ServiceRunsOnStore == ServiceSpec => Spec
<1>1. ServiceInit => Init
  BY DEF ServiceInit
<1> QED
  BY <1>1, StoreStep, PTL DEF ServiceSpec, Spec

-----------------------------------------------------------------------------
(* Type correctness *)

LEMMA SentType ==
  ASSUME ServiceTypeOK, NEW to, NEW v \in Verdicts
  PROVE  Sent(to, v) \in [Call -> SUBSET Verdicts]
  BY DEF ServiceTypeOK, Sent


LEMMA ServiceInvInit == ServiceInit => ServiceInv
<1> SUFFICES ASSUME ServiceInit
             PROVE  ServiceInv
  OBVIOUS
<1>1. TypeInv
  BY TypeInvInit DEF ServiceInit
<1>2. 0 \in 0 .. MaxLobbyAttempts
  BY AttemptsAssumption
<1> QED
  BY <1>1, <1>2 DEF ServiceInit, ServiceInv, ServiceTypeOK, Decided, Starting, Verdicts

LEMMA ServiceInvNext == ServiceInv /\ [ServiceNext]_svars => ServiceInv'
<1> SUFFICES ASSUME TypeInv, ServiceTypeOK, Decided, [ServiceNext]_svars
             PROVE  ServiceTypeOK' /\ Decided'
  BY StoreStep, TypeInvNext DEF ServiceInv
<1> USE DEF ServiceTypeOK, Decided, Starting, handler, streams, waiting
<1>1. ASSUME NEW c \in Call, Try(c), MoreTries(c)
      PROVE  tries' \in [Call -> 0 .. MaxLobbyAttempts]
  BY <1>1, AttemptsAssumption DEF Try, MoreTries
<1>2. ASSUME NEW c \in Call, List(c)
      PROVE  ServiceTypeOK' /\ Decided'
  BY <1>2 DEF List
<1>3. ASSUME NEW c \in Call, ListError(c)
      PROVE  ServiceTypeOK' /\ Decided'
  BY <1>3, SentType DEF ListError, Verdicts
<1>4. ASSUME NEW c \in Call, NoCandidate(c) \/ JoinBegins(c)
      PROVE  ServiceTypeOK' /\ Decided'
  BY <1>1, <1>4 DEF NoCandidate, JoinBegins
<1>5. ASSUME NEW c \in Call, JoinProceeds(c)
      PROVE  ServiceTypeOK' /\ Decided'
  BY <1>5 DEF JoinProceeds
<1>6. ASSUME NEW c \in Call, JoinEnds(c)
      PROVE  ServiceTypeOK' /\ Decided'
  <2>1. target[c] \in Call
    BY <1>6 DEF JoinEnds, Unlock, TypeInv, Locals, HasTarget, InCS
  <2> QED
    BY <1>6, <2>1 DEF JoinEnds
<1>7. ASSUME NEW c \in Call, Subscribe(c) \/ SpawnWaiter(c) \/ Register(c) \/ Leave(c)
      PROVE  ServiceTypeOK' /\ Decided'
  <2>1. CASE Subscribe(c)
    BY <2>1 DEF Subscribe
  <2>2. CASE SpawnWaiter(c)
    BY <2>2 DEF SpawnWaiter
  <2>3. CASE Register(c)
    BY <2>3 DEF Register
  <2>4. CASE Leave(c)
    BY <2>4 DEF Leave
  <2> QED
    BY <1>7, <2>1, <2>2, <2>3, <2>4
<1>8. ASSUME NEW c \in Call, CreateBegins(c)
      PROVE  ServiceTypeOK' /\ Decided'
  BY <1>8, AttemptsAssumption DEF CreateBegins
<1>9. ASSUME NEW c \in Call, CreateProceeds(c)
      PROVE  ServiceTypeOK' /\ Decided'
  <2>1. tries' \in [Call -> 0 .. MaxLobbyAttempts]
    BY <1>1, <1>9 DEF CreateProceeds
  <2> QED
    BY <1>9, <2>1 DEF CreateProceeds
<1>10. ASSUME NEW l \in Call, TickDecides(l)
       PROVE  ServiceTypeOK' /\ Decided'
  <2>1. record[l] \in LobbyRecord
    BY <1>10 DEF TickDecides, RemoveBegins, TypeInv, TypeOK
  <2>2. PICK v \in Verdicts : verdict' = [verdict EXCEPT ![l] = v]
    BY <1>10 DEF TickDecides, Verdicts
  <2> QED
    BY <1>10, <2>1, <2>2 DEF TickDecides, Verdicts
<1>11. ASSUME NEW l \in Call, TickWaits(l) \/ TickFails(l) \/ WaiterCtxDone(l)
       PROVE  ServiceTypeOK' /\ Decided'
  <2>1. CASE TickWaits(l)
    BY <2>1 DEF TickWaits
  <2>2. CASE TickFails(l)
    BY <2>2 DEF TickFails, Verdicts
  <2>3. CASE WaiterCtxDone(l)
    BY <2>3 DEF WaiterCtxDone
  <2> QED
    BY <1>11, <2>1, <2>2, <2>3
<1>12. ASSUME NEW l \in Call, Remove(l)
       PROVE  ServiceTypeOK' /\ Decided'
  BY <1>12 DEF Remove
<1>13. ASSUME NEW l \in Call, Broadcast(l)
       PROVE  ServiceTypeOK' /\ Decided'
  <2>1. verdict[l] \in Verdicts
    BY <1>13 DEF Broadcast
  <2>2. told' \in [Call -> SUBSET Verdicts]
    BY <1>13, <2>1, SentType DEF Broadcast
  <2> QED
    BY <1>13, <2>1, <2>2 DEF Broadcast
<1>14. ASSUME NEW l \in Call, Publish(l)
       PROVE  ServiceTypeOK' /\ Decided'
  BY <1>14 DEF Publish
<1>15. ASSUME NEW c \in Call, SubscriptionActive(c)
       PROVE  ServiceTypeOK' /\ Decided'
  BY <1>15 DEF SubscriptionActive
<1>16. ASSUME NEW c \in Call, Deliver(c)
       PROVE  ServiceTypeOK' /\ Decided'
  BY <1>16, SentType DEF Deliver
<1>17. CASE UNCHANGED <<handler, streams, waiting>>
  BY <1>17
<1> QED
  BY <1>2, <1>3, <1>4, <1>5, <1>6, <1>7, <1>8, <1>9, <1>10, <1>11, <1>12, <1>13,
     <1>14, <1>15, <1>16, <1>17 DEF ServiceNext, HandlerStep, WaiterStep, svars

\* Every variable keeps its type: no call counts more attempts than it has, a
\* waiter publishes only what it has decided, a seat is a lobby's
\* (handler.go:99, 154; waiter.go:41-70).
THEOREM ServiceTypeCorrect == ServiceSpec => []ServiceTypeOK
<1>1. ServiceInv => ServiceTypeOK
  BY DEF ServiceInv
<1>2. ServiceInit => ServiceInv
  BY ServiceInvInit
<1> QED
  BY <1>1, <1>2, ServiceInvNext, PTL DEF ServiceSpec

-----------------------------------------------------------------------------
(* What a lobby starts with *)

\* What a step can do to what a waiter has decided, and on which record.
DecisionKept(l) == verdict'[l] = verdict[l] /\ view'[l] = view[l]
DecisionMade(l) == TickDecides(l) /\ view'[l] = record[l]
DecisionFailed(l) == verdict'[l] = "ERROR"

LEMMA HandlerDecidesNothing ==
  ASSUME NEW c \in Call, HandlerStep(c)
  PROVE  verdict' = verdict /\ view' = view
<1> USE DEF streams, waiting
<1>1. CASE List(c) \/ ListError(c) \/ NoCandidate(c) \/ JoinBegins(c)
  BY <1>1 DEF List, ListError, NoCandidate, JoinBegins
<1>2. CASE JoinProceeds(c) \/ JoinEnds(c) \/ CreateBegins(c) \/ CreateProceeds(c)
  BY <1>2 DEF JoinProceeds, JoinEnds, CreateBegins, CreateProceeds
<1>3. CASE Subscribe(c) \/ SpawnWaiter(c) \/ Register(c) \/ Leave(c)
  BY <1>3 DEF Subscribe, SpawnWaiter, Register, Leave
<1> QED
  BY <1>1, <1>2, <1>3 DEF HandlerStep

LEMMA DecisionSources ==
  ASSUME ServiceTypeOK, [ServiceNext]_svars, NEW l \in Call
  PROVE  DecisionKept(l) \/ DecisionMade(l) \/ DecisionFailed(l)
<1> USE DEF ServiceTypeOK, handler, streams, waiting
<1>1. ASSUME NEW c \in Call, HandlerStep(c)
      PROVE  DecisionKept(l)
  BY <1>1, HandlerDecidesNothing DEF DecisionKept
<1>2. ASSUME NEW k \in Call, TickDecides(k)
      PROVE  DecisionKept(l) \/ DecisionMade(l)
  <2>1. /\ view' = [view EXCEPT ![k] = record[k]]
        /\ \E v \in Verdicts : verdict' = [verdict EXCEPT ![k] = v]
    BY <1>2 DEF TickDecides, Verdicts
  <2>2. CASE k = l
    BY <1>2, <2>1, <2>2 DEF DecisionMade
  <2>3. CASE k # l
    BY <2>1, <2>3 DEF DecisionKept
  <2> QED
    BY <2>2, <2>3
<1>3. ASSUME NEW k \in Call, TickFails(k)
      PROVE  DecisionKept(l) \/ DecisionFailed(l)
  BY <1>3 DEF TickFails, DecisionKept, DecisionFailed
<1>4. ASSUME NEW k \in Call, \/ TickWaits(k) \/ WaiterCtxDone(k) \/ Remove(k)
                            \/ Broadcast(k) \/ Publish(k)
      PROVE  DecisionKept(l)
  BY <1>4 DEF TickWaits, WaiterCtxDone, Remove, Broadcast, Publish, DecisionKept
<1>5. ASSUME NEW c \in Call, SubscriptionActive(c) \/ Deliver(c)
      PROVE  DecisionKept(l)
  BY <1>5 DEF SubscriptionActive, Deliver, DecisionKept
<1>6. CASE UNCHANGED <<handler, streams, waiting>>
  BY <1>6 DEF DecisionKept
<1> QED
  BY <1>1, <1>2, <1>3, <1>4, <1>5, <1>6 DEF ServiceNext, WaiterStep, svars

\* A well-formed record has too few players for their number to wrap around.
LEMMA PlayerCount ==
  ASSUME NEW l \in Call, NEW r \in LobbyRecord, WellFormed(r, l)
  PROVE  ToInt16(Len(r.players)) = Len(r.players) /\ Len(r.players) \in Int
<1>1. Len(r.players) \in Int16
  BY DEF LobbyRecord, WellFormed
<1> QED
  BY <1>1, ToInt16Identity, Int16Range

LEMMA BordersInvNext == BordersInv /\ [ServiceNext]_svars => BordersInv'
<1> SUFFICES ASSUME BordersInv, [ServiceNext]_svars
             PROVE  StartWithinBorders'
  BY ServiceInvNext, RecordInvNext, StoreStep DEF BordersInv
<1> SUFFICES ASSUME NEW l \in Call, Starting(l)'
             PROVE  /\ Len(view'[l].players) >= view'[l].min
                    /\ Len(view'[l].players) <= view'[l].max \/ view'[l].players = <<l>>
  BY DEF StartWithinBorders
<1>1. CASE DecisionKept(l)
  BY <1>1 DEF DecisionKept, Starting, BordersInv, StartWithinBorders
<1>2. CASE DecisionMade(l)
  <2> DEFINE r == record[l]
  <2>1. r \in LobbyRecord /\ WellFormed(r, l)
    BY <1>2 DEF DecisionMade, TickDecides, RemoveBegins, BordersInv, RecordInv, TypeInv,
                TypeOK, RecordsWellFormed, WellFormed
  <2>2. \E settled \in BOOLEAN : Ready(r, settled)
    BY <1>2 DEF DecisionMade, TickDecides, Starting, BordersInv, ServiceInv,
                ServiceTypeOK
  <2>3. Len(r.players) >= r.min
    BY <2>1, <2>2, PlayerCount DEF Ready
  <2>4. Len(r.players) = 1 => r.players = <<l>>
    BY <2>1 DEF LobbyRecord, WellFormed
  <2> QED
    BY <1>2, <2>1, <2>3, <2>4 DEF DecisionMade, WellFormed
<1>3. CASE DecisionFailed(l)
  BY <1>3 DEF DecisionFailed, Starting
<1> QED
  BY <1>1, <1>2, <1>3, DecisionSources DEF BordersInv, ServiceInv

\* Whatever fails, crashes or is delayed, a lobby starts with the players its
\* mode asks for and with no more than it has room for: the waiter compares
\* in int16, and no record outgrows it (state.go:144, models.go:27).
THEOREM StartsWithinBorders == ServiceSpec => []StartWithinBorders
<1>1. ServiceInit => BordersInv
  BY ServiceInvInit, RecordInvInit
     DEF BordersInv, ServiceInit, StartWithinBorders, Starting
<1>2. BordersInv => StartWithinBorders
  BY DEF BordersInv
<1> QED
  BY <1>1, BordersInvNext, <1>2, PTL DEF ServiceSpec

-----------------------------------------------------------------------------
(* No call starts twice *)

\* Only its own write gets a call a place it had not, and a start keeps the
\* places it finds.
LEMMA TakenSources ==
  ASSUME ServiceInv, [ServiceNext]_svars, NEW c \in Call, NEW l \in Call, Taken(c, l)'
  PROVE  Taken(c, l) \/ RecordPut(c, l)
<1>1. CASE Placed(c, l)'
  BY <1>1, PlacedSources, StoreStep DEF ServiceInv, Taken
<1>2. CASE Starting(l)' /\ c \in Seated(view'[l])
  <2>1. CASE DecisionKept(l)
    BY <1>2, <2>1 DEF DecisionKept, Starting, Taken
  <2>2. CASE DecisionMade(l)
    BY <1>2, <2>2 DEF DecisionMade, TickDecides, RemoveBegins, Taken, Placed
  <2>3. ~DecisionFailed(l)
    BY <1>2 DEF DecisionFailed, Starting
  <2> QED
    BY <2>1, <2>2, <2>3, DecisionSources DEF ServiceInv
<1> QED
  BY <1>1, <1>2 DEF Taken

LEMMA StartInvInit == ServiceInit => StartInv
<1> SUFFICES ASSUME ServiceInit
             PROVE  StartInv
  OBVIOUS
<1>1. \A c, l \in Call : ~Taken(c, l)
  BY DEF ServiceInit, Init, Placed, HasCopy, Taken, Starting
<1> QED
  BY <1>1, ServiceInvInit DEF StartInv, TakenSettled, OneTaken

LEMMA StartInvNext ==
  ASSUME StartInv, [ServiceNext]_svars
  PROVE  StartInv'
<1> USE DEF StartInv
<1>1. TypeInv /\ [Next]_vars
  BY StoreStep DEF ServiceInv
<1>2. ServiceInv'
  BY ServiceInvNext
<1>3. ASSUME NEW c \in Call, NEW l \in Call, Taken(c, l)'
      PROVE  misled'[c] \/ Settled(c, l)'
  <2>1. CASE Taken(c, l)
    BY <1>1, <2>1, SettledStays DEF TakenSettled
  <2>2. CASE RecordPut(c, l)
    BY <1>1, <2>2, WriterSettled
  <2> QED
    BY <1>3, <2>1, <2>2, TakenSources
<1>4. ASSUME NEW c \in Call, NEW k \in Call, NEW l \in Call,
             RecordPut(c, k), Taken(c, l)
      PROVE  k = l \/ misled'[c]
  BY <1>1, <1>4, WriterElsewhere, MisledStays DEF TakenSettled
<1>5. ASSUME NEW c \in Call, NEW k \in Call, NEW l \in Call, Taken(c, k)', Taken(c, l)'
      PROVE  k = l \/ misled'[c]
  <2>1. CASE RecordPut(c, k) /\ RecordPut(c, l)
    BY <2>1 DEF RecordPut
  <2>2. CASE Taken(c, k) /\ Taken(c, l)
    BY <1>1, <2>2, MisledStays DEF OneTaken
  <2> QED
    BY <1>4, <1>5, <2>1, <2>2, TakenSources
<1>6. TakenSettled'
  BY <1>3 DEF TakenSettled
<1>7. OneTaken'
  BY <1>5 DEF OneTaken
<1> QED
  BY <1>2, <1>6, <1>7

\* Whatever fails, a call is on the rosters of two lobbies that start only if
\* AddPlayer put it on one of them and then returned an error.  It does not
\* matter that the first record is gone by the time the second is read, nor
\* that a removal failed: a place is for good, and a call that knows of one
\* asks for no other (handler.go:118-133, state.go:98-141).
THEOREM NoCallStartsTwice == ServiceSpec => []StartedRostersDisjoint
<1>1. ServiceInit => StartInv
  BY StartInvInit
<1>2. StartInv /\ [ServiceNext]_svars => StartInv'
  BY StartInvNext
<1>3. StartInv => StartedRostersDisjoint
  <2> SUFFICES ASSUME StartInv, NEW k \in Call, NEW l \in Call,
                      k # l, Starting(k), Starting(l),
                      NEW c \in Seated(view[k]) \cap Seated(view[l])
               PROVE  misled[c]
    BY DEF StartedRostersDisjoint
  <2>1. view[k] \in LobbyRecord
    BY DEF StartInv, ServiceInv, Decided
  <2>2. c \in Call
    BY <2>1 DEF LobbyRecord, Seated
  <2> QED
    BY <2>2 DEF StartInv, OneTaken, Taken
<1> QED
  BY <1>1, <1>2, <1>3, PTL DEF ServiceSpec

-----------------------------------------------------------------------------
(* No call hears two verdicts *)

LEMMA SearchedStays ==
  ASSUME TypeInv, [Next]_vars, NEW d \in Call, Searched(d)
  PROVE  Searched(d)'
<1>1. CASE Same(d)
  BY <1>1 DEF Same, Searched
<1>2. CASE Crash(d)
  BY <1>2 DEF Crash, Searched, TypeInv, TypeOK
<1>3. ~CallStep(d)
  BY DEF Searched, CallStep, ReadIndex, LoadLobby, ListFails, CleanMissing, Lock,
         LockFails, GetForAdd, CheckVersion, WriteData, WriteIndex, Unlock,
         NewLobbyBegins, CheckNew, GiveUp
<1> QED
  BY <1>1, <1>2, <1>3, OthersKeepLocals

\* What is sent to one call changes nothing for the others.
LEMMA SentOnce ==
  ASSUME NEW c \in Call, NEW to \in SUBSET {c}, NEW v, told[c] = {}, told' = Sent(to, v)
  PROVE  /\ \A d \in Call \ {c} : told'[d] = told[d]
         /\ \A w \in told'[c] : w = v
<1>1. \A d \in Call : told'[d] = IF d \in to /\ ~cancelled[d] THEN told[d] \cup {v}
                                 ELSE told[d]
  BY DEF Sent
<1> QED
  BY <1>1

LEMMA BroadcastOnce ==
  ASSUME NEW l \in Call, Broadcast(l), told[l] = {}
  PROVE  \A w \in told'[l] : w = verdict[l]
<1>1. PICK to \in SUBSET {l} : told' = Sent(to, verdict[l])
  BY DEF Broadcast
<1> QED
  BY <1>1, SentOnce

\* A step that is not the call's own leaves it as it is, but for a waiter that
\* goes on.
Bystander(d) ==
  /\ phase'[d] = phase[d] /\ seat'[d] = seat[d] /\ sub'[d] = sub[d]
  /\ told'[d] = told[d] /\ wire'[d] = wire[d]
  /\ local'[d] => local[d]
  /\ waiter'[d] = "off" <=> waiter[d] = "off"
  /\ waiter'[d] \in {"wait", "remove", "broadcast"} =>
        waiter[d] \in {"wait", "remove", "broadcast"}
  /\ \A l \in Call : waiter[l] = "done" => waiter'[l] = "done"

LEMMA BystanderHearsOnce ==
  ASSUME NEW d \in Call, HearsOnce(d), Searched(d) => Searched(d)', Bystander(d)
  PROVE  HearsOnce(d)'
<1> USE DEF HearsOnce, Bystander
<1>1. SearcherUntold(d)'
  BY DEF SearcherUntold
<1>2. MakerUnsubscribed(d)'
  BY DEF MakerUnsubscribed
<1>3. MakerHearsOnce(d)'
  BY DEF MakerHearsOnce
<1>4. JoinerHearsOnce(d)'
  BY DEF JoinerHearsOnce
<1>5. ToldOne(d)'
  BY DEF ToldOne
<1> QED
  BY <1>1, <1>2, <1>3, <1>4, <1>5

LEMMA VerdictInvInit == ServiceInit => VerdictInv
  BY ServiceInvInit
     DEF VerdictInv, ServiceInit, Init, HearsOnce, SearcherUntold, MakerUnsubscribed,
         MakerHearsOnce, JoinerHearsOnce, ToldOne, Searched

LEMMA VerdictInvNext == VerdictInv /\ [ServiceNext]_svars => VerdictInv'
<1> SUFFICES ASSUME ServiceInv, \A c \in Call : HearsOnce(c), [ServiceNext]_svars,
                    NEW d \in Call
             PROVE  HearsOnce(d)'
  BY ServiceInvNext DEF VerdictInv
<1>1. Searched(d) => Searched(d)'
  BY SearchedStays, StoreStep DEF ServiceInv
<1>2. ServiceTypeOK /\ TypeInv
  BY DEF ServiceInv
<1>3. CASE Bystander(d)
  BY <1>1, <1>3, BystanderHearsOnce
<1> USE <1>2 DEF ServiceTypeOK, handler, streams, waiting
<1> DEFINE Parts == /\ SearcherUntold(d) /\ MakerUnsubscribed(d) /\ MakerHearsOnce(d)
                    /\ JoinerHearsOnce(d) /\ ToldOne(d)
<1>4. Parts /\ (Parts' => HearsOnce(d)')
  BY DEF HearsOnce
<1> USE DEF SearcherUntold, MakerUnsubscribed, MakerHearsOnce, JoinerHearsOnce, ToldOne
<1>5. CASE UNCHANGED <<phase, seat, streams, waiting>>
  BY <1>3, <1>5 DEF Bystander
<1>6. ASSUME NEW c \in Call, ListError(c)
      PROVE  HearsOnce(d)'
  <2>1. pc[c] \in {"start", "load"} /\ pc' = [pc EXCEPT ![c] = "list_err"]
    BY <1>6 DEF ListError, ListFails
  <2>2. CASE c = d
    <3>1. phase[c] = "searching" /\ told[c] = {} /\ Searched(c)'
      BY <1>4, <2>1, <2>2 DEF Searched, TypeInv, TypeOK
    <3>2. \A w \in told'[c] : w = "ERROR"
      BY <1>6, <3>1, SentOnce DEF ListError
    <3> QED
      BY <1>4, <1>6, <2>2, <3>1, <3>2 DEF ListError
  <2>3. CASE c # d
    BY <1>3, <1>6, <2>3 DEF ListError, Bystander, Sent
  <2> QED
    BY <2>2, <2>3
<1>7. ASSUME NEW c \in Call, JoinEnds(c)
      PROVE  HearsOnce(d)'
  <2>1. CASE c = d
    <3>1. phase[c] = "searching"
      BY <1>4, <1>7, <2>1 DEF JoinEnds, Unlock, Searched
    <3> QED
      BY <1>1, <1>4, <1>7, <2>1, <3>1 DEF JoinEnds
  <2>2. CASE c # d
    BY <1>3, <1>7, <2>2 DEF JoinEnds, Bystander
  <2> QED
    BY <2>1, <2>2
<1>8. ASSUME NEW c \in Call, Subscribe(c)
      PROVE  HearsOnce(d)'
  <2>1. CASE c = d
    BY <1>1, <1>4, <1>8, <2>1 DEF Subscribe, Searched
  <2>2. CASE c # d
    BY <1>3, <1>8, <2>2 DEF Subscribe, Bystander
  <2> QED
    BY <2>1, <2>2
<1>9. ASSUME NEW c \in Call, SpawnWaiter(c)
      PROVE  HearsOnce(d)'
  <2>1. CASE c = d
    BY <1>1, <1>4, <1>9, <2>1 DEF SpawnWaiter, Searched
  <2>2. CASE c # d
    <3>1. waiter[c] = "off"
      BY <1>9 DEF SpawnWaiter, HearsOnce
    <3> QED
      BY <1>3, <1>9, <2>2, <3>1 DEF SpawnWaiter, Bystander
  <2> QED
    BY <2>1, <2>2
<1>10. ASSUME NEW c \in Call, Register(c) \/ Leave(c) \/ SubscriptionActive(c)
       PROVE  HearsOnce(d)'
  <2>1. CASE c = d
    BY <1>1, <1>4, <1>10, <2>1 DEF Register, Leave, SubscriptionActive
  <2>2. CASE c # d
    BY <1>3, <1>10, <2>2 DEF Register, Leave, SubscriptionActive, Bystander
  <2> QED
    BY <2>1, <2>2
<1>11. ASSUME NEW l \in Call, \/ TickDecides(l) \/ TickWaits(l) \/ TickFails(l)
                             \/ WaiterCtxDone(l) \/ Remove(l)
       PROVE  HearsOnce(d)'
  BY <1>3, <1>11 DEF TickDecides, TickWaits, TickFails, WaiterCtxDone, Remove, Bystander
<1>12. ASSUME NEW l \in Call, Broadcast(l)
       PROVE  HearsOnce(d)'
  <2>1. CASE l = d
    <3>1. told[l] = {} /\ phase[l] # "searching" /\ sub[l] = "none" /\ wire[l] = "nothing"
      BY <1>4, <1>12, <2>1 DEF Broadcast
    <3>2. \A w \in told'[l] : w = verdict[l]
      BY <1>12, <3>1, BroadcastOnce
    <3> QED
      BY <1>1, <1>4, <1>12, <2>1, <3>1, <3>2 DEF Broadcast
  <2>2. CASE l # d
    BY <1>3, <1>12, <2>2 DEF Broadcast, Bystander, Sent
  <2> QED
    BY <2>1, <2>2
<1>13. ASSUME NEW l \in Call, Publish(l)
       PROVE  HearsOnce(d)'
  <2>1. CASE wire'[d] = wire[d]
    BY <1>3, <1>13, <2>1 DEF Publish, Bystander
  <2>2. CASE wire'[d] # wire[d]
    <3>1. sub[d] = "active" /\ seat[d] = l
      BY <1>13, <2>2 DEF Publish
    <3>2. told[d] = {} /\ waiter[d] = "off"
      BY <1>4, <1>13, <3>1 DEF Publish
    <3> QED
      BY <1>1, <1>4, <1>13, <3>1, <3>2 DEF Publish
  <2> QED
    BY <2>1, <2>2
<1>14. ASSUME NEW c \in Call, Deliver(c)
       PROVE  HearsOnce(d)'
  <2>1. CASE c = d
    <3>1. told[c] = {} /\ phase[c] # "searching" /\ waiter[c] = "off" /\ sub[c] # "none"
      BY <1>4, <1>14, <2>1 DEF Deliver
    <3>2. \A w \in told'[c] : w = wire[c]
      BY <1>14, <3>1, SentOnce DEF Deliver
    <3>3. waiter[seat[c]] = "done" /\ seat[c] \in Call
      BY <1>4, <1>14, <2>1, <3>1 DEF Deliver
    <3>4. /\ UNCHANGED <<handler, local, sub, waiting>>
          /\ wire' = [wire EXCEPT ![c] = "nothing"]
      BY <1>14 DEF Deliver
    <3> QED
      BY <1>1, <1>4, <2>1, <3>1, <3>2, <3>3, <3>4
  <2>2. CASE c # d
    BY <1>3, <1>14, <2>2 DEF Deliver, Bystander, Sent
  <2> QED
    BY <2>1, <2>2
<1>15. ASSUME NEW c \in Call, \/ List(c) \/ NoCandidate(c) \/ JoinBegins(c)
                             \/ JoinProceeds(c) \/ CreateBegins(c) \/ CreateProceeds(c)
       PROVE  UNCHANGED <<phase, seat, streams, waiting>>
  BY <1>15 DEF List, NoCandidate, JoinBegins, JoinProceeds, CreateBegins, CreateProceeds
<1> QED
  BY <1>5, <1>6, <1>7, <1>8, <1>9, <1>10, <1>11, <1>12, <1>13, <1>14, <1>15
     DEF ServiceNext, HandlerStep, WaiterStep, svars

\* Whatever fails, is lost or comes late, no call hears two verdicts: an
\* error of the search ends the call, a lobby's maker is told by its own waiter
\* alone, and that waiter ends with its first verdict, before which it tells
\* no subscriber anything (handler.go:85-97, waiter.go:45-65, state.go:57-87).
THEOREM VerdictsAreFinal == ServiceSpec => []OneVerdict
<1>1. ServiceInit => VerdictInv
  BY VerdictInvInit
<1>2. VerdictInv => OneVerdict
  <2> SUFFICES ASSUME VerdictInv, NEW c \in Call
               PROVE  Cardinality(told[c]) <= 1
    BY DEF OneVerdict
  <2>1. CASE told[c] = {}
    BY <2>1, FS_EmptySet
  <2>2. ASSUME NEW v \in told[c]
        PROVE  Cardinality(told[c]) <= 1
    <3>1. told[c] = {v}
      BY DEF VerdictInv, HearsOnce, ToldOne
    <3>2. Cardinality({v}) = 1
      BY FS_Singleton
    <3> QED
      BY <3>1, <3>2
  <2> QED
    BY <2>1, <2>2
<1> QED
  BY <1>1, VerdictInvNext, <1>2, PTL DEF ServiceSpec
-----------------------------------------------------------------------------
(* The service as what a call may rely on *)

\* What only the handler of a call itself brings about.
Untouched(d) ==
  /\ phase'[d] = phase[d] /\ seat'[d] = seat[d]
  /\ local'[d] => local[d]
  /\ waiter'[d] # "off" => waiter[d] # "off"
  /\ sub'[d] # "none" => sub[d] # "none"

LEMMA HandlersOwnStep ==
  ASSUME ServiceInv, [ServiceNext]_svars, NEW d \in Call
  PROVE  HandlerStep(d) \/ (Untouched(d) /\ (Same(d) \/ Crash(d)))
<1> USE DEF ServiceInv, ServiceTypeOK, handler, streams, waiting
<1>1. ASSUME NEW c \in Call, HandlerStep(c), c # d
      PROVE  Untouched(d)
  BY <1>1 DEF HandlerStep, List, ListError, NoCandidate, JoinBegins, JoinProceeds,
              JoinEnds, Subscribe, CreateBegins, CreateProceeds, SpawnWaiter,
              Register, Leave, Untouched
<1>2. ASSUME NEW c \in Call, HandlerStep(c), c # d
      PROVE  Same(d)
  <2>1. CASE CallStep(c)
    BY <1>2, <2>1, StepIsOwn
  <2>2. CASE UNCHANGED vars
    BY <2>2 DEF vars, reading, writing, Same
  <2>3. CallStep(c) \/ UNCHANGED vars
    BY <1>2 DEF HandlerStep, List, ListError, NoCandidate, JoinBegins, JoinProceeds,
                JoinEnds, Subscribe, CreateBegins, CreateProceeds, SpawnWaiter,
                Register, Leave, CallStep
  <2> QED
    BY <2>1, <2>2, <2>3
<1>3. ASSUME NEW l \in Call, WaiterStep(l)
      PROVE  Untouched(d) /\ Same(d)
  <2>1. CASE TickDecides(l) \/ Remove(l)
    <3>1. RemovalStep(l)
      BY <2>1 DEF TickDecides, Remove, RemovalStep
    <3> QED
      BY <2>1, <3>1, RemovalKeepsLocals DEF TickDecides, Remove, Untouched
  <2>2. CASE TickWaits(l) \/ TickFails(l) \/ WaiterCtxDone(l)
    BY <2>2 DEF TickWaits, TickFails, WaiterCtxDone, Untouched, Same,
                vars, reading, writing
  <2>3. CASE Broadcast(l) \/ Publish(l)
    BY <2>3 DEF Broadcast, Publish, Untouched, Same, vars, reading, writing
  <2> QED
    BY <1>3, <2>1, <2>2, <2>3 DEF WaiterStep
<1>4. ASSUME NEW c \in Call, SubscriptionActive(c) \/ Deliver(c)
      PROVE  Untouched(d) /\ Same(d)
  BY <1>4 DEF SubscriptionActive, Deliver, Untouched, Same, vars, reading, writing
<1>5. CASE UNCHANGED <<handler, streams, waiting>> /\ (Environment \/ UNCHANGED vars)
  <2>1. Untouched(d)
    BY <1>5 DEF Untouched
  <2>2. CASE Environment
    BY <2>1, <2>2 DEF Environment, DeadlinePasses, RecordExpires, IndexExpires,
                      MutexExpires, Cancel, Crash, Same, reading, writing, TypeInv, TypeOK
  <2>3. CASE UNCHANGED vars
    BY <2>1, <2>3 DEF vars, Same, reading, writing
  <2> QED
    BY <1>5, <2>1, <2>2, <2>3
<1> QED
  BY <1>1, <1>2, <1>3, <1>4, <1>5 DEF ServiceNext, svars

LEMMA HomeOfNext ==
  ASSUME ServiceInv, [ServiceNext]_svars, NEW d \in Call, HomeOf(d)
  PROVE  HomeOf(d)'
<1> USE DEF HomeOf, Making, ServiceInv, ServiceTypeOK, handler, streams, waiting
<1>1. CASE Untouched(d) /\ (Same(d) \/ Crash(d))
  BY <1>1 DEF Untouched, Same, Crash, TypeInv, TypeOK
<1>2. CASE List(d) \/ ListError(d) \/ JoinBegins(d) \/ JoinProceeds(d)
  <2>1. /\ seat[d] = NoCall
        /\ pc'[d] \notin {"joined", "new", "create", "create_err", "created", "gave_up"}
        /\ seat' = seat /\ local' = local /\ waiter' = waiter
        /\ phase'[d] \in {phase[d], "returned"}
  <3>1. CASE List(d) \/ ListError(d)
    BY <3>1 DEF List, ListError, ReadIndex, LoadLobby, CleanMissing, ListFails,
                TypeInv, TypeOK
  <3>2. CASE JoinBegins(d)
    BY <3>2 DEF JoinBegins, Lock, LockFails, TypeInv, TypeOK
  <3>3. CASE JoinProceeds(d)
    BY <3>3 DEF JoinProceeds, GetForAdd, CheckVersion, SkipUpdate, WriteData, WriteIndex,
                FinishSlot, TypeInv, TypeOK
  <3> QED
    BY <1>2, <3>1, <3>2, <3>3
  <2> QED
    BY <2>1, NoCallAssumption
<1>3. CASE NoCandidate(d)
  BY <1>3 DEF NoCandidate, vars
<1>4. CASE JoinEnds(d)
  BY <1>4, NoCallAssumption DEF JoinEnds, Unlock, TypeInv, TypeOK, Locals, HasTarget, InCS
<1>5. CASE Subscribe(d) \/ SpawnWaiter(d) \/ Register(d) \/ Leave(d)
  BY <1>5, NoCallAssumption DEF Subscribe, SpawnWaiter, Register, Leave, vars
<1>6. CASE CreateBegins(d)
  BY <1>6, NoCallAssumption DEF CreateBegins, NewLobbyBegins, TypeInv, TypeOK
<1>7. CASE CreateProceeds(d)
  <2>1. pc[d] \in {"new", "create", "create_err"}
    BY <1>7 DEF CreateProceeds, CheckNew, GiveUp
  <2>2. pc'[d] \in {"create", "create_err", "created", "gave_up"}
    BY <1>7 DEF CreateProceeds, CheckNew, GiveUp, WriteData, WriteIndex, FinishSlot,
                TypeInv, TypeOK
  <2> QED
    BY <1>7, <2>1, <2>2, NoCallAssumption DEF CreateProceeds
<1> QED
  BY <1>1, <1>2, <1>3, <1>4, <1>5, <1>6, <1>7, HandlersOwnStep DEF HandlerStep

\* A waiter decides once, on the last tick.
LEMMA DecidedOnce ==
  ASSUME ServiceInv, [ServiceNext]_svars, NEW l \in Call, verdict'[l] # verdict[l]
  PROVE  waiter[l] = "wait" /\ waiter'[l] \notin {"off", "wait"}
<1> USE DEF ServiceInv, ServiceTypeOK, handler, streams, waiting
<1>1. ASSUME NEW c \in Call, HandlerStep(c)
      PROVE  verdict' = verdict
  BY <1>1, HandlerDecidesNothing
<1>2. ASSUME NEW k \in Call, TickDecides(k) \/ TickFails(k)
      PROVE  waiter[l] = "wait" /\ waiter'[l] \notin {"off", "wait"}
  BY <1>2 DEF TickDecides, TickFails
<1>3. ASSUME NEW k \in Call, \/ TickWaits(k) \/ WaiterCtxDone(k) \/ Remove(k)
                            \/ Broadcast(k) \/ Publish(k)
      PROVE  verdict' = verdict
  BY <1>3 DEF TickWaits, WaiterCtxDone, Remove, Broadcast, Publish
<1>4. ASSUME NEW c \in Call, SubscriptionActive(c) \/ Deliver(c)
      PROVE  verdict' = verdict
  BY <1>4 DEF SubscriptionActive, Deliver
<1> QED
  BY <1>1, <1>2, <1>3, <1>4 DEF ServiceNext, WaiterStep, svars

LEMMA UndecidedNext ==
  ASSUME VerdictInv, [ServiceNext]_svars, NEW l \in Call, Undecided(l)
  PROVE  Undecided(l)'
<1> SUFFICES ASSUME waiter'[l] \in {"off", "wait"}, verdict'[l] # "nothing"
             PROVE  FALSE
  BY DEF Undecided
<1>1. ServiceInv
  BY DEF VerdictInv
<1>2. verdict'[l] = verdict[l]
  BY <1>1, DecidedOnce
<1>3. waiter[l] \in {"off", "wait"}
  <2> USE <1>1 DEF ServiceInv, ServiceTypeOK, handler, streams, waiting
  <2>1. CASE waiter'[l] = waiter[l]
    BY <2>1
  <2>2. ASSUME NEW c \in Call, SpawnWaiter(c)
        PROVE  waiter[l] \in {"off", "wait"}
    BY <2>2 DEF SpawnWaiter, VerdictInv, HearsOnce, SearcherUntold
  <2>3. ASSUME NEW c \in Call, HandlerStep(c), ~SpawnWaiter(c)
        PROVE  waiter' = waiter
    BY <2>3 DEF HandlerStep, List, ListError, NoCandidate, JoinBegins, JoinProceeds,
                JoinEnds, Subscribe, CreateBegins, CreateProceeds, Register, Leave
  <2>4. ASSUME NEW k \in Call, WaiterStep(k)
        PROVE  waiter[l] \in {"off", "wait"}
    <3>1. CASE TickDecides(k) \/ TickWaits(k) \/ TickFails(k) \/ WaiterCtxDone(k)
      BY <3>1 DEF TickDecides, TickWaits, TickFails, WaiterCtxDone
    <3>2. CASE Remove(k)
      BY <3>2 DEF Remove
    <3>3. CASE Broadcast(k) \/ Publish(k)
      BY <3>3 DEF Broadcast, Publish
    <3> QED
      BY <2>4, <3>1, <3>2, <3>3 DEF WaiterStep
  <2>5. ASSUME NEW c \in Call, SubscriptionActive(c) \/ Deliver(c)
        PROVE  waiter' = waiter
    BY <2>5 DEF SubscriptionActive, Deliver
  <2> QED
    BY <2>1, <2>2, <2>3, <2>4, <2>5 DEF ServiceNext, svars
<1> QED
  BY <1>2, <1>3 DEF Undecided

\* What can be about to reach a subscriber.
LEMMA WireSources ==
  ASSUME ServiceInv, [ServiceNext]_svars, NEW d \in Call
  PROVE  \/ wire'[d] = wire[d]
         \/ wire'[d] = "nothing"
         \/ /\ sub[d] = "active" /\ wire'[d] = verdict[seat[d]]
            /\ UNCHANGED <<seat, verdict>>
<1> USE DEF ServiceInv, ServiceTypeOK, handler, streams, waiting
<1>1. ASSUME NEW c \in Call, HandlerStep(c)
      PROVE  wire'[d] \in {wire[d], "nothing"}
  BY <1>1 DEF HandlerStep, List, ListError, NoCandidate, JoinBegins, JoinProceeds,
              JoinEnds, Subscribe, CreateBegins, CreateProceeds, SpawnWaiter,
              Register, Leave
<1>2. ASSUME NEW k \in Call, Publish(k)
      PROVE  \/ wire'[d] = wire[d]
             \/ /\ sub[d] = "active" /\ wire'[d] = verdict[seat[d]]
                /\ UNCHANGED <<seat, verdict>>
  BY <1>2 DEF Publish
<1>3. ASSUME NEW k \in Call, \/ TickDecides(k) \/ TickWaits(k) \/ TickFails(k)
                            \/ WaiterCtxDone(k) \/ Remove(k) \/ Broadcast(k)
      PROVE  wire' = wire
  BY <1>3 DEF TickDecides, TickWaits, TickFails, WaiterCtxDone, Remove, Broadcast
<1>4. ASSUME NEW c \in Call, SubscriptionActive(c) \/ Deliver(c)
      PROVE  wire'[d] \in {wire[d], "nothing"}
  BY <1>4 DEF SubscriptionActive, Deliver
<1> QED
  BY <1>1, <1>2, <1>3, <1>4 DEF ServiceNext, WaiterStep, svars

\* A seat is taken once, at the end of a search.
LEMMA SeatSources ==
  ASSUME ServiceInv, [ServiceNext]_svars, NEW d \in Call, seat'[d] # seat[d]
  PROVE  /\ \/ JoinEnds(d) /\ ~failed[d] /\ seat'[d] = target[d] /\ target[d] \in Call
            \/ SpawnWaiter(d) /\ seat'[d] = d
         /\ seat' = [seat EXCEPT ![d] = seat'[d]]
         /\ UNCHANGED <<streams, verdict, view, cancelled, misled>>
<1> USE DEF ServiceInv, ServiceTypeOK, handler, streams, waiting
<1>1. HandlerStep(d)
  BY HandlersOwnStep DEF Untouched
<1>2. JoinEnds(d) \/ SpawnWaiter(d)
  BY <1>1 DEF HandlerStep, List, ListError, NoCandidate, JoinBegins, JoinProceeds,
              Subscribe, CreateBegins, CreateProceeds, Register, Leave
<1>3. CASE JoinEnds(d)
  <2>1. target[d] \in Call
    BY <1>3 DEF JoinEnds, Unlock, TypeInv, Locals, HasTarget, InCS
  <2>2. ~failed[d]
    BY <1>3 DEF JoinEnds
  <2>3. UNCHANGED <<cancelled, misled>>
    BY <1>3 DEF JoinEnds, Unlock, clocks
  <2> QED
    BY <1>3, <2>1, <2>2, <2>3 DEF JoinEnds
<1>4. CASE SpawnWaiter(d)
  BY <1>4 DEF SpawnWaiter, vars, clocks, seen
<1> QED
  BY <1>2, <1>3, <1>4

LEMMA SeatedSearcher ==
  ASSUME NEW d \in Call, HearsOnce(d), HomeOf(d), JoinEnds(d) \/ SpawnWaiter(d)
  PROVE  /\ phase[d] = "searching" /\ seat[d] = NoCall
         /\ sub[d] = "none" /\ wire[d] = "nothing" /\ told[d] = {}
<1>1. CASE JoinEnds(d)
  BY <1>1 DEF HearsOnce, SearcherUntold, HomeOf, JoinEnds, Unlock, Searched
<1>2. CASE SpawnWaiter(d)
  BY <1>2 DEF HearsOnce, SearcherUntold, HomeOf, SpawnWaiter, Making
<1> QED
  BY <1>1, <1>2

LEMMA WireOfNext ==
  ASSUME VerdictInv, [ServiceNext]_svars, NEW d \in Call, HomeOf(d), WireOf(d),
         \A l \in Call : Undecided(l)
  PROVE  WireOf(d)'
<1>1. ServiceInv /\ HearsOnce(d)
  BY DEF VerdictInv
<1>2. CASE seat'[d] # seat[d]
  <2>1. sub'[d] = "none" /\ wire'[d] = "nothing"
    BY <1>1, <1>2, SeatSources, SeatedSearcher DEF streams
  <2> QED
    BY <2>1 DEF WireOf
<1>3. CASE seat'[d] = seat[d]
  <2>1. sub'[d] # "none" => seat'[d] \in Call
    <3>1. CASE sub'[d] # "none" /\ sub[d] = "none"
      <4>1. HandlerStep(d)
        BY <1>1, <3>1, HandlersOwnStep DEF Untouched
      <4>2. Subscribe(d)
        BY <1>1, <3>1, <4>1
           DEF HandlerStep, List, ListError, NoCandidate, JoinBegins, JoinProceeds,
               JoinEnds, CreateBegins, CreateProceeds, SpawnWaiter, Register, Leave,
               ServiceInv, ServiceTypeOK, streams
      <4> QED
        BY <1>3, <4>2 DEF Subscribe, HomeOf
    <3> QED
      BY <1>3, <3>1 DEF WireOf
  <2>2. ASSUME wire'[d] # "nothing"
        PROVE  wire'[d] = verdict'[seat'[d]]
    <3>1. CASE wire'[d] = wire[d]
      <4>1. /\ wire[d] = verdict[seat[d]] /\ seat[d] \in Call
            /\ waiter[seat[d]] = "done"
        BY <1>1, <2>2, <3>1 DEF WireOf, HearsOnce, JoinerHearsOnce
      <4>2. verdict'[seat[d]] = verdict[seat[d]]
        BY <1>1, <4>1, DecidedOnce
      <4> QED
        BY <1>3, <3>1, <4>1, <4>2
    <3> QED
      BY <1>1, <2>2, <3>1, WireSources
  <2> QED
    BY <2>1, <2>2 DEF WireOf
<1> QED
  BY <1>2, <1>3

\* Only a call that searches starts to make a lobby.
LEMMA MakingSources ==
  ASSUME ServiceInv, [ServiceNext]_svars, NEW d \in Call, Making(d)', ~Making(d)
  PROVE  pc[d] = "listed"
<1> USE DEF Making
<1>1. ~Same(d) /\ ~Crash(d)
  BY DEF Same, Crash, ServiceInv, TypeInv, TypeOK
<1>2. CASE List(d) \/ ListError(d) \/ JoinBegins(d)
  <2> USE DEF ServiceInv, TypeInv, TypeOK
  <2>1. CASE List(d)
    BY <2>1 DEF List, ReadIndex, LoadLobby, CleanMissing
  <2>2. CASE ListError(d) \/ JoinBegins(d)
    BY <2>2 DEF ListError, ListFails, JoinBegins, Lock, LockFails
  <2> QED
    BY <1>2, <2>1, <2>2
<1>3. CASE JoinProceeds(d) \/ JoinEnds(d)
  <2> USE DEF ServiceInv, TypeInv, TypeOK
  <2>1. CASE JoinProceeds(d)
    BY <2>1 DEF JoinProceeds, GetForAdd, CheckVersion, SkipUpdate, WriteData, WriteIndex,
                FinishSlot
  <2>2. CASE JoinEnds(d)
    BY <2>2 DEF JoinEnds, Unlock
  <2> QED
    BY <1>3, <2>1, <2>2
<1>4. CASE CreateBegins(d) \/ CreateProceeds(d)
  BY <1>4 DEF CreateBegins, CreateProceeds, NewLobbyBegins, CheckNew, GiveUp
<1>5. ~NoCandidate(d) /\ ~Subscribe(d) /\ ~SpawnWaiter(d) /\ ~Register(d) /\ ~Leave(d)
  BY DEF NoCandidate, Subscribe, SpawnWaiter, Register, Leave, vars
<1> QED
  BY <1>1, <1>2, <1>3, <1>4, <1>5, HandlersOwnStep DEF HandlerStep

LEMMA TakenAtHomeNext ==
  ASSUME HomeInv, [ServiceNext]_svars
  PROVE  TakenAtHome'
<1> SUFFICES ASSUME NEW c \in Call, NEW l \in Call, Taken(c, l)', ~misled'[c]
             PROVE  (Making(c)' => l = c) /\ seat'[c] \in {NoCall, l}
  BY DEF TakenAtHome
<1>1. ServiceInv /\ TypeInv /\ [Next]_vars /\ HomeOf(c)
  BY StoreStep DEF HomeInv, StartInv, ServiceInv
<1>2. ~misled[c]
  BY <1>1, MisledStays
<1>3. CASE Taken(c, l)
  <2>1. Settled(c, l) /\ (Making(c) => l = c) /\ seat[c] \in {NoCall, l}
    BY <1>2, <1>3 DEF HomeInv, StartInv, TakenSettled, TakenAtHome
  <2>2. Making(c)' => l = c
    BY <1>1, <2>1, MakingSources DEF Settled
  <2>3. CASE seat'[c] # seat[c]
    <3>1. CASE JoinEnds(c) /\ seat'[c] = target[c]
      BY <2>1, <2>2, <3>1 DEF JoinEnds, Unlock, Settled
    <3>2. CASE SpawnWaiter(c) /\ seat'[c] = c
      BY <2>1, <2>2, <3>2 DEF SpawnWaiter, Making
    <3> QED
      BY <1>1, <2>3, <3>1, <3>2, SeatSources
  <2> QED
    BY <2>1, <2>2, <2>3
<1>4. CASE RecordPut(c, l)
  <2>1. pc[c] \in {"write", "create"} /\ target[c] = l
    BY <1>4 DEF RecordPut, WriteData
  <2>2. seat[c] = NoCall
    BY <1>1, <2>1 DEF HomeOf
  <2>3. Making(c)' => l = c
    <3>1. CASE pc[c] = "write"
      BY <1>1, <2>1, <3>1, MakingSources DEF Making
    <3>2. CASE pc[c] = "create"
      BY <2>1, <3>2 DEF HomeInv, OwnLobby
    <3> QED
      BY <2>1, <3>1, <3>2
  <2>4. seat'[c] = seat[c]
    BY <1>1, <2>1, SeatSources DEF JoinEnds, Unlock, SpawnWaiter
  <2> QED
    BY <2>2, <2>3, <2>4
<1> QED
  BY <1>1, <1>3, <1>4, TakenSources

LEMMA HomeInvInit == ServiceInit => HomeInv
<1> SUFFICES ASSUME ServiceInit
             PROVE  HomeInv
  OBVIOUS
<1>1. StartInv /\ VerdictInv
  BY StartInvInit, VerdictInvInit
<1>2. RecordInv
  BY RecordInvInit DEF ServiceInit
<1>3. OwnLobby /\ \A c \in Call : HomeOf(c) /\ WireOf(c) /\ Undecided(c)
  BY DEF ServiceInit, Init, OwnLobby, HomeOf, WireOf, Undecided, Making
<1>4. TakenAtHome
  BY DEF ServiceInit, Init, TakenAtHome, Taken, Placed, HasCopy, Starting
<1> QED
  BY <1>1, <1>2, <1>3, <1>4 DEF HomeInv

LEMMA HomeInvNext ==
  ASSUME HomeInv, [ServiceNext]_svars
  PROVE  HomeInv'
<1>1. ServiceInv /\ TypeInv /\ [Next]_vars
  BY StoreStep DEF HomeInv, StartInv, ServiceInv
<1>2. StartInv' /\ VerdictInv'
  BY StartInvNext, VerdictInvNext DEF HomeInv
<1>3. RecordInv' /\ OwnLobby'
  BY <1>1, RecordInvNext, OwnLobbyNext DEF HomeInv
<1>4. ASSUME NEW c \in Call
      PROVE  (HomeOf(c) /\ WireOf(c) /\ Undecided(c))'
  BY <1>1, HomeOfNext, WireOfNext, UndecidedNext DEF HomeInv
<1> QED
  BY <1>2, <1>3, <1>4, TakenAtHomeNext DEF HomeInv

StartRosters == [l \in Call |-> Starters(l)]

LEMMA StartRostersKept ==
  ASSUME verdict' = verdict, view' = view
  PROVE  StartRosters' = StartRosters
  BY DEF StartRosters, Starters, Starting

\* Who a lobby starts with has a place there.
LEMMA StarterTaken ==
  ASSUME NEW c \in Call, NEW l \in Call, c \in StartRosters[l]
  PROVE  Starting(l) /\ Taken(c, l)
  BY DEF StartRosters, Starters, Taken

LEMMA SettleStep ==
  ASSUME HomeInv, [ServiceNext]_svars, NEW d \in Call, seat'[d] # seat[d]
  PROVE  V!Settle(d)
<1>1. ServiceInv /\ HearsOnce(d) /\ HomeOf(d)
  BY DEF HomeInv, StartInv, VerdictInv
<1>2. /\ \/ JoinEnds(d) /\ seat'[d] = target[d] /\ target[d] \in Call
         \/ SpawnWaiter(d) /\ seat'[d] = d
      /\ seat' = [seat EXCEPT ![d] = seat'[d]]
      /\ UNCHANGED <<streams, verdict, view, cancelled, misled>>
  BY <1>1, SeatSources
<1>3. seat[d] = NoCall /\ told[d] = {}
  BY <1>1, <1>2, SeatedSearcher
<1>4. ASSUME NEW k \in Call, d \in StartRosters[k], ~misled[d]
      PROVE  k = seat'[d]
  <2>1. Taken(d, k)
    BY <1>4, StarterTaken
  <2>2. Settled(d, k) /\ (Making(d) => k = d)
    BY <1>4, <2>1 DEF HomeInv, StartInv, TakenSettled, TakenAtHome
  <2>3. CASE JoinEnds(d) /\ seat'[d] = target[d]
    BY <2>2, <2>3 DEF JoinEnds, Unlock, Settled
  <2>4. CASE SpawnWaiter(d) /\ seat'[d] = d
    BY <2>2, <2>4 DEF SpawnWaiter, Making
  <2> QED
    BY <1>2, <2>3, <2>4
<1>5. UNCHANGED <<verdict, StartRosters, told, cancelled, misled>>
  BY <1>2, StartRostersKept DEF streams
<1> QED
  BY <1>2, <1>3, <1>4, <1>5 DEF V!Settle, StartRosters

LEMMA StartStep ==
  ASSUME HomeInv, NEW l \in Call, TickDecides(l), verdict'[l] = "STARTING"
  PROVE  V!Start(l)
<1> DEFINE s == Seated(record[l])
<1>1. /\ ServiceInv /\ TypeInv /\ waiter[l] = "wait" /\ record[l] # NoLobby
      /\ UNCHANGED <<seat, told, cancelled, misled>>
      /\ view' = [view EXCEPT ![l] = record[l]]
  BY DEF TickDecides, RemoveBegins, HomeInv, StartInv, ServiceInv, clocks, seen,
         handler, streams
<1>2. record[l] \in LobbyRecord /\ WellFormed(record[l], l)
  BY <1>1 DEF HomeInv, RecordInv, RecordsWellFormed, WellFormed, TypeInv, TypeOK
<1>3. verdict[l] = "nothing" /\ verdict' = [verdict EXCEPT ![l] = "STARTING"]
  BY <1>1 DEF TickDecides, HomeInv, Undecided, ServiceInv, ServiceTypeOK
<1>4. s \in SUBSET Call /\ l \in s
  BY <1>2 DEF LobbyRecord, WellFormed, Seated
<1>5. StartRosters' = [StartRosters EXCEPT ![l] = s]
  BY <1>1, <1>3 DEF StartRosters, Starters, Starting, ServiceInv, ServiceTypeOK
<1>6. ASSUME NEW c \in s
      PROVE  c \in Call /\ Taken(c, l)
  BY <1>1, <1>4, <1>6 DEF Taken, Placed
<1>7. ASSUME NEW k \in Call
      PROVE  \A c \in StartRosters[k] \cap s : misled[c]
  <2> SUFFICES ASSUME NEW c \in s, c \in StartRosters[k], ~misled[c]
               PROVE  FALSE
    OBVIOUS
  <2>1. Starting(k) /\ Taken(c, k) /\ c \in Call /\ Taken(c, l)
    BY <1>6, StarterTaken
  <2>2. k = l
    BY <2>1 DEF HomeInv, StartInv, OneTaken
  <2> QED
    BY <1>3, <2>1, <2>2 DEF Starting
<1>8. ASSUME NEW c \in s
      PROVE  misled[c] \/ seat[c] \in {NoCall, l}
  BY <1>6, <1>8 DEF HomeInv, TakenAtHome
<1>9. V!Free(l, s)
  BY <1>4, <1>7, <1>8 DEF V!Free, StartRosters
<1> HIDE DEF s
<1> QED
  BY <1>1, <1>3, <1>4, <1>5, <1>9 DEF V!Start, StartRosters

LEMMA EndStep ==
  ASSUME HomeInv, NEW l \in Call, NEW v \in {"TIMEOUT", "ERROR"},
         TickDecides(l) \/ TickFails(l), verdict'[l] = v
  PROVE  V!End(l)
<1>1. /\ ServiceInv /\ waiter[l] = "wait"
      /\ UNCHANGED <<seat, told, cancelled, misled>>
  BY DEF TickDecides, RemoveBegins, TickFails, HomeInv, StartInv, vars, clocks, seen,
         handler, streams
<1>2. verdict[l] = "nothing" /\ verdict' = [verdict EXCEPT ![l] = v]
  BY <1>1 DEF TickDecides, TickFails, HomeInv, Undecided, ServiceInv, ServiceTypeOK
<1>3. StartRosters' = StartRosters
  <2> SUFFICES ASSUME NEW k \in Call
               PROVE  Starters(k)' = Starters(k)
    BY DEF StartRosters
  <2>1. CASE k = l
    BY <1>1, <1>2, <2>1 DEF Starters, Starting, ServiceInv, ServiceTypeOK
  <2>2. CASE k # l
    BY <1>1, <1>2, <2>2
       DEF TickDecides, TickFails, Starters, Starting, ServiceInv, ServiceTypeOK, waiting
  <2> QED
    BY <2>1, <2>2
<1> QED
  BY <1>1, <1>2, <1>3 DEF V!End, StartRosters

\* The three ways a verdict gets to a player.
LEMMA HearStep ==
  ASSUME HomeInv, NEW d \in Call, ListError(d) \/ Broadcast(d) \/ Deliver(d)
  PROVE  V!Hear(d) \/ UNCHANGED V!wvars
<1>1. ServiceInv /\ HearsOnce(d) /\ HomeOf(d) /\ WireOf(d)
  BY DEF HomeInv, StartInv, VerdictInv
<1>2. UNCHANGED <<cancelled, misled>>
  BY DEF ListError, ListFails, Broadcast, Deliver, vars, clocks, seen
<1>3. UNCHANGED <<seat, verdict, StartRosters>>
  BY StartRostersKept DEF ListError, Broadcast, Deliver, handler, waiting
<1>4. PICK to \in SUBSET {d}, v \in Verdicts :
        /\ told' = Sent(to, v) /\ told[d] = {}
        /\ to # {} => v = IF seat[d] = NoCall THEN "ERROR" ELSE verdict[seat[d]]
  <2>1. CASE ListError(d)
    <3>1. pc[d] \in {"start", "load"} /\ told' = Sent({d}, "ERROR")
      BY <2>1 DEF ListError, ListFails
    <3>2. seat[d] = NoCall /\ told[d] = {}
      BY <1>1, <3>1 DEF HomeOf, HearsOnce, SearcherUntold, Searched
    <3> QED
      BY <3>1, <3>2 DEF Verdicts
  <2>2. CASE Broadcast(d)
    <3>1. /\ told' = Sent(IF local[d] THEN {d} ELSE {}, verdict[d])
          /\ waiter[d] = "broadcast"
      BY <2>2 DEF Broadcast
    <3>2. verdict[d] \in Verdicts /\ seat[d] = d /\ told[d] = {}
      BY <1>1, <3>1 DEF ServiceInv, Decided, HomeOf, HearsOnce, MakerHearsOnce
    <3> QED
      BY <3>1, <3>2, NoCallAssumption
  <2>3. CASE Deliver(d)
    <3>1. told' = Sent({d}, wire[d]) /\ wire[d] # "nothing"
      BY <2>3 DEF Deliver
    <3>2. /\ wire[d] \in Verdicts /\ wire[d] = verdict[seat[d]]
          /\ seat[d] \in Call /\ told[d] = {}
      BY <1>1, <3>1
         DEF ServiceInv, ServiceTypeOK, WireOf, HearsOnce, JoinerHearsOnce
    <3> QED
      BY <3>1, <3>2, NoCallAssumption
  <2> QED
    BY <2>1, <2>2, <2>3
<1>5. DOMAIN told = Call /\ told = [c \in Call |-> told[c]]
  BY <1>1 DEF ServiceInv, ServiceTypeOK
<1>6. CASE to = {} \/ cancelled[d]
  <2>1. told' = told
    BY <1>4, <1>5, <1>6 DEF Sent
  <2> QED
    BY <1>2, <1>3, <2>1 DEF V!wvars, StartRosters
<1>7. CASE d \in to /\ ~cancelled[d]
  <2>1. told' = [told EXCEPT ![d] = {v}]
    BY <1>4, <1>5, <1>7 DEF Sent
  <2> QED
    BY <1>2, <1>3, <1>4, <1>7, <2>1 DEF V!Hear, StartRosters, Verdicts
<1> QED
  BY <1>4, <1>6, <1>7

LEMMA VerdictStep ==
  ASSUME HomeInv, [ServiceNext]_svars
  PROVE  [V!VerdictNext]_(V!wvars)
<1>1. ServiceInv /\ TypeInv /\ [Next]_vars
  BY StoreStep DEF HomeInv, StartInv, ServiceInv
<1> USE DEF handler, streams, waiting
<1>2. CASE UNCHANGED <<seat, told, verdict, view, cancelled, misled>>
  BY <1>2, StartRostersKept DEF V!wvars, StartRosters
<1>3. ASSUME NEW c \in Call, ListError(c) \/ Broadcast(c) \/ Deliver(c)
      PROVE  [V!VerdictNext]_(V!wvars)
  BY <1>3, HearStep DEF V!VerdictNext
<1>4. ASSUME NEW c \in Call, JoinEnds(c) \/ SpawnWaiter(c)
      PROVE  [V!VerdictNext]_(V!wvars)
  <2>1. CASE seat'[c] # seat[c]
    BY <2>1, SettleStep DEF V!VerdictNext
  <2>2. CASE seat'[c] = seat[c]
    <3>1. seat' = seat
      BY <1>1, <1>4, <2>2 DEF JoinEnds, SpawnWaiter, ServiceInv, ServiceTypeOK
    <3>2. UNCHANGED <<cancelled, misled>>
      BY <1>4 DEF JoinEnds, Unlock, SpawnWaiter, vars, clocks, seen
    <3> QED
      BY <1>2, <1>4, <3>1, <3>2 DEF JoinEnds, SpawnWaiter
  <2> QED
    BY <2>1, <2>2
<1>5. ASSUME NEW l \in Call, TickDecides(l) \/ TickFails(l)
      PROVE  [V!VerdictNext]_(V!wvars)
  <2>1. \/ TickDecides(l) /\ verdict'[l] = "STARTING"
        \/ verdict'[l] \in {"TIMEOUT", "ERROR"}
    BY <1>1, <1>5 DEF TickDecides, TickFails, ServiceInv, ServiceTypeOK
  <2> QED
    BY <1>5, <2>1, StartStep, EndStep DEF V!VerdictNext
<1>6. ASSUME NEW c \in Call, JoinProceeds(c) \/ CreateProceeds(c)
      PROVE  [V!VerdictNext]_(V!wvars)
  <2>1. UNCHANGED <<seat, told, verdict, view, cancelled>>
    BY <1>6, StepKeepsClients DEF JoinProceeds, CreateProceeds, CallStep
  <2>2. ASSUME NEW d \in Call, pc[d] = "write", misled' = [misled EXCEPT ![d] = TRUE]
        PROVE  V!Mislead(d)
    <3>1. HomeOf(d) /\ HearsOnce(d)
      BY DEF HomeInv, VerdictInv
    <3>2. seat[d] = NoCall /\ told[d] = {}
      BY <2>2, <3>1 DEF HomeOf, HearsOnce, SearcherUntold, Searched
    <3>3. UNCHANGED StartRosters
      BY <2>1, StartRostersKept
    <3> QED
      BY <2>1, <2>2, <3>2, <3>3 DEF V!Mislead, StartRosters
  <2> QED
    BY <1>1, <1>2, <2>1, <2>2, MisledSources DEF V!VerdictNext
<1>7. ASSUME NEW c \in Call,
             \/ List(c) \/ NoCandidate(c) \/ JoinBegins(c) \/ Subscribe(c)
             \/ CreateBegins(c) \/ Register(c) \/ Leave(c)
      PROVE  UNCHANGED <<seat, told, verdict, view, cancelled, misled>>
  <2>1. UNCHANGED <<seat, told, verdict, view>>
    BY <1>7 DEF List, NoCandidate, JoinBegins, Subscribe, CreateBegins, Register, Leave
  <2>2. UNCHANGED <<cancelled, misled>>
    BY <1>7 DEF List, ReadIndex, LoadLobby, CleanMissing, NoCandidate, JoinBegins, Lock,
                LockFails, Subscribe, CreateBegins, NewLobbyBegins, Register, Leave,
                vars, clocks, seen
  <2> QED
    BY <2>1, <2>2
<1>8. ASSUME NEW l \in Call, \/ TickWaits(l) \/ WaiterCtxDone(l) \/ Remove(l)
                            \/ Publish(l) \/ SubscriptionActive(l)
      PROVE  UNCHANGED <<seat, told, verdict, view, cancelled, misled>>
  BY <1>8 DEF TickWaits, WaiterCtxDone, Remove, RemoveData, RemoveIndex, Publish,
              SubscriptionActive, vars, clocks, seen
<1>9. CASE Environment /\ UNCHANGED <<handler, streams, waiting>>
  <2>1. misled' = misled
    BY <1>9 DEF Environment, DeadlinePasses, RecordExpires, IndexExpires, MutexExpires,
                Cancel, Crash, seen
  <2>2. ASSUME NEW c \in Call, Cancel(c) \/ Crash(c)
        PROVE  V!Leave(c)
    <3>1. cancelled' = [cancelled EXCEPT ![c] = TRUE]
      BY <2>2 DEF Cancel, Crash
    <3>2. UNCHANGED <<seat, told, verdict, StartRosters>>
      BY <1>9, StartRostersKept
    <3> QED
      BY <2>1, <3>1, <3>2 DEF V!Leave, StartRosters
  <2>3. ASSUME \A c \in Call : ~Cancel(c) /\ ~Crash(c)
        PROVE  cancelled' = cancelled
    BY <1>9, <2>3 DEF Environment, DeadlinePasses, RecordExpires, MutexExpires,
                      IndexExpires, clocks
  <2> QED
    BY <1>2, <1>9, <2>1, <2>2, <2>3 DEF V!VerdictNext
<1>10. CASE UNCHANGED svars
  BY <1>2, <1>10 DEF svars, vars, clocks, seen
<1> QED
  BY <1>2, <1>3, <1>4, <1>5, <1>6, <1>7, <1>8, <1>9, <1>10
     DEF ServiceNext, HandlerStep, WaiterStep

\* Whatever fails, is slow, crashes or gets lost, retries, waiters,
\* subscriptions and streams together come to no more than this: a call
\* settles in one lobby, a lobby is decided once, a call hears its own lobby's
\* verdict or an error of its search, and once, and a call that a lobby starts
\* with settles and starts nowhere else, unless AddPlayer wrote it on a roster
\* and returned an error (handler.go:85-180, waiter.go:41-70,
\* streamer.go:44-132).
THEOREM ServiceImplementsVerdict == ServiceSpec => ServiceKeepsVerdicts
<1>1. ServiceInit => V!VerdictInit
  BY DEF ServiceInit, Init, V!VerdictInit, Starters, Starting
<1>2. HomeInv /\ [ServiceNext]_svars => HomeInv'
  BY HomeInvNext
<1>3. HomeInv /\ [ServiceNext]_svars => [V!VerdictNext]_(V!wvars)
  BY VerdictStep
<1> QED
  BY HomeInvInit, <1>1, <1>2, <1>3, PTL
     DEF ServiceSpec, ServiceKeepsVerdicts, V!VerdictSpec
=============================================================================
