--------------------------- MODULE LobbySeatProofs ---------------------------
(***************************************************************************)
(* While no lock outlives its lease AddPlayer is a critical section, and if *)
(* besides no transaction is refused or loses its reply no seated call is   *)
(* dropped.  Reads may fail, processes crash, clients leave, keys expire    *)
(* and locks stay behind.                                                   *)
(***************************************************************************)
EXTENDS LobbyStoreProofs

-----------------------------------------------------------------------------
(* Where the parts of the state come from in one step *)

\* A call's own locals change by its own steps and its crash alone.
Same(d) ==
  /\ pc'[d] = pc[d] /\ target'[d] = target[d] /\ copy'[d] = copy[d]
  /\ slots'[d] = slots[d] /\ failed'[d] = failed[d] /\ found'[d] = found[d]

LEMMA StepIsOwn ==
  ASSUME TypeInv, NEW c \in Call, CallStep(c), NEW d \in Call \ {c}
  PROVE  Same(d)
<1> USE DEF TypeInv, TypeOK, redis, clocks, reading, writing, removal, seen
<1>1. CASE ReadIndex(c) \/ ListFails(c) \/ CleanMissing(c) \/ GetForAdd(c)
  BY <1>1 DEF ReadIndex, ListFails, CleanMissing, GetForAdd, Same
<1>2. ASSUME NEW l \in Call, LoadLobby(c, l) \/ Lock(c, l) \/ LockFails(c, l)
      PROVE  Same(d)
  BY <1>2 DEF LoadLobby, Lock, LockFails, Same
<1>3. CASE CheckVersion(c)
  BY <1>3 DEF CheckVersion, SkipUpdate, Same
<1>4. CASE WriteData(c) \/ WriteIndex(c)
  BY <1>4 DEF WriteData, WriteIndex, FinishSlot, Same
<1>5. CASE Unlock(c) \/ NewLobbyBegins(c) \/ CheckNew(c) \/ GiveUp(c)
  BY <1>5 DEF Unlock, NewLobbyBegins, CheckNew, GiveUp, Same
<1> QED
  BY <1>1, <1>2, <1>3, <1>4, <1>5 DEF CallStep

LEMMA RemovalKeepsLocals ==
  ASSUME NEW l \in Call, RemovalStep(l), NEW d \in Call
  PROVE  Same(d)
  BY DEF RemovalStep, RemoveBegins, RemoveData, RemoveIndex, Same, writing, reading

LEMMA OthersKeepLocals ==
  ASSUME TypeInv, [Next]_vars, NEW d \in Call
  PROVE  CallStep(d) \/ Crash(d) \/ Same(d)
<1> USE DEF TypeInv, TypeOK, redis, clocks, reading, writing, removal, seen
<1>1. CASE Environment
  BY <1>1 DEF Environment, DeadlinePasses, RecordExpires, IndexExpires,
              MutexExpires, Cancel, Crash, Same
<1>2. CASE UNCHANGED vars
  BY <1>2 DEF vars, Same
<1> QED
  BY <1>1, <1>2, StepIsOwn, RemovalKeepsLocals DEF Next

\* Clients leave on their own.
LEMMA StepKeepsClients ==
  ASSUME NEW c \in Call, CallStep(c) \/ RemovalStep(c)
  PROVE  cancelled' = cancelled
<1> USE DEF redis, clocks, reading, writing, removal, seen
<1>1. CASE CallStep(c)
  BY <1>1 DEF CallStep, ReadIndex, LoadLobby, ListFails, CleanMissing, Lock,
              LockFails, GetForAdd, CheckVersion, WriteData, WriteIndex, Unlock,
              NewLobbyBegins, CheckNew, GiveUp
<1>2. CASE RemovalStep(c)
  BY <1>2 DEF RemovalStep, RemoveBegins, RemoveData, RemoveIndex
<1> QED
  BY <1>1, <1>2

LEMMA CancelledStays ==
  ASSUME TypeInv, [Next]_vars, NEW d \in Call, cancelled[d]
  PROVE  cancelled'[d]
<1> USE DEF TypeInv, TypeOK, redis, clocks, reading, writing, removal, seen
<1>1. CASE Environment
  BY <1>1 DEF Environment, DeadlinePasses, RecordExpires, IndexExpires,
              MutexExpires, Cancel, Crash
<1>2. CASE UNCHANGED vars
  BY <1>2 DEF vars
<1> QED
  BY <1>1, <1>2, StepKeepsClients DEF Next

\* What a step can do to a lobby's mutex.
MutexTaken(c, l) == mutex[l] = NoCall /\ mutex'[l] = c
MutexFreed(c, l) == Unlock(c) /\ target[c] = l /\ mutex[l] = c
MutexLapsed(l) ==
  "slow" \in Faults \/ ~(InCS(mutex[l]) /\ target[mutex[l]] = l)

LEMMA MutexSources ==
  ASSUME TypeInv, [Next]_vars, NEW l \in Call
  PROVE  \/ mutex'[l] = mutex[l]
         \/ \E c \in Call : MutexTaken(c, l) \/ MutexFreed(c, l)
         \/ MutexLapsed(l)
<1> USE DEF TypeInv, TypeOK, redis, clocks, reading, writing, removal, seen
<1>1. ASSUME NEW c \in Call, CallStep(c), ~Unlock(c),
             \A k \in Call : ~Lock(c, k) /\ ~LockFails(c, k)
      PROVE  mutex' = mutex
  BY <1>1 DEF CallStep, ReadIndex, LoadLobby, ListFails, CleanMissing, GetForAdd,
              CheckVersion, WriteData, WriteIndex, NewLobbyBegins, CheckNew, GiveUp
<1>2. ASSUME NEW c \in Call, NEW k \in Call, Lock(c, k) \/ LockFails(c, k)
      PROVE  mutex'[l] = mutex[l] \/ MutexTaken(c, l)
  BY <1>2 DEF Lock, LockFails, MutexTaken
<1>3. ASSUME NEW c \in Call, Unlock(c)
      PROVE  mutex'[l] = mutex[l] \/ MutexFreed(c, l)
  BY <1>3 DEF Unlock, MutexFreed
<1>4. ASSUME NEW k \in Call, RemovalStep(k)
      PROVE  mutex' = mutex
  BY <1>4 DEF RemovalStep, RemoveBegins, RemoveData, RemoveIndex
<1>5. CASE Environment
  BY <1>5 DEF Environment, DeadlinePasses, RecordExpires, IndexExpires,
              MutexExpires, Cancel, Crash, MutexLapsed
<1>6. CASE UNCHANGED vars
  BY <1>6 DEF vars
<1> QED
  BY <1>1, <1>2, <1>3, <1>4, <1>5, <1>6 DEF Next
-----------------------------------------------------------------------------
(* Mutual exclusion *)

LEMMA HoldersApart ==
  ASSUME TypeInv, LockHeld, NEW c \in Call, NEW d \in Call,
         InCS(c), InCS(d), target[c] = target[d]
  PROVE  c = d
  BY DEF LockHeld

LEMMA LockHeldNext ==
  ASSUME "slow" \notin Faults, TypeInv, LockHeld, [Next]_vars
  PROVE  LockHeld'
<1> SUFFICES ASSUME NEW d \in Call, InCS(d)'
             PROVE  mutex'[target'[d]] = d
  BY DEF LockHeld
<1>1. ASSUME NEW l \in Call, Lock(d, l)
      PROVE  mutex'[target'[d]] = d
  BY <1>1 DEF Lock, TypeInv, TypeOK
<1>2. CASE InCS(d) /\ target'[d] = target[d]
  <2> DEFINE l == target[d]
  <2>1. l \in Call /\ mutex[l] = d /\ d # NoCall
    BY <1>2, NoCallAssumption DEF LockHeld, TypeInv, Locals, HasTarget
  <2>2. ASSUME NEW c \in Call, MutexTaken(c, l)
        PROVE  FALSE
    BY <2>1, <2>2 DEF MutexTaken
  <2>3. ASSUME NEW c \in Call, MutexFreed(c, l)
        PROVE  FALSE
    BY <2>1, <2>3 DEF MutexFreed, Unlock, InCS, TypeInv, TypeOK
  <2>4. ~MutexLapsed(l)
    BY <1>2, <2>1 DEF MutexLapsed
  <2> QED
    BY <1>2, <2>1, <2>2, <2>3, <2>4, MutexSources
<1>3. \/ \E l \in Call : Lock(d, l)
      \/ InCS(d) /\ target'[d] = target[d]
  <2>1. CASE Same(d)
    BY <2>1 DEF Same, InCS
  <2>2. CASE Crash(d)
    BY <2>2 DEF Crash, InCS, TypeInv, TypeOK
  <2>3. CASE CallStep(d)
    <3> USE DEF TypeInv, TypeOK, InCS, redis, clocks, reading, writing, removal, seen
    <3>1. CASE ReadIndex(d) \/ ListFails(d) \/ CleanMissing(d) \/ GetForAdd(d)
      BY <3>1 DEF ReadIndex, ListFails, CleanMissing, GetForAdd
    <3>2. ASSUME NEW l \in Call, LoadLobby(d, l) \/ LockFails(d, l)
          PROVE  FALSE
      BY <3>2 DEF LoadLobby, LockFails
    <3>3. CASE CheckVersion(d)
      BY <3>3 DEF CheckVersion, SkipUpdate
    <3>4. CASE WriteData(d) \/ WriteIndex(d)
      BY <3>4 DEF WriteData, WriteIndex, FinishSlot
    <3>5. CASE Unlock(d) \/ NewLobbyBegins(d) \/ CheckNew(d) \/ GiveUp(d)
      BY <3>5 DEF Unlock, NewLobbyBegins, CheckNew, GiveUp
    <3> QED
      BY <2>3, <3>1, <3>2, <3>3, <3>4, <3>5 DEF CallStep
  <2> QED
    BY <2>1, <2>2, <2>3, OthersKeepLocals
<1> QED
  BY <1>1, <1>2, <1>3

\* As long as no call stays inside AddPlayer beyond the lock's own expiry,
\* two calls are never inside it for one lobby, whatever else fails: the
\* unlock script spares a lock that is not the caller's, and the expiry only
\* frees those left behind (store.go:143-160).
THEOREM LocksExclude ==
  ASSUME "slow" \notin Faults
  PROVE  Spec => []MutualExclusion
<1>1. Init => TypeInv /\ LockHeld
  BY TypeInvInit DEF Init, LockHeld, InCS
<1>2. TypeInv /\ LockHeld /\ [Next]_vars => (TypeInv /\ LockHeld)'
  BY TypeInvNext, LockHeldNext
<1>3. TypeInv /\ LockHeld => MutualExclusion
  BY HoldersApart DEF MutualExclusion
<1> QED
  BY <1>1, <1>2, <1>3, PTL DEF Spec

-----------------------------------------------------------------------------
(* Acknowledgements, and lobbies that nobody can know of *)

\* A call is acknowledged by its unlock, or by the end of AddLobby.
AckSeat(c, l) ==
  /\ Unlock(c) /\ ~failed[c] /\ target[c] = l
  /\ acked'[l] = acked[l] \cup {c}
AckMade(l) ==
  /\ pc[l] \in {"new", "create", "create_err"} /\ pc'[l] = "created"
  /\ acked'[l] = acked[l] \cup {l}

LEMMA AckSources ==
  ASSUME TypeInv, [Next]_vars, NEW l \in Call
  PROVE  \/ acked'[l] = acked[l]
         \/ \E c \in Call : AckSeat(c, l)
         \/ AckMade(l)
<1> USE DEF TypeInv, TypeOK, redis, clocks, reading, writing, removal, seen
<1>1. ASSUME NEW c \in Call, CallStep(c)
      PROVE  acked'[l] = acked[l] \/ AckSeat(c, l) \/ AckMade(l)
  <2>1. CASE ReadIndex(c) \/ ListFails(c) \/ CleanMissing(c) \/ GetForAdd(c)
    BY <2>1 DEF ReadIndex, ListFails, CleanMissing, GetForAdd
  <2>2. ASSUME NEW k \in Call, LoadLobby(c, k) \/ Lock(c, k) \/ LockFails(c, k)
        PROVE  acked' = acked
    BY <2>2 DEF LoadLobby, Lock, LockFails
  <2>3. CASE CheckVersion(c)
    BY <2>3 DEF CheckVersion
  <2>4. CASE WriteData(c) \/ WriteIndex(c)
    <3>1. PICK s \in Slots, err \in BOOLEAN : FinishSlot(c, s, err)
      BY <2>4 DEF WriteData, WriteIndex, Slots
    <3>2. pc[c] \in {"write", "create"}
      BY <2>4 DEF WriteData, WriteIndex
    <3> QED
      BY <3>1, <3>2 DEF FinishSlot, AckMade
  <2>5. CASE Unlock(c)
    BY <2>5 DEF Unlock, AckSeat
  <2>6. CASE CheckNew(c)
    BY <2>6 DEF CheckNew, AckMade
  <2>7. CASE NewLobbyBegins(c) \/ GiveUp(c)
    BY <2>7 DEF NewLobbyBegins, GiveUp
  <2> QED
    BY <1>1, <2>1, <2>2, <2>3, <2>4, <2>5, <2>6, <2>7 DEF CallStep
<1>2. ASSUME NEW k \in Call, RemovalStep(k)
      PROVE  acked' = acked
  BY <1>2 DEF RemovalStep, RemoveBegins, RemoveData, RemoveIndex
<1>3. CASE Environment
  BY <1>3 DEF Environment, DeadlinePasses, RecordExpires, IndexExpires,
              MutexExpires, Cancel, Crash
<1>4. CASE UNCHANGED vars
  BY <1>4 DEF vars
<1> QED
  BY <1>1, <1>2, <1>3, <1>4 DEF Next

\* A record once written is not unwritten.
LEMMA UnbornBefore ==
  ASSUME TypeInv, Creators, [Next]_vars, NEW l \in Call, Unborn(l)'
  PROVE  Unborn(l)
<1>1. CASE Same(l)
  BY <1>1, CancelledStays DEF Same, Unborn
<1>2. CASE Crash(l)
  BY <1>2 DEF Crash, Unborn, TypeInv, TypeOK
<1>3. CASE CallStep(l)
  <2> USE DEF TypeInv, TypeOK, Unborn, redis, clocks, reading, writing, removal, seen
  <2>1. CASE ReadIndex(l) \/ ListFails(l) \/ CleanMissing(l) \/ GetForAdd(l)
    BY <2>1 DEF ReadIndex, ListFails, CleanMissing, GetForAdd
  <2>2. ASSUME NEW k \in Call, LoadLobby(l, k) \/ Lock(l, k) \/ LockFails(l, k)
        PROVE  Unborn(l)
    BY <2>2 DEF LoadLobby, Lock, LockFails
  <2>3. CASE CheckVersion(l) \/ Unlock(l) \/ NewLobbyBegins(l)
    BY <2>3 DEF CheckVersion, Unlock, NewLobbyBegins
  <2>4. CASE WriteData(l) \/ WriteIndex(l)
    <3>1. PICK s \in Slots, err \in BOOLEAN : FinishSlot(l, s, err)
      BY <2>4 DEF WriteData, WriteIndex, Slots
    <3>2. pc[l] \in {"write", "create"} /\ cancelled' = cancelled
      BY <2>4 DEF WriteData, WriteIndex
    <3> QED
      BY <3>1, <3>2 DEF FinishSlot
  <2>5. CASE CheckNew(l) \/ GiveUp(l)
    BY <2>5 DEF CheckNew, GiveUp, Creators
  <2> QED
    BY <1>3, <2>1, <2>2, <2>3, <2>4, <2>5 DEF CallStep
<1> QED
  BY <1>1, <1>2, <1>3, OthersKeepLocals

\* Whoever writes a record that does not exist for good is its creator.
LEMMA WriterOfUnborn ==
  ASSUME TypeInv, OwnLobby, NEW c \in Call, NEW l \in Call, RecordPut(c, l),
         pc[c] = "create"
  PROVE  c = l /\ Unborn(l)
  BY DEF RecordPut, WriteData, OwnLobby, Unborn

\* A creator works on its own lobby, whatever fails.
LEMMA OwnLobbyNext ==
  ASSUME TypeInv, OwnLobby, [Next]_vars
  PROVE  OwnLobby'
<1> SUFFICES ASSUME NEW d \in Call, pc'[d] \in {"new", "create", "create_err"}
             PROVE  target'[d] = d
  BY DEF OwnLobby
<1>1. CASE Same(d)
  BY <1>1 DEF Same, OwnLobby
<1>2. CASE Crash(d)
  BY <1>2 DEF Crash, TypeInv, TypeOK
<1>3. CASE CallStep(d)
  <2> USE DEF TypeInv, TypeOK, OwnLobby, redis, clocks, reading, writing, removal, seen
  <2>1. CASE ReadIndex(d) \/ ListFails(d) \/ CleanMissing(d) \/ GetForAdd(d)
    BY <2>1 DEF ReadIndex, ListFails, CleanMissing, GetForAdd
  <2>2. ASSUME NEW k \in Call, LoadLobby(d, k) \/ Lock(d, k) \/ LockFails(d, k)
        PROVE  FALSE
    BY <2>2 DEF LoadLobby, Lock, LockFails
  <2>3. CASE CheckVersion(d)
    BY <2>3 DEF CheckVersion, SkipUpdate
  <2>4. CASE WriteData(d) \/ WriteIndex(d)
    <3>1. PICK s \in Slots, err \in BOOLEAN : FinishSlot(d, s, err)
      BY <2>4 DEF WriteData, WriteIndex, Slots
    <3>2. pc[d] \in {"write", "create"}
      BY <2>4 DEF WriteData, WriteIndex
    <3> QED
      BY <3>1, <3>2 DEF FinishSlot
  <2>5. CASE Unlock(d) \/ NewLobbyBegins(d) \/ CheckNew(d) \/ GiveUp(d)
    BY <2>5 DEF Unlock, NewLobbyBegins, CheckNew, GiveUp
  <2> QED
    BY <1>3, <2>1, <2>2, <2>3, <2>4, <2>5 DEF CallStep
<1> QED
  BY <1>1, <1>2, <1>3, OthersKeepLocals

LEMMA CreatorsNext ==
  ASSUME "exec" \notin Faults, TypeInv, Creators, [Next]_vars
  PROVE  Creators'
<1> SUFFICES ASSUME NEW d \in Call
             PROVE  /\ pc'[d] = "create_err" => cancelled'[d]
                    /\ failed'[d] => InCS(d)' \/ cancelled'[d]
  BY DEF Creators
<1>1. CASE Same(d)
  BY <1>1, CancelledStays DEF Same, Creators, InCS
<1>2. CASE Crash(d)
  BY <1>2 DEF Crash, TypeInv, TypeOK
<1>3. CASE CallStep(d)
  <2> USE DEF TypeInv, TypeOK, Creators, InCS, redis, clocks, reading, writing, removal, seen
  <2>1. CASE ReadIndex(d) \/ ListFails(d) \/ CleanMissing(d)
    BY <2>1 DEF ReadIndex, ListFails, CleanMissing
  <2>2. ASSUME NEW k \in Call, LoadLobby(d, k) \/ Lock(d, k) \/ LockFails(d, k)
        PROVE  /\ pc'[d] \in {"load", "zrem", "listed", "get"}
               /\ UNCHANGED <<failed, cancelled>>
               /\ ~InCS(d)
    BY <2>2 DEF LoadLobby, Lock, LockFails
  <2>3. CASE GetForAdd(d)
    BY <2>3 DEF GetForAdd
  <2>4. CASE CheckVersion(d)
    BY <2>4 DEF CheckVersion, SkipUpdate
  <2>5. CASE WriteData(d) \/ WriteIndex(d)
    <3>1. PICK s \in Slots, err \in BOOLEAN :
            FinishSlot(d, s, err) /\ (err => cancelled[d])
      BY <2>5 DEF WriteData, WriteIndex, Slots, Outcomes
    <3>2. pc[d] \in {"write", "create"} /\ cancelled' = cancelled
      BY <2>5 DEF WriteData, WriteIndex
    <3> QED
      BY <3>1, <3>2 DEF FinishSlot
  <2>6. CASE Unlock(d) \/ NewLobbyBegins(d) \/ CheckNew(d) \/ GiveUp(d)
    BY <2>6 DEF Unlock, NewLobbyBegins, CheckNew, GiveUp
  <2> QED
    BY <1>3, <2>1, <2>2, <2>3, <2>4, <2>5, <2>6 DEF CallStep
<1> QED
  BY <1>1, <1>2, <1>3, OthersKeepLocals

\* An unborn lobby stays unknown: no reader has seen it, no joiner works on it.
LEMMA UnbornUnknownNext ==
  ASSUME TypeInv, OwnLobby, Creators, UnbornUnknown, [Next]_vars
  PROVE  UnbornUnknown'
<1> SUFFICES ASSUME NEW l \in Call, Unborn(l)'
             PROVE  /\ record'[l] = NoLobby
                    /\ acked'[l] = {}
                    /\ \A c \in Call :
                         /\ l \notin found'[c]
                         /\ target'[c] = l => c = l /\ pc'[c] \in {"new", "create"}
  BY DEF UnbornUnknown
<1>1. Unborn(l)
  BY UnbornBefore
<1>2. /\ record[l] = NoLobby
      /\ acked[l] = {}
      /\ \A c \in Call : /\ l \notin found[c]
                         /\ target[c] = l => c = l /\ pc[c] \in {"new", "create"}
  BY <1>1 DEF UnbornUnknown
<1>3. record'[l] = NoLobby
  <2>1. ASSUME NEW c \in Call, RecordPut(c, l)
        PROVE  FALSE
    <3>1. c = l /\ pc[l] = "create"
      BY <1>2, <2>1 DEF RecordPut, WriteData
    <3>2. PICK err \in BOOLEAN : FinishSlot(l, "data", err)
      BY <2>1, <3>1 DEF RecordPut, WriteData
    <3>3. slots'[l] = slots[l] \ {"data"} \/ pc'[l] \in {"create_err", "created"}
      BY <3>2 DEF FinishSlot, TypeInv, TypeOK
    <3>4. "data" \notin slots'[l] /\ (pc'[l] = "create" \/ pc'[l] \in {"create_err", "created"})
      BY <3>1, <3>2 DEF FinishSlot, TypeInv, TypeOK
    <3> QED
      BY <3>4 DEF Unborn
  <2> QED
    BY <1>2, <2>1, RecordSources DEF RecordKept, RecordGone
<1>4. acked'[l] = {}
  <2>1. ASSUME NEW c \in Call, AckSeat(c, l)
        PROVE  FALSE
    BY <1>2, <2>1 DEF AckSeat, Unlock
  <2>2. CASE AckMade(l)
    BY <2>2 DEF AckMade, Unborn
  <2> QED
    BY <1>2, <2>1, <2>2, AckSources
<1>5. ASSUME NEW c \in Call
      PROVE  /\ l \notin found'[c]
             /\ target'[c] = l => c = l /\ pc'[c] \in {"new", "create"}
  <2>1. CASE Same(c)
    BY <1>2, <2>1 DEF Same
  <2>2. CASE Crash(c)
    BY <2>2, NoCallAssumption DEF Crash, TypeInv, TypeOK
  <2>3. CASE CallStep(c)
    <3> USE NoCallAssumption
            DEF TypeInv, TypeOK, redis, clocks, reading, writing, removal, seen
    <3>1. CASE ReadIndex(c) \/ ListFails(c) \/ CleanMissing(c) \/ GetForAdd(c)
      BY <1>2, <3>1 DEF ReadIndex, ListFails, CleanMissing, GetForAdd
    <3>2. ASSUME NEW k \in Call, LoadLobby(c, k)
          PROVE  /\ l \notin found'[c]
                 /\ target'[c] = l => c = l /\ pc'[c] \in {"new", "create"}
      BY <1>2, <3>2 DEF LoadLobby
    <3>3. ASSUME NEW k \in Call, Lock(c, k) \/ LockFails(c, k)
          PROVE  /\ l \notin found'[c]
                 /\ target'[c] = l => c = l /\ pc'[c] \in {"new", "create"}
      BY <1>2, <3>3 DEF Lock, LockFails
    <3>4. CASE CheckVersion(c)
      BY <1>2, <3>4 DEF CheckVersion
    <3>5. CASE WriteData(c) \/ WriteIndex(c)
      <4>1. PICK s \in Slots, err \in BOOLEAN : FinishSlot(c, s, err)
        BY <3>5 DEF WriteData, WriteIndex, Slots
      <4>2. pc[c] \in {"write", "create"} /\ found' = found
        BY <3>5 DEF WriteData, WriteIndex
      <4>3. CASE target[c] # l
        BY <1>2, <4>1, <4>2, <4>3 DEF FinishSlot
      <4>4. CASE target[c] = l
        <5>1. c = l /\ pc[c] = "create"
          BY <1>2, <4>2, <4>4
        <5>2. pc'[c] \in {"create", "create_err", "created"}
          BY <4>1, <5>1 DEF FinishSlot
        <5> QED
          BY <1>2, <4>2, <5>1, <5>2 DEF Unborn
      <4> QED
        BY <4>3, <4>4
    <3>6. CASE Unlock(c) \/ NewLobbyBegins(c)
      BY <1>2, <3>6 DEF Unlock, NewLobbyBegins
    <3>7. CASE CheckNew(c) \/ GiveUp(c)
      BY <1>2, <3>7 DEF CheckNew, GiveUp
    <3> QED
      BY <2>3, <3>1, <3>2, <3>3, <3>4, <3>5, <3>6, <3>7 DEF CallStep
  <2> QED
    BY <2>1, <2>2, <2>3, OthersKeepLocals
<1> QED
  BY <1>3, <1>4, <1>5

-----------------------------------------------------------------------------
(* No seated call is dropped *)

\* The creator is on every roster of its lobby.
LEMMA CreatorSeated ==
  ASSUME NEW l \in Call, NEW r \in LobbyRecord, WellFormed(r, l)
  PROVE  l \in Seated(r)
<1>1. 1 \in DOMAIN r.players /\ r.players[1] = l
  BY DEF LobbyRecord, WellFormed
<1> QED
  BY <1>1 DEF Seated

\* While a call is inside AddPlayer, only its own write reaches the record.
LEMMA RecordUnderLock ==
  ASSUME TypeInv, LockHeld, OwnLobby, Creators, UnbornUnknown, [Next]_vars,
         NEW d \in Call, InCS(d)
  PROVE  \/ RecordKept(target[d])
         \/ RecordGone(target[d])
         \/ RecordPut(d, target[d]) /\ pc[d] = "write"
<1> DEFINE l == target[d]
<1>1. l \in Call
  BY DEF TypeInv, Locals, HasTarget
<1>2. ASSUME NEW c \in Call, RecordPut(c, l)
      PROVE  c = d /\ pc[d] = "write"
  <2>1. pc[c] \in {"write", "create"} /\ target[c] = l
    BY <1>2 DEF RecordPut, WriteData
  <2>2. CASE pc[c] = "write"
    BY <2>1, <2>2, HoldersApart DEF InCS
  <2>3. CASE pc[c] = "create"
    BY <1>1, <1>2, <2>3, WriterOfUnborn DEF UnbornUnknown, InCS
  <2> QED
    BY <2>1, <2>2, <2>3
<1> QED
  BY <1>1, <1>2, RecordSources

\* And the only others it can find acknowledged are those already seated.
LEMMA AckedUnderLock ==
  ASSUME TypeInv, LockHeld, OwnLobby, Creators, [Next]_vars, NEW d \in Call, InCS(d), ~Unlock(d)
  PROVE  acked'[target[d]] \subseteq acked[target[d]] \cup {target[d]}
<1>1. target[d] \in Call
  BY DEF TypeInv, Locals, HasTarget
<1>2. ASSUME NEW c \in Call, AckSeat(c, target[d])
      PROVE  FALSE
  <2>1. InCS(c) /\ target[c] = target[d]
    BY <1>2 DEF AckSeat, Unlock, InCS
  <2> QED
    BY <1>2, <2>1, HoldersApart DEF AckSeat
<1> QED
  BY <1>1, <1>2, AckSources DEF AckMade

\* How a call gets to, and stays at, the writing half of AddPlayer.
LEMMA JoinerSources ==
  ASSUME TypeInv, [Next]_vars, NEW d \in Call, pc'[d] \in {"check", "write"}
  PROVE  \/ pc[d] = "get" /\ pc'[d] = "check" /\ GetForAdd(d)
         \/ /\ pc[d] \in {"check", "write"} /\ (pc'[d] = "check" => pc[d] = "check")
            /\ target'[d] = target[d] /\ copy'[d] = copy[d] /\ ~Unlock(d)
<1>1. CASE Same(d)
  BY <1>1 DEF Same, Unlock
<1>2. CASE Crash(d)
  BY <1>2 DEF Crash, TypeInv, TypeOK
<1>3. CASE CallStep(d)
  <2> USE DEF TypeInv, TypeOK, redis, clocks, reading, writing, removal, seen
  <2>1. CASE ReadIndex(d) \/ ListFails(d) \/ CleanMissing(d) \/ GetForAdd(d)
    BY <2>1 DEF ReadIndex, ListFails, CleanMissing, GetForAdd
  <2>2. ASSUME NEW k \in Call, LoadLobby(d, k) \/ Lock(d, k) \/ LockFails(d, k)
        PROVE  FALSE
    BY <2>2 DEF LoadLobby, Lock, LockFails
  <2>3. CASE CheckVersion(d)
    BY <2>3 DEF CheckVersion, SkipUpdate, Unlock
  <2>4. CASE WriteData(d) \/ WriteIndex(d)
    <3>1. PICK s \in Slots, err \in BOOLEAN : FinishSlot(d, s, err)
      BY <2>4 DEF WriteData, WriteIndex, Slots
    <3>2. pc[d] \in {"write", "create"}
      BY <2>4 DEF WriteData, WriteIndex
    <3> QED
      BY <3>1, <3>2 DEF FinishSlot, Unlock
  <2>5. CASE Unlock(d) \/ NewLobbyBegins(d) \/ CheckNew(d) \/ GiveUp(d)
    BY <2>5 DEF Unlock, NewLobbyBegins, CheckNew, GiveUp
  <2> QED
    BY <1>3, <2>1, <2>2, <2>3, <2>4, <2>5 DEF CallStep
<1> QED
  BY <1>1, <1>2, <1>3, OthersKeepLocals

LEMMA CopiesCurrentNext ==
  ASSUME RecordInv, LockHeld, OwnLobby, Creators, UnbornUnknown, CopiesCurrent, NoLostJoin,
         [Next]_vars
  PROVE  CopiesCurrent'
<1> SUFFICES ASSUME NEW d \in Call, pc'[d] \in {"check", "write"}
             PROVE  /\ acked'[target'[d]] \cup {d} \subseteq Seated(copy'[d])
                    /\ pc'[d] = "check" => version'[target'[d]] < copy'[d].version
  BY DEF CopiesCurrent
<1> DEFINE l == target[d]
<1>1. TypeInv
  BY DEF RecordInv
<1>2. CASE pc[d] = "get" /\ pc'[d] = "check" /\ GetForAdd(d)
  <2>1. l \in Call /\ target'[d] = l
    BY <1>1, <1>2 DEF GetForAdd, TypeInv, Locals, HasTarget, InCS
  <2>2. /\ record[l] # NoLobby
        /\ CanAddPlayer(record[l])
        /\ copy'[d] = AddPlayer(record[l], d)
        /\ UNCHANGED <<version, acked>>
    BY <1>1, <1>2 DEF GetForAdd, TypeInv, TypeOK, redis, seen
  <2>3. /\ record[l] \in LobbyRecord
        /\ WellFormed(record[l], l)
        /\ version[l] = record[l].version
        /\ acked[l] \subseteq Seated(record[l])
    BY <1>1, <2>1, <2>2
       DEF RecordInv, RecordsWellFormed, WellFormed, TypeInv, TypeOK, NoLostJoin
  <2>4. version[l] \in Int
    BY <1>1, <2>1, Int16Range DEF TypeInv, TypeOK
  <2>5. /\ copy'[d].version = record[l].version + 1
        /\ Seated(copy'[d]) = Seated(record[l]) \cup {d}
    BY <2>1, <2>2, <2>3, AddPlayerWF
  <2> QED
    BY <2>1, <2>2, <2>3, <2>4, <2>5
<1>3. CASE /\ pc[d] \in {"check", "write"}
           /\ (pc'[d] = "check" => pc[d] = "check")
           /\ target'[d] = l /\ copy'[d] = copy[d] /\ ~Unlock(d)
  <2>1. InCS(d) /\ HasCopy(d) /\ l \in Call
    BY <1>1, <1>3 DEF InCS, HasCopy, TypeInv, Locals, HasTarget
  <2>2. copy[d] \in LobbyRecord /\ WellFormed(copy[d], l)
    BY <1>1, <2>1 DEF RecordInv, CopiesWellFormed, TypeInv, Locals
  <2>3. /\ acked[l] \cup {d} \subseteq Seated(copy[d])
        /\ pc[d] = "check" => version[l] < copy[d].version
    BY <1>3 DEF CopiesCurrent
  <2>4. acked'[l] \subseteq Seated(copy[d])
    BY <1>1, <1>3, <2>1, <2>2, <2>3, AckedUnderLock, CreatorSeated
  <2>5. pc[d] = "check" => version'[l] < copy[d].version
    <3>1. 0 < copy[d].version
      BY <2>2 DEF WellFormed, LobbyRecord
    <3> QED
      BY <1>1, <2>1, <2>3, <3>1, RecordUnderLock DEF RecordKept, RecordGone
  <2> QED
    BY <1>3, <2>3, <2>4, <2>5
<1> QED
  BY <1>1, <1>2, <1>3, JoinerSources

\* Done writing, as far as the call can tell, and told of no error.
Wrote(d) ==
  /\ InCS(d) /\ ~failed[d]
  /\ pc[d] = "unlock" \/ (pc[d] = "write" /\ "data" \notin slots[d])

LEMMA WroteSources ==
  ASSUME TypeInv, CopiesCurrent, [Next]_vars, NEW d \in Call, Wrote(d)'
  PROVE  \/ pc[d] = "write" /\ WriteData(d) /\ ~failed'[d] /\ target'[d] = target[d]
         \/ Wrote(d) /\ target'[d] = target[d]
<1>1. CASE Same(d)
  BY <1>1 DEF Same, Wrote, InCS
<1>2. CASE Crash(d)
  BY <1>2 DEF Crash, TypeInv, TypeOK, Wrote, InCS
<1>3. CASE CallStep(d)
  <2> USE DEF TypeInv, TypeOK, Wrote, InCS, redis, clocks, reading, writing, removal, seen
  <2>1. CASE ReadIndex(d) \/ ListFails(d) \/ CleanMissing(d) \/ GetForAdd(d)
    BY <2>1 DEF ReadIndex, ListFails, CleanMissing, GetForAdd
  <2>2. ASSUME NEW k \in Call, LoadLobby(d, k) \/ Lock(d, k) \/ LockFails(d, k)
        PROVE  FALSE
    BY <2>2 DEF LoadLobby, Lock, LockFails
  <2>3. CASE CheckVersion(d)
    <3>1. target[d] \in Call /\ copy[d].version \in Int /\ version[target[d]] \in Int
      BY <2>3, Int16Range DEF CheckVersion, Locals, HasTarget, HasCopy, LobbyRecord
    <3>2. version[target[d]] < copy[d].version
      BY <2>3 DEF CheckVersion, CopiesCurrent
    <3>3. ~(version[target[d]] >= copy[d].version)
      BY <3>1, <3>2
    <3> QED
      BY <2>3, <3>3 DEF CheckVersion, SkipUpdate, Slots
  <2>4. CASE WriteData(d)
    <3>1. PICK err \in BOOLEAN : FinishSlot(d, "data", err)
      BY <2>4 DEF WriteData
    <3>2. pc[d] \in {"write", "create"}
      BY <2>4 DEF WriteData
    <3> QED
      BY <2>4, <3>1, <3>2 DEF FinishSlot
  <2>5. CASE WriteIndex(d)
    <3>1. PICK err \in BOOLEAN : FinishSlot(d, "index", err)
      BY <2>5 DEF WriteIndex
    <3>2. pc[d] \in {"write", "create"} /\ slots[d] \subseteq Slots /\ "index" \in slots[d]
      BY <2>5 DEF WriteIndex
    <3> QED
      BY <3>1, <3>2 DEF FinishSlot, Slots
  <2>6. CASE Unlock(d) \/ NewLobbyBegins(d) \/ CheckNew(d) \/ GiveUp(d)
    BY <2>6 DEF Unlock, NewLobbyBegins, CheckNew, GiveUp
  <2> QED
    BY <1>3, <2>1, <2>2, <2>3, <2>4, <2>5, <2>6 DEF CallStep
<1> QED
  BY <1>1, <1>2, <1>3, OthersKeepLocals

LEMMA WritersSeatedNext ==
  ASSUME TypeInv, LockHeld, OwnLobby, Creators, UnbornUnknown, CopiesCurrent, WritersSeated,
         [Next]_vars
  PROVE  WritersSeated'
<1> SUFFICES ASSUME NEW d \in Call, Wrote(d)', record'[target'[d]] # NoLobby
             PROVE  d \in Seated(record'[target'[d]])
  BY DEF WritersSeated, Wrote
<1> DEFINE l == target[d]
<1>1. CASE pc[d] = "write" /\ WriteData(d) /\ ~failed'[d] /\ target'[d] = l
  <2>1. l \in Call /\ d \in Seated(copy[d])
    BY <1>1 DEF TypeInv, Locals, HasTarget, HasCopy, CopiesCurrent
  <2>2. PICK o \in Outcomes(cancelled[d]) :
          /\ IF o = "unsent" THEN UNCHANGED <<record, version, pinned, index, indexTTL>>
                             ELSE PutData(l, copy[d], late[d])
          /\ FinishSlot(d, "data", o # "answered")
    BY <1>1 DEF WriteData
  <2>3. o = "answered"
    BY <1>1, <2>2 DEF FinishSlot, TypeInv, TypeOK
  <2>4. record'[l] = copy[d]
    BY <2>1, <2>2, <2>3 DEF PutData, TypeInv, TypeOK
  <2> QED
    BY <1>1, <2>1, <2>4
<1>2. CASE Wrote(d) /\ target'[d] = l
  <2>1. InCS(d) /\ ~(RecordPut(d, l) /\ pc[d] = "write")
    BY <1>2 DEF Wrote, RecordPut, WriteData
  <2>2. record'[l] = record[l]
    BY <1>2, <2>1, RecordUnderLock DEF RecordKept, RecordGone
  <2> QED
    BY <1>2, <2>2 DEF WritersSeated, Wrote
<1> QED
  BY <1>1, <1>2, WroteSources

LEMMA NoLostJoinNext ==
  ASSUME RecordInv, LockHeld, OwnLobby, Creators, UnbornUnknown, CopiesCurrent, WritersSeated,
         NoLostJoin, [Next]_vars
  PROVE  NoLostJoin'
<1> SUFFICES ASSUME NEW l \in Call, record'[l] # NoLobby
             PROVE  acked'[l] \subseteq Seated(record'[l])
  BY DEF NoLostJoin
<1>1. TypeInv
  BY DEF RecordInv
<1>2. CASE RecordKept(l)
  <2>1. /\ record[l] \in LobbyRecord
        /\ WellFormed(record[l], l)
        /\ acked[l] \subseteq Seated(record[l])
    BY <1>1, <1>2
       DEF RecordKept, RecordInv, RecordsWellFormed, WellFormed, TypeInv, TypeOK, NoLostJoin
  <2>2. ASSUME NEW c \in Call, AckSeat(c, l)
        PROVE  c \in Seated(record[l])
    BY <1>2, <2>2 DEF AckSeat, Unlock, InCS, WritersSeated, RecordKept
  <2>3. l \in Seated(record[l])
    BY <2>1, CreatorSeated
  <2> QED
    BY <1>1, <1>2, <2>1, <2>2, <2>3, AckSources DEF RecordKept, AckSeat, AckMade
<1>3. CASE RecordGone(l)
  BY <1>3 DEF RecordGone
<1>4. ASSUME NEW c \in Call, RecordPut(c, l)
      PROVE  acked'[l] \subseteq Seated(record'[l])
  <2>1. /\ record'[l] = copy[c] /\ target[c] = l
        /\ pc[c] \in {"write", "create"} /\ WriteData(c)
    BY <1>4 DEF RecordPut, WriteData
  <2>2. copy[c] \in LobbyRecord /\ WellFormed(copy[c], l)
    BY <1>1, <2>1 DEF HasCopy, TypeInv, Locals, RecordInv, CopiesWellFormed
  <2>3. l \in Seated(copy[c])
    BY <2>2, CreatorSeated
  <2>4. CASE pc[c] = "write"
    <3>1. InCS(c) /\ ~Unlock(c)
      BY <2>4 DEF InCS, Unlock
    <3>2. acked[l] \subseteq Seated(copy[c])
      BY <2>1, <2>4 DEF CopiesCurrent
    <3> QED
      BY <1>1, <2>1, <2>3, <3>1, <3>2, AckedUnderLock
  <2>5. CASE pc[c] = "create"
    <3>1. Unborn(l)
      BY <1>1, <1>4, <2>5, WriterOfUnborn
    <3>2. acked[l] = {} /\ \A k \in Call : target[k] = l => pc[k] # "unlock"
      BY <3>1 DEF UnbornUnknown
    <3>3. ASSUME NEW k \in Call, AckSeat(k, l)
          PROVE  FALSE
      BY <3>2, <3>3 DEF AckSeat, Unlock
    <3> QED
      BY <1>1, <2>1, <2>3, <3>2, <3>3, AckSources DEF AckMade
  <2> QED
    BY <2>1, <2>4, <2>5
<1> QED
  BY <1>1, <1>2, <1>3, <1>4, RecordSources

LEMMA SeatInvInit == Init => SeatInv
<1> SUFFICES ASSUME Init
             PROVE  SeatInv
  OBVIOUS
<1>1. RecordInv
  BY RecordInvInit
<1>2. /\ LockHeld /\ OwnLobby /\ Creators /\ CopiesCurrent
      /\ WritersSeated /\ NoLostJoin
  BY DEF Init, InCS, LockHeld, OwnLobby, Creators, CopiesCurrent, WritersSeated, NoLostJoin
<1>3. UnbornUnknown
  BY NoCallAssumption DEF Init, UnbornUnknown
<1> QED
  BY <1>1, <1>2, <1>3 DEF SeatInv

LEMMA SeatInvNext ==
  ASSUME Faults \cap {"exec", "slow"} = {}
  PROVE  SeatInv /\ [Next]_vars => SeatInv'
  BY RecordInvNext, LockHeldNext, UnbornUnknownNext, OwnLobbyNext, CreatorsNext,
     CopiesCurrentNext, WritersSeatedNext, NoLostJoinNext DEF SeatInv, RecordInv

\* A call that AddLobby or AddPlayer reported as seated is never dropped by a
\* later write, for any number of calls, as long as no transaction is refused
\* or loses its reply and no call outlives its lock: the copy that is written was read under the lock,
\* seats everyone acknowledged before, and is newer than the stored version,
\* so that the version check cannot skip it (store.go:143-176, 191).
THEOREM NoJoinIsLost ==
  ASSUME Faults \cap {"exec", "slow"} = {}
  PROVE  Spec => []NoLostJoin
<1>1. SeatInv /\ [Next]_vars => SeatInv'
  BY SeatInvNext
<1>2. SeatInv => NoLostJoin
  BY DEF SeatInv
<1> QED
  BY SeatInvInit, <1>1, <1>2, PTL DEF Spec
=============================================================================
