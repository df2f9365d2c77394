----------------------------- MODULE RosterProofs -----------------------------
(***************************************************************************)
(* No call sits twice on a roster, whatever fails; and the store           *)
(* implements Roster while no transaction is refused or loses its reply    *)
(* and no lock outlives its lease.                                         *)
(***************************************************************************)
EXTENDS LobbySeatProofs

-----------------------------------------------------------------------------
(* A roster with one more at its end *)

LEMMA OneMore ==
  ASSUME NEW c \in Call, NEW r \in LobbyRecord
  PROVE  /\ AddPlayer(r, c).players = Append(r.players, c)
         /\ Seated(AddPlayer(r, c)) = Seated(r) \cup {c}
         /\ c \notin Seated(r) /\ OneSeatEach(r) => OneSeatEach(AddPlayer(r, c))
<1> DEFINE n == Len(r.players)
           s == Append(r.players, c)
<1>1. r.players \in Seq(Call) /\ n \in Nat /\ DOMAIN r.players = 1 .. n
  BY DEF LobbyRecord
<1>2. AddPlayer(r, c).players = s
  BY DEF AddPlayer, LobbyRecord
<1>3. /\ DOMAIN s = 1 .. (n + 1)
      /\ s[n + 1] = c
      /\ \A i \in 1 .. n : s[i] = r.players[i]
      /\ \A i : i \in 1 .. (n + 1) <=> i \in 1 .. n \/ i = n + 1
  BY <1>1
<1> HIDE DEF s, n
<1>4. \A x : x \in Seated(AddPlayer(r, c)) <=> x \in Seated(r) \/ x = c
  BY <1>1, <1>2, <1>3 DEF Seated
<1>5. c \notin Seated(r) /\ OneSeatEach(r) => OneSeatEach(AddPlayer(r, c))
  BY <1>1, <1>2, <1>3 DEF Seated, OneSeatEach
<1> QED
  BY <1>2, <1>4, <1>5 DEF s

-----------------------------------------------------------------------------
(* Nobody sits twice *)

LEMMA UntriedBefore ==
  ASSUME TypeInv, [Next]_vars, NEW c \in Call, NEW l \in Call, Untried(c, l)'
  PROVE  Untried(c, l)
<1>1. CASE Same(c)
  BY <1>1 DEF Same, Untried
<1>2. CASE Crash(c)
  BY <1>2 DEF Crash, Untried, TypeInv, TypeOK
<1>3. CASE CallStep(c)
  <2> USE DEF TypeInv, TypeOK, Untried, redis, clocks, reading, writing, removal, seen
  <2>1. CASE ReadIndex(c) \/ ListFails(c) \/ CleanMissing(c) \/ GetForAdd(c)
    BY <2>1 DEF ReadIndex, ListFails, CleanMissing, GetForAdd
  <2>2. ASSUME NEW k \in Call, LoadLobby(c, k) \/ Lock(c, k) \/ LockFails(c, k)
        PROVE  Untried(c, l)
    BY <2>2 DEF LoadLobby, Lock, LockFails
  <2>3. CASE CheckVersion(c)
    BY <2>3 DEF CheckVersion, SkipUpdate
  <2>4. CASE WriteData(c) \/ WriteIndex(c)
    <3>1. PICK s \in Slots, err \in BOOLEAN : FinishSlot(c, s, err)
      BY <2>4 DEF WriteData, WriteIndex, Slots
    <3>2. pc[c] \in {"write", "create"} /\ found' = found
      BY <2>4 DEF WriteData, WriteIndex
    <3> QED
      BY <3>1, <3>2 DEF FinishSlot
  <2>5. CASE Unlock(c) \/ NewLobbyBegins(c) \/ CheckNew(c) \/ GiveUp(c)
    BY <2>5 DEF Unlock, NewLobbyBegins, CheckNew, GiveUp
  <2> QED
    BY <1>3, <2>1, <2>2, <2>3, <2>4, <2>5 DEF CallStep
<1> QED
  BY <1>1, <1>2, <1>3, OthersKeepLocals

LEMMA TriedOnceNext ==
  ASSUME TypeInv, TriedOnce, [Next]_vars
  PROVE  TriedOnce'
<1> SUFFICES ASSUME NEW c \in Call, HasTarget(c)'
             PROVE  target'[c] \notin found'[c]
  BY DEF TriedOnce
<1>1. CASE Same(c)
  BY <1>1 DEF Same, TriedOnce, HasTarget, InCS, HasCopy
<1>2. CASE Crash(c)
  BY <1>2 DEF Crash, HasTarget, InCS, HasCopy, TypeInv, TypeOK
<1>3. CASE CallStep(c)
  <2> USE DEF TypeInv, TypeOK, TriedOnce, HasTarget, InCS, HasCopy,
              redis, clocks, reading, writing, removal, seen
  <2>1. CASE ReadIndex(c) \/ ListFails(c) \/ CleanMissing(c) \/ GetForAdd(c)
    BY <2>1 DEF ReadIndex, ListFails, CleanMissing, GetForAdd
  <2>2. ASSUME NEW k \in Call, LoadLobby(c, k) \/ Lock(c, k) \/ LockFails(c, k)
        PROVE  target'[c] \notin found'[c]
    BY <2>2 DEF LoadLobby, Lock, LockFails
  <2>3. CASE CheckVersion(c)
    BY <2>3 DEF CheckVersion, SkipUpdate
  <2>4. CASE WriteData(c) \/ WriteIndex(c)
    <3>1. PICK s \in Slots, err \in BOOLEAN : FinishSlot(c, s, err)
      BY <2>4 DEF WriteData, WriteIndex, Slots
    <3>2. pc[c] \in {"write", "create"} /\ found' = found
      BY <2>4 DEF WriteData, WriteIndex
    <3> QED
      BY <3>1, <3>2 DEF FinishSlot
  <2>5. CASE Unlock(c) \/ NewLobbyBegins(c) \/ CheckNew(c) \/ GiveUp(c)
    BY <2>5 DEF Unlock, NewLobbyBegins, CheckNew, GiveUp
  <2> QED
    BY <1>3, <2>1, <2>2, <2>3, <2>4, <2>5 DEF CallStep
<1> QED
  BY <1>1, <1>2, <1>3, OthersKeepLocals

\* A call with a copy has tried that lobby.
LEMMA CopyIsTried ==
  ASSUME TriedOnce, NEW d \in Call, NEW l \in Call, HasCopy(d), target[d] = l
  PROVE  ~Untried(d, l)
  BY DEF TriedOnce, HasTarget, HasCopy, Untried

LEMMA NewcomersOutNext ==
  ASSUME TypeInv, TriedOnce, NewcomersOut, [Next]_vars
  PROVE  NewcomersOut'
<1> SUFFICES ASSUME NEW c \in Call, NEW l \in Call, Untried(c, l)'
             PROVE  /\ record'[l] # NoLobby => c \notin Seated(record'[l])
                    /\ \A d \in Call : (HasCopy(d)' /\ target'[d] = l)
                                          => c \notin Seated(copy'[d])
  BY DEF NewcomersOut
<1>1. /\ record[l] # NoLobby => c \notin Seated(record[l])
      /\ \A d \in Call : (HasCopy(d) /\ target[d] = l) => c \notin Seated(copy[d])
  BY UntriedBefore DEF NewcomersOut
<1>2. record'[l] # NoLobby => c \notin Seated(record'[l])
  <2>1. ASSUME NEW d \in Call, RecordPut(d, l)
        PROVE  c \notin Seated(record'[l])
    BY <1>1, <2>1 DEF RecordPut, WriteData, HasCopy
  <2> QED
    BY <1>1, <2>1, RecordSources DEF RecordKept, RecordGone
<1>3. ASSUME NEW d \in Call, HasCopy(d)', target'[d] = l
      PROVE  c \notin Seated(copy'[d])
  <2>1. c # d
    <3>1. TriedOnce'
      BY TriedOnceNext
    <3> QED
      BY <1>3, <3>1 DEF TriedOnce, HasTarget, HasCopy, Untried
  <2>2. CASE CopyKept(d)
    BY <1>1, <1>3, <2>2 DEF CopyKept
  <2>3. CASE CopyMade(d)
    BY <2>1, <2>3 DEF CopyMade, NewLobby, Seated
  <2>4. CASE CopyRead(d)
    <3>1. record[l] \in LobbyRecord
      BY <1>3, <2>4 DEF CopyRead, TypeInv, TypeOK
    <3> QED
      BY <1>1, <1>3, <2>1, <2>4, <3>1, OneMore DEF CopyRead
  <2> QED
    BY <1>3, <2>2, <2>3, <2>4, CopySources
<1> QED
  BY <1>2, <1>3

LEMMA SeatOnceNext ==
  ASSUME OnceInv, [Next]_vars
  PROVE  CopiesSeatOnce' /\ NoDoubleSeat'
<1> USE DEF OnceInv
<1>1. ASSUME NEW l \in Call, record'[l] # NoLobby
      PROVE  OneSeatEach(record'[l])
  <2>1. ASSUME NEW d \in Call, RecordPut(d, l)
        PROVE  OneSeatEach(record'[l])
    BY <2>1 DEF RecordPut, WriteData, HasCopy, CopiesSeatOnce
  <2> QED
    BY <1>1, <2>1, RecordSources DEF RecordKept, RecordGone, NoDoubleSeat, OneSeatEach
<1>2. ASSUME NEW d \in Call, HasCopy(d)'
      PROVE  OneSeatEach(copy'[d])
  <2>1. CASE CopyKept(d)
    BY <2>1 DEF CopyKept, CopiesSeatOnce
  <2>2. CASE CopyMade(d)
    BY <2>2 DEF CopyMade, NewLobby, OneSeatEach
  <2>3. CASE CopyRead(d)
    <3>1. target[d] \in Call /\ Untried(d, target[d])
      BY <2>3 DEF CopyRead, TypeInv, Locals, HasTarget, InCS, Untried
    <3>2. /\ record[target[d]] \in LobbyRecord
          /\ d \notin Seated(record[target[d]])
          /\ OneSeatEach(record[target[d]])
      BY <2>3, <3>1 DEF CopyRead, TypeInv, TypeOK, NewcomersOut, NoDoubleSeat, OneSeatEach
    <3> QED
      BY <2>3, <3>2, OneMore DEF CopyRead
  <2> QED
    BY <1>2, <2>1, <2>2, <2>3, CopySources
<1> QED
  BY <1>1, <1>2 DEF CopiesSeatOnce, NoDoubleSeat, OneSeatEach

LEMMA OnceInvInit == Init => OnceInv
<1> SUFFICES ASSUME Init
             PROVE  OnceInv
  OBVIOUS
<1>1. \A c \in Call : ~HasTarget(c) /\ ~HasCopy(c)
  BY DEF Init, HasTarget, HasCopy, InCS
<1>2. \A l \in Call : record[l] = NoLobby
  BY DEF Init
<1> QED
  BY <1>1, <1>2, TypeInvInit
     DEF OnceInv, TriedOnce, NewcomersOut, CopiesSeatOnce, NoDoubleSeat

LEMMA OnceInvNext == OnceInv /\ [Next]_vars => OnceInv'
  BY TypeInvNext, TriedOnceNext, NewcomersOutNext, SeatOnceNext DEF OnceInv

\* Whatever is refused, lost, retried, outlived or killed, no call has two
\* seats on one roster, although AddPlayer appends without looking: the
\* handler makes one copy of a lobby and never a second (store.go:162,
\* handler.go:119).  A player that calls again does so with another call and
\* is appended again (models.go:31).
THEOREM NoCallSitsTwice == Spec => []NoDoubleSeat
<1>1. OnceInv => NoDoubleSeat
  BY DEF OnceInv
<1> QED
  BY OnceInvInit, OnceInvNext, <1>1, PTL DEF Spec

-----------------------------------------------------------------------------
(* A copy that is still to be written extends the record *)

LEMMA PendingSources ==
  ASSUME TypeInv, [Next]_vars, NEW d \in Call, Pending(d)'
  PROVE  \/ pc[d] = "get" /\ GetForAdd(d) /\ pc'[d] = "check"
         \/ /\ Pending(d) /\ ~WriteData(d)
            /\ target'[d] = target[d] /\ copy'[d] = copy[d]
<1>1. CASE Same(d)
  BY <1>1 DEF Same, Pending, WriteData, FinishSlot, TypeInv, TypeOK
<1>2. CASE Crash(d)
  BY <1>2 DEF Crash, Pending, TypeInv, TypeOK
<1>3. CASE CallStep(d)
  <2> USE DEF TypeInv, TypeOK, Pending, redis, clocks, reading, writing, removal, seen
  <2>1. CASE ReadIndex(d) \/ ListFails(d) \/ CleanMissing(d) \/ GetForAdd(d)
    BY <2>1 DEF ReadIndex, ListFails, CleanMissing, GetForAdd
  <2>2. ASSUME NEW k \in Call, LoadLobby(d, k) \/ Lock(d, k) \/ LockFails(d, k)
        PROVE  FALSE
    BY <2>2 DEF LoadLobby, Lock, LockFails
  <2>3. CASE CheckVersion(d)
    BY <2>3 DEF CheckVersion, SkipUpdate, WriteData
  <2>4. CASE WriteData(d)
    <3>1. PICK err \in BOOLEAN : FinishSlot(d, "data", err)
      BY <2>4 DEF WriteData
    <3>2. pc[d] \in {"write", "create"}
      BY <2>4 DEF WriteData
    <3> QED
      BY <3>1, <3>2 DEF FinishSlot
  <2>5. CASE WriteIndex(d) /\ ~WriteData(d)
    <3>1. PICK err \in BOOLEAN : FinishSlot(d, "index", err)
      BY <2>5 DEF WriteIndex
    <3>2. pc[d] \in {"write", "create"}
      BY <2>5 DEF WriteIndex
    <3> QED
      BY <2>5, <3>1, <3>2 DEF FinishSlot
  <2>6. CASE Unlock(d) \/ NewLobbyBegins(d) \/ CheckNew(d) \/ GiveUp(d)
    BY <2>6 DEF Unlock, NewLobbyBegins, CheckNew, GiveUp
  <2> QED
    BY <1>3, <2>1, <2>2, <2>3, <2>4, <2>5, <2>6 DEF CallStep
<1> QED
  BY <1>1, <1>2, <1>3, OthersKeepLocals

LEMMA CopiesExtendNext ==
  ASSUME TypeInv, LockHeld, OwnLobby, Creators, UnbornUnknown, CopiesExtend, [Next]_vars
  PROVE  CopiesExtend'
<1> SUFFICES ASSUME NEW d \in Call, Pending(d)'
             PROVE  \/ record'[target'[d]] = NoLobby
                    \/ copy'[d].players = Append(record'[target'[d]].players, d)
  BY DEF CopiesExtend
<1> DEFINE l == target[d]
<1>1. CASE pc[d] = "get" /\ GetForAdd(d) /\ pc'[d] = "check"
  <2>1. l \in Call /\ target'[d] = l
    BY <1>1 DEF GetForAdd, TypeInv, Locals, HasTarget, InCS
  <2>2. record' = record /\ record[l] # NoLobby /\ copy'[d] = AddPlayer(record[l], d)
    BY <1>1 DEF GetForAdd, TypeInv, TypeOK, redis
  <2>3. record[l] \in LobbyRecord
    BY <2>1, <2>2 DEF TypeInv, TypeOK
  <2> QED
    BY <2>1, <2>2, <2>3, OneMore
<1>2. CASE Pending(d) /\ ~WriteData(d) /\ target'[d] = l /\ copy'[d] = copy[d]
  <2>1. InCS(d)
    BY <1>2 DEF Pending, InCS
  <2>2. RecordKept(l) \/ RecordGone(l)
    BY <1>2, <2>1, RecordUnderLock DEF RecordPut
  <2> QED
    BY <1>2, <2>2 DEF RecordKept, RecordGone, CopiesExtend
<1> QED
  BY <1>1, <1>2, PendingSources

-----------------------------------------------------------------------------
(* Every step of the store is a step of the roster, or none *)

RosterInv == SeatInv /\ OnceInv /\ CopiesExtend

\* What a step can do to the records and to what the callers were told.
Stored(c) ==
  /\ RecordPut(c, target[c])
  /\ record' = [record EXCEPT ![target[c]] = copy[c]]
  /\ \/ acked' = acked
     \/ pc[c] = "create" /\ acked' = [acked EXCEPT ![c] = @ \cup {c}]
Dropped(l) == record' = [record EXCEPT ![l] = NoLobby] /\ acked' = acked
ToldSeat(c) ==
  /\ Unlock(c) /\ ~failed[c] /\ record' = record
  /\ acked' = [acked EXCEPT ![target[c]] = @ \cup {c}]
ToldMade(c) == record' = record /\ acked' = [acked EXCEPT ![c] = @ \cup {c}]

LEMMA StepKinds ==
  ASSUME TypeInv, [Next]_vars
  PROVE  \/ UNCHANGED <<record, acked>>
         \/ \E c \in Call : Stored(c) \/ Dropped(c) \/ ToldSeat(c) \/ ToldMade(c)
<1> USE DEF TypeInv, TypeOK, redis, clocks, reading, writing, removal, seen
<1>1. ASSUME NEW c \in Call, CallStep(c)
      PROVE  UNCHANGED <<record, acked>> \/ Stored(c) \/ ToldSeat(c) \/ ToldMade(c)
  <2>1. CASE ReadIndex(c) \/ ListFails(c) \/ CleanMissing(c) \/ GetForAdd(c)
    BY <2>1 DEF ReadIndex, ListFails, CleanMissing, GetForAdd, DelIndex
  <2>2. ASSUME NEW k \in Call, LoadLobby(c, k) \/ Lock(c, k) \/ LockFails(c, k)
        PROVE  UNCHANGED <<record, acked>>
    BY <2>2 DEF LoadLobby, Lock, LockFails
  <2>3. CASE CheckVersion(c) \/ NewLobbyBegins(c) \/ GiveUp(c)
    BY <2>3 DEF CheckVersion, NewLobbyBegins, GiveUp
  <2>4. ASSUME NEW s \in Slots, NEW err \in BOOLEAN, FinishSlot(c, s, err),
               pc[c] \in {"write", "create"}
        PROVE  \/ acked' = acked
               \/ pc[c] = "create" /\ acked' = [acked EXCEPT ![c] = @ \cup {c}]
    BY <2>4 DEF FinishSlot
  <2>5. CASE WriteData(c)
    <3>1. PICK o \in Outcomes(cancelled[c]) :
            /\ IF o = "unsent" THEN UNCHANGED <<record, version, pinned, index, indexTTL>>
                               ELSE PutData(target[c], copy[c], late[c])
            /\ FinishSlot(c, "data", o # "answered")
            /\ Misleads(c, o # "unsent" /\ (o # "answered" \/ failed[c]))
      BY <2>5 DEF WriteData
    <3>2. \/ acked' = acked
          \/ pc[c] = "create" /\ acked' = [acked EXCEPT ![c] = @ \cup {c}]
      BY <2>4, <2>5, <3>1 DEF Slots, WriteData
    <3>3. CASE o = "unsent"
      BY <3>1, <3>2, <3>3 DEF ToldMade
    <3>4. CASE o # "unsent"
      <4>1. ~cancelled[c]
        BY <3>4 DEF Outcomes
      <4>2. /\ record' = [record EXCEPT ![target[c]] = copy[c]]
            /\ version' = [version EXCEPT ![target[c]] = copy[c].version]
        BY <3>1, <3>4 DEF PutData
      <4>3. target[c] \in Call
        BY <2>5 DEF WriteData, Locals, HasTarget, HasCopy
      <4>4. \E err \in BOOLEAN :
              FinishSlot(c, "data", err) /\ Misleads(c, err \/ failed[c])
        BY <3>1, <3>4
      <4> QED
        BY <2>5, <3>2, <4>1, <4>2, <4>3, <4>4 DEF Stored, RecordPut
    <3> QED
      BY <3>3, <3>4
  <2>6. CASE WriteIndex(c)
    <3>1. PICK err \in BOOLEAN : FinishSlot(c, "index", err)
      BY <2>6 DEF WriteIndex
    <3>2. record' = record
      BY <2>6 DEF WriteIndex, PutIndex
    <3>3. pc[c] \in {"write", "create"}
      BY <2>6 DEF WriteIndex
    <3> QED
      BY <2>4, <3>1, <3>2, <3>3 DEF Slots, ToldMade
  <2>7. CASE Unlock(c)
    BY <2>7 DEF Unlock, ToldSeat
  <2>8. CASE CheckNew(c)
    BY <2>8 DEF CheckNew, ToldMade
  <2> QED
    BY <1>1, <2>1, <2>2, <2>3, <2>5, <2>6, <2>7, <2>8 DEF CallStep
<1>2. ASSUME NEW k \in Call, RemovalStep(k)
      PROVE  UNCHANGED <<record, acked>> \/ Dropped(k)
  BY <1>2 DEF RemovalStep, RemoveBegins, RemoveData, RemoveIndex, DelData, DelIndex,
              Dropped
<1>3. CASE Environment
  BY <1>3 DEF Environment, DeadlinePasses, RecordExpires, IndexExpires, MutexExpires,
              Cancel, Crash, DelData, DelIndex, Dropped
<1>4. CASE UNCHANGED vars
  BY <1>4 DEF vars
<1> QED
  BY <1>1, <1>2, <1>3, <1>4 DEF Next

Rosters == [l \in Call |-> Players(l)]

LEMMA RosterOfRecord ==
  ASSUME TypeInv, NEW l \in Call
  PROVE  /\ Rosters[l] = Players(l)
         /\ record[l] = NoLobby => Players(l) = <<>>
         /\ record[l] # NoLobby =>
              /\ record[l] \in LobbyRecord
              /\ Players(l) = record[l].players
              /\ R!On(Players(l)) = Seated(record[l])
  BY DEF Rosters, Players, TypeInv, TypeOK, R!On, Seated

LEMMA StoredSteps ==
  ASSUME RosterInv, RosterInv', NEW c \in Call, Stored(c), [Next]_vars
  PROVE  \E l \in Call : R!Appear(l) \/ R!Seat(l)
<1> DEFINE l == target[c]
<1>1. /\ TypeInv /\ TypeInv'
      /\ pc[c] \in {"write", "create"} /\ "data" \in slots[c] /\ HasCopy(c)
  BY DEF RosterInv, OnceInv, Stored, RecordPut, WriteData, HasCopy
<1>2. /\ l \in Call /\ copy[c] \in LobbyRecord
      /\ WellFormed(copy[c], l) /\ OneSeatEach(copy[c])
  BY <1>1 DEF TypeInv, Locals, HasTarget, RosterInv, OnceInv, SeatInv, RecordInv,
              CopiesWellFormed, CopiesSeatOnce
<1>3. record'[l] = copy[c] /\ copy[c] # NoLobby
  BY <1>1, <1>2, NoLobbyAssumption DEF Stored, TypeInv, TypeOK
<1>4. Rosters' = [Rosters EXCEPT ![l] = copy[c].players]
  BY <1>1, <1>2, <1>3 DEF Rosters, Players, Stored, TypeInv, TypeOK
<1>5. CASE record[l] = NoLobby
  <2>1. Rosters[l] = <<>> /\ Rosters'[l] = copy[c].players
    BY <1>2, <1>4, <1>5 DEF Rosters, Players
  <2>2. /\ copy[c].players # <<>> /\ copy[c].players[1] = l
        /\ R!Distinct(copy[c].players)
    BY <1>2 DEF WellFormed, LobbyRecord, OneSeatEach, R!Distinct
  <2>3. acked'[l] \subseteq R!On(copy[c].players)
    BY <1>2, <1>3 DEF RosterInv, SeatInv, NoLostJoin, Seated, R!On
  <2>4. acked' \in {acked, [acked EXCEPT ![l] = @ \cup {l}]}
    BY <1>2 DEF Stored, RosterInv, SeatInv, OwnLobby
  <2>5. R!Appear(l)
    BY <1>4, <2>1, <2>2, <2>3, <2>4 DEF R!Appear, Rosters
  <2> QED
    BY <1>2, <2>5
<1>6. CASE record[l] # NoLobby
  <2>1. pc[c] = "write"
    <3>1. SUFFICES ASSUME pc[c] = "create" PROVE FALSE
      BY <1>1
    <3>2. Unborn(l)
      BY <1>1, <1>2, <3>1, WriterOfUnborn DEF Stored, RosterInv, SeatInv
    <3> QED
      BY <1>2, <1>6, <3>2 DEF RosterInv, SeatInv, UnbornUnknown
  <2>2. copy[c].players = Append(record[l].players, c)
    BY <1>1, <1>6, <2>1 DEF RosterInv, CopiesExtend, Pending
  <2>3. record[l] \in LobbyRecord /\ record[l].players \in Seq(Call)
    BY <1>1, <1>2, <1>6 DEF TypeInv, TypeOK, LobbyRecord
  <2>4. c \notin R!On(record[l].players)
    <3> DEFINE s == record[l].players
               n == Len(s)
    <3>1. n \in Nat /\ DOMAIN s = 1 .. n
      BY <2>3
    <3>2. /\ DOMAIN copy[c].players = 1 .. (n + 1)
          /\ copy[c].players[n + 1] = c
          /\ \A i \in 1 .. n : copy[c].players[i] = s[i]
      BY <2>2, <2>3, <3>1
    <3> HIDE DEF s, n
    <3>3. \A i \in 1 .. n : s[i] # c
      BY <1>2, <3>1, <3>2 DEF OneSeatEach
    <3> QED
      BY <3>1, <3>3 DEF R!On, s
  <2>5. Rosters[l] = record[l].players /\ record[l].players # <<>>
    BY <1>1, <1>2, <1>6
       DEF Rosters, Players, RosterInv, SeatInv, RecordInv, RecordsWellFormed
  <2>6. acked' = acked
    BY <2>1 DEF Stored
  <2>7. R!Seat(l)
    BY <1>4, <2>2, <2>4, <2>5, <2>6 DEF R!Seat, Rosters
  <2> QED
    BY <1>2, <2>7
<1> QED
  BY <1>5, <1>6

LEMMA ToldSteps ==
  ASSUME RosterInv, NEW c \in Call, ToldSeat(c) \/ ToldMade(c)
  PROVE  \E l \in Call : R!Tell(l)
<1>1. TypeInv /\ Rosters' = Rosters
  BY DEF RosterInv, OnceInv, ToldSeat, ToldMade, Rosters, Players
<1>2. CASE ToldSeat(c)
  <2> DEFINE l == target[c]
  <2>1. InCS(c) /\ pc[c] = "unlock" /\ ~failed[c]
    BY <1>2 DEF ToldSeat, Unlock, InCS
  <2>2. l \in Call
    BY <1>1, <2>1 DEF TypeInv, Locals, HasTarget
  <2>3. record[l] # NoLobby => c \in Seated(record[l])
    BY <2>1 DEF RosterInv, SeatInv, WritersSeated
  <2>4. Rosters[l] # <<>> => c \in R!On(Rosters[l])
    BY <1>1, <2>2, <2>3, RosterOfRecord
  <2>5. R!Tell(l)
    BY <1>1, <1>2, <2>4 DEF R!Tell, ToldSeat, Rosters
  <2> QED
    BY <2>2, <2>5
<1>3. CASE ToldMade(c)
  <2>1. record[c] # NoLobby => c \in Seated(record[c])
    <3>1. record[c] # NoLobby => record[c] \in LobbyRecord /\ WellFormed(record[c], c)
      BY <1>1
         DEF TypeInv, TypeOK, RosterInv, SeatInv, RecordInv, RecordsWellFormed, WellFormed
    <3> QED
      BY <3>1, CreatorSeated
  <2>2. Rosters[c] # <<>> => c \in R!On(Rosters[c])
    BY <1>1, <2>1, RosterOfRecord
  <2>3. R!Tell(c)
    BY <1>1, <1>3, <2>2 DEF R!Tell, ToldMade, Rosters
  <2> QED
    BY <2>3
<1> QED
  BY <1>2, <1>3

LEMMA RosterStep ==
  ASSUME RosterInv, RosterInv', [Next]_vars
  PROVE  [R!RosterNext]_(R!rvars)
<1>1. TypeInv
  BY DEF RosterInv, OnceInv
<1>2. CASE UNCHANGED <<record, acked>>
  BY <1>2 DEF R!rvars, Players
<1>3. ASSUME NEW l \in Call, Dropped(l)
      PROVE  R!Vanish(l)
  <2>1. Rosters' = [Rosters EXCEPT ![l] = <<>>] /\ acked' = acked
    BY <1>1, <1>3 DEF Dropped, Rosters, Players, TypeInv, TypeOK
  <2> QED
    BY <2>1 DEF R!Vanish, Rosters
<1> QED
  BY <1>1, <1>2, <1>3, StepKinds, StoredSteps, ToldSteps DEF R!RosterNext

LEMMA RosterInvInit == Init => RosterInv /\ R!RosterInit
<1> SUFFICES ASSUME Init
             PROVE  RosterInv /\ R!RosterInit
  OBVIOUS
<1>1. CopiesExtend
  BY DEF Init, CopiesExtend, Pending
<1>2. R!RosterInit
  BY DEF Init, R!RosterInit, Players
<1> QED
  BY <1>1, <1>2, SeatInvInit, OnceInvInit DEF RosterInv

LEMMA RosterInvNext ==
  ASSUME Faults \cap {"exec", "slow"} = {}
  PROVE  RosterInv /\ [Next]_vars => RosterInv'
<1>1. SeatInv /\ [Next]_vars => SeatInv'
  BY SeatInvNext
<1>2. SeatInv /\ CopiesExtend /\ [Next]_vars => CopiesExtend'
  BY CopiesExtendNext DEF SeatInv, RecordInv
<1> QED
  BY <1>1, <1>2, OnceInvNext DEF RosterInv

\* As long as no transaction is refused or loses its reply and no call
\* outlives its lock, Redis, locks, version checks and the callers' copies
\* together are no more than a roster per lobby that grows by one newcomer at
\* a time and keeps whom it told of a seat (store.go:44-81, 143-221).
THEOREM StoreImplementsRoster ==
  ASSUME Faults \cap {"exec", "slow"} = {}
  PROVE  Spec => StoreKeepsRosters
<1>1. RosterInv /\ [Next]_vars => RosterInv'
  BY RosterInvNext
<1>2. RosterInv /\ RosterInv' /\ [Next]_vars => [R!RosterNext]_(R!rvars)
  BY RosterStep
<1> QED
  BY RosterInvInit, <1>1, <1>2, PTL DEF Spec, StoreKeepsRosters, R!RosterSpec
=============================================================================
