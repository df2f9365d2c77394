-------------------------- MODULE LobbyStoreProofs --------------------------
(***************************************************************************)
(* Proofs about LobbyStore, for every set of calls and every choice of     *)
(* borders, limit and, unless a theorem restricts them, faults.            *)
(***************************************************************************)
EXTENDS LobbyStoreInv, TLAPS

-----------------------------------------------------------------------------
(* The lobby record *)

LEMMA Bounds == MinInt16 \in Int /\ MaxInt16 \in Nat /\ MinInt16 < 0 /\ 1 < MaxInt16
  BY DEF MinInt16, MaxInt16

LEMMA Int16Range ==
  \A n : n \in Int16 <=> n \in Int /\ MinInt16 <= n /\ n <= MaxInt16
  BY Bounds DEF Int16

LEMMA Int16Small == 0 \in Int16 /\ 1 \in Int16
  BY Bounds, Int16Range

LEMMA ToInt16Type ==
  ASSUME NEW n \in Int
  PROVE  ToInt16(n) \in Int16
<1> DEFINE m == (n - MinInt16) % 65536
<1>1. m \in Int /\ 0 <= m /\ m < 65536
  BY Bounds
<1>2. m + MinInt16 \in Int /\ MinInt16 <= m + MinInt16 /\ m + MinInt16 <= MaxInt16
  <2> HIDE DEF m
  <2> QED
    BY <1>1 DEF MinInt16, MaxInt16
<1> QED
  BY <1>2, Int16Range DEF ToInt16

LEMMA ToInt16Identity ==
  ASSUME NEW n \in Int16
  PROVE  ToInt16(n) = n
<1> DEFINE m == n - MinInt16
<1>1. m \in Int /\ 0 <= m /\ m < 65536
  BY Int16Range DEF MinInt16, MaxInt16
<1>2. m % 65536 = m
  <2> HIDE DEF m
  <2> QED
    BY <1>1
<1>3. m + MinInt16 = n
  BY Int16Range, Bounds
<1> QED
  BY <1>2, <1>3 DEF ToInt16

LEMMA NewLobbyType ==
  ASSUME NEW c \in Call, NEW b \in Borders
  PROVE  NewLobby(c, b) \in LobbyRecord
<1>1. b.min \in Int16 /\ b.max \in Int16
  BY BordersAssumption
<1>2. <<c>> \in Seq(Call)
  OBVIOUS
<1> QED
  BY <1>1, <1>2, Int16Small DEF NewLobby, LobbyRecord

LEMMA AddPlayerType ==
  ASSUME NEW c \in Call, NEW r \in LobbyRecord
  PROVE  AddPlayer(r, c) \in LobbyRecord
<1>1. r.version + 1 \in Int
  BY Int16Range DEF LobbyRecord
<1>2. ToInt16(r.version + 1) \in Int16
  BY <1>1, ToInt16Type
<1>3. Append(r.players, c) \in Seq(Call)
  BY DEF LobbyRecord
<1> QED
  BY <1>2, <1>3 DEF AddPlayer, LobbyRecord

-----------------------------------------------------------------------------
(* Type correctness *)

LEMMA TypeInvInit == Init => TypeInv
  BY Int16Small DEF Init, TypeInv, TypeOK, Locals, HasTarget, HasCopy, InCS, PCs

LEMMA TypeInvNext == TypeInv /\ [Next]_vars => TypeInv'
<1> SUFFICES ASSUME TypeOK, Locals, [Next]_vars
             PROVE  TypeOK' /\ Locals'
  BY DEF TypeInv
<1> USE DEF TypeOK, Locals, HasTarget, HasCopy, InCS, PCs, redis, clocks,
            reading, writing, removal, seen
<1>1. ASSUME NEW c \in Call, ReadIndex(c)
      PROVE  TypeOK' /\ Locals'
  BY <1>1 DEF ReadIndex
<1>2. ASSUME NEW c \in Call, NEW l \in Call, LoadLobby(c, l)
      PROVE  TypeOK' /\ Locals'
  BY <1>2 DEF LoadLobby
<1>3. ASSUME NEW c \in Call, ListFails(c)
      PROVE  TypeOK' /\ Locals'
  BY <1>3 DEF ListFails
<1>4. ASSUME NEW c \in Call, CleanMissing(c)
      PROVE  TypeOK' /\ Locals'
  BY <1>4 DEF CleanMissing, DelIndex
<1>5. ASSUME NEW c \in Call, NEW l \in Call, Lock(c, l)
      PROVE  TypeOK' /\ Locals'
  BY <1>5 DEF Lock
<1>6. ASSUME NEW c \in Call, NEW l \in Call, LockFails(c, l)
      PROVE  TypeOK' /\ Locals'
  BY <1>6 DEF LockFails
<1>7. ASSUME NEW c \in Call, GetForAdd(c)
      PROVE  TypeOK' /\ Locals'
  <2>1. target[c] \in Call
    BY <1>7 DEF GetForAdd
  <2>2. record[target[c]] # NoLobby => AddPlayer(record[target[c]], c) \in LobbyRecord
    BY <2>1, AddPlayerType
  <2>3. CASE copy' = copy /\ pc' = [pc EXCEPT ![c] = "unlock"]
    BY <1>7, <2>1, <2>3 DEF GetForAdd
  <2>4. CASE /\ record[target[c]] # NoLobby
             /\ copy' = [copy EXCEPT ![c] = AddPlayer(record[target[c]], c)]
             /\ pc' = [pc EXCEPT ![c] = "check"]
             /\ failed' = failed
    BY <1>7, <2>1, <2>2, <2>4 DEF GetForAdd
  <2> QED
    BY <1>7, <2>3, <2>4 DEF GetForAdd
<1>8. ASSUME NEW c \in Call, CheckVersion(c)
      PROVE  TypeOK' /\ Locals'
  <2>1. CASE \E err \in BOOLEAN : SkipUpdate(c, err)
    BY <1>8, <2>1 DEF CheckVersion, SkipUpdate
  <2>2. CASE /\ late' = [late EXCEPT ![c] = lease[target[c]] = "over"]
             /\ slots' = [slots EXCEPT ![c] = Slots]
             /\ pc' = [pc EXCEPT ![c] = "write"]
             /\ UNCHANGED <<copy, failed>>
    BY <1>8, <2>2 DEF CheckVersion
  <2> QED
    BY <1>8, <2>1, <2>2 DEF CheckVersion
<1>9. ASSUME NEW c \in Call, WriteData(c)
      PROVE  TypeOK' /\ Locals'
  <2>1. target[c] \in Call /\ copy[c] \in LobbyRecord /\ copy[c].version \in Int16
    BY <1>9 DEF WriteData, LobbyRecord
  <2>2. /\ record' \in [Call -> LobbyRecord \cup {NoLobby}]
        /\ version' \in [Call -> Int16]
        /\ pinned' \in [Call -> BOOLEAN]
        /\ UNCHANGED <<index, indexTTL>>
    BY <1>9, <2>1 DEF WriteData, PutData
  <2>3. PICK err \in BOOLEAN : FinishSlot(c, "data", err)
    BY <1>9 DEF WriteData
  <2>4. /\ pc[c] \in {"write", "create"}
        /\ UNCHANGED <<mutex, clocks, reading, removal>>
    BY <1>9 DEF WriteData
  <2>5. misled' \in [Call -> BOOLEAN]
    BY <1>9 DEF WriteData, Misleads
  <2> QED
    BY <2>2, <2>3, <2>4, <2>5 DEF FinishSlot
<1>10. ASSUME NEW c \in Call, WriteIndex(c)
       PROVE  TypeOK' /\ Locals'
  BY <1>10 DEF WriteIndex, FinishSlot, PutIndex, Misleads
<1>11. ASSUME NEW c \in Call, Unlock(c)
       PROVE  TypeOK' /\ Locals'
  BY <1>11 DEF Unlock
<1>12. ASSUME NEW c \in Call, NewLobbyBegins(c)
       PROVE  TypeOK' /\ Locals'
  BY <1>12, NewLobbyType DEF NewLobbyBegins
<1>13. ASSUME NEW c \in Call, CheckNew(c)
       PROVE  TypeOK' /\ Locals'
  <2>1. CASE /\ pc' = [pc EXCEPT ![c] = "created"]
             /\ copy' = [copy EXCEPT ![c] = NoLobby]
             /\ target' = [target EXCEPT ![c] = NoCall]
             /\ acked' = [acked EXCEPT ![c] = @ \cup {c}]
             /\ UNCHANGED <<late, slots>>
    BY <1>13, <2>1 DEF CheckNew
  <2>2. CASE /\ late' = [late EXCEPT ![c] = lease[c] = "over"]
             /\ slots' = [slots EXCEPT ![c] = Slots]
             /\ pc' = [pc EXCEPT ![c] = "create"]
             /\ UNCHANGED <<copy, target, acked>>
    BY <1>13, <2>2 DEF CheckNew
  <2> QED
    BY <1>13, <2>1, <2>2 DEF CheckNew
<1>14. ASSUME NEW c \in Call, GiveUp(c)
       PROVE  TypeOK' /\ Locals'
  BY <1>14 DEF GiveUp
<1>15. ASSUME NEW l \in Call, RemovalStep(l)
       PROVE  TypeOK' /\ Locals'
  <2>1. CASE RemoveBegins(l)
    BY <1>15, <2>1 DEF RemoveBegins
  <2>2. CASE RemoveData(l)
    <3>1. /\ record' \in [Call -> LobbyRecord \cup {NoLobby}]
          /\ version' \in [Call -> Int16]
          /\ pinned' \in [Call -> BOOLEAN]
          /\ UNCHANGED <<index, indexTTL>>
      <4>1. UNCHANGED <<record, version, pinned, index, indexTTL>> \/ DelData(l)
        BY <2>2 DEF RemoveData
      <4>2. CASE UNCHANGED <<record, version, pinned, index, indexTTL>>
        BY <4>2
      <4>3. CASE DelData(l)
        BY <4>3, Int16Small DEF DelData
      <4> QED
        BY <4>1, <4>2, <4>3
    <3>2. /\ removing' = [removing EXCEPT ![l] = @ \ {"data"}]
          /\ UNCHANGED <<mutex, clocks, pc, reading, writing, removed, seen>>
      BY <2>2 DEF RemoveData
    <3> QED
      BY <3>1, <3>2
  <2>3. CASE RemoveIndex(l)
    BY <1>15, <2>3 DEF RemoveIndex, DelIndex
  <2> QED
    BY <1>15, <2>1, <2>2, <2>3 DEF RemovalStep
<1>16. ASSUME Environment
       PROVE  TypeOK' /\ Locals'
  <2>1. ASSUME NEW l \in Call, DeadlinePasses(l)
        PROVE  TypeOK' /\ Locals'
    BY <2>1 DEF DeadlinePasses
  <2>2. ASSUME NEW l \in Call, RecordExpires(l)
        PROVE  TypeOK' /\ Locals'
    BY <2>2, Int16Small DEF RecordExpires, DelData
  <2>3. ASSUME NEW l \in Call, MutexExpires(l)
        PROVE  TypeOK' /\ Locals'
    BY <2>3 DEF MutexExpires
  <2>4. ASSUME NEW l \in Call, Cancel(l)
        PROVE  TypeOK' /\ Locals'
    BY <2>4 DEF Cancel
  <2>5. ASSUME NEW l \in Call, Crash(l)
        PROVE  TypeOK' /\ Locals'
    BY <2>5 DEF Crash
  <2>6. CASE IndexExpires
    BY <2>6 DEF IndexExpires, DelIndex
  <2> QED
    BY <1>16, <2>1, <2>2, <2>3, <2>4, <2>5, <2>6 DEF Environment
<1>17. CASE UNCHANGED vars
  BY <1>17 DEF vars
<1> QED
  BY <1>1, <1>2, <1>3, <1>4, <1>5, <1>6, <1>7, <1>8, <1>9, <1>10, <1>11, <1>12,
     <1>13, <1>14, <1>15, <1>16, <1>17 DEF Next, CallStep

-----------------------------------------------------------------------------
(* Where the copies and the stored records come from *)

\* What can be known of the copy a call has after a step.
CopyKept(d) ==
  HasCopy(d) /\ copy'[d] = copy[d] /\ target'[d] = target[d]
CopyMade(d) ==
  target'[d] = d /\ \E b \in Borders : copy'[d] = NewLobby(d, b)
CopyRead(d) ==
  /\ pc[d] = "get"
  /\ target'[d] = target[d]
  /\ record[target[d]] # NoLobby
  /\ CanAddPlayer(record[target[d]])
  /\ copy'[d] = AddPlayer(record[target[d]], d)

LEMMA CopySources ==
  ASSUME TypeInv, [Next]_vars, NEW d \in Call, HasCopy(d)'
  PROVE  CopyKept(d) \/ CopyMade(d) \/ CopyRead(d)
<1> USE DEF TypeInv, TypeOK, HasCopy, PCs, redis, clocks, reading, writing, removal,
            seen
<1>1. ASSUME NEW c \in Call, \/ ReadIndex(c)
                            \/ \E l \in Call : LoadLobby(c, l) \/ LockFails(c, l)
                            \/ ListFails(c) \/ CleanMissing(c)
      PROVE  CopyKept(d)
  BY <1>1 DEF ReadIndex, LoadLobby, LockFails, ListFails, CleanMissing, CopyKept
<1>2. ASSUME NEW c \in Call, NEW l \in Call, Lock(c, l)
      PROVE  CopyKept(d)
  BY <1>2 DEF Lock, CopyKept
<1>3. ASSUME NEW c \in Call, GetForAdd(c)
      PROVE  CopyKept(d) \/ CopyRead(d)
  BY <1>3 DEF GetForAdd, CopyKept, CopyRead
<1>4. ASSUME NEW c \in Call, CheckVersion(c)
      PROVE  CopyKept(d)
  BY <1>4 DEF CheckVersion, SkipUpdate, CopyKept
<1>5. ASSUME NEW c \in Call, WriteData(c) \/ WriteIndex(c)
      PROVE  CopyKept(d)
  BY <1>5 DEF WriteData, WriteIndex, FinishSlot, CopyKept
<1>6. ASSUME NEW c \in Call, Unlock(c) \/ GiveUp(c)
      PROVE  CopyKept(d)
  BY <1>6 DEF Unlock, GiveUp, CopyKept
<1>7. ASSUME NEW c \in Call, NewLobbyBegins(c)
      PROVE  CopyKept(d) \/ CopyMade(d)
  BY <1>7 DEF NewLobbyBegins, CopyKept, CopyMade
<1>8. ASSUME NEW c \in Call, CheckNew(c)
      PROVE  CopyKept(d)
  BY <1>8 DEF CheckNew, CopyKept
<1>9. ASSUME NEW l \in Call, RemovalStep(l)
      PROVE  CopyKept(d)
  BY <1>9 DEF RemovalStep, RemoveBegins, RemoveData, RemoveIndex, CopyKept
<1>10. ASSUME Environment
       PROVE  CopyKept(d)
  BY <1>10 DEF Environment, DeadlinePasses, RecordExpires, IndexExpires,
               MutexExpires, Cancel, Crash, CopyKept
<1>11. CASE UNCHANGED vars
  BY <1>11 DEF vars, CopyKept
<1> QED
  BY <1>1, <1>2, <1>3, <1>4, <1>5, <1>6, <1>7, <1>8, <1>9, <1>10, <1>11
     DEF Next, CallStep

\* What can be known of a stored record after a step.
RecordKept(l) == record'[l] = record[l] /\ version'[l] = version[l]
RecordGone(l) == record'[l] = NoLobby /\ version'[l] = 0
RecordPut(c, l) ==
  /\ WriteData(c)
  /\ ~cancelled[c]
  /\ target[c] = l
  /\ record'[l] = copy[c]
  /\ version'[l] = copy[c].version
  /\ \E err \in BOOLEAN : FinishSlot(c, "data", err) /\ Misleads(c, err \/ failed[c])

LEMMA RecordSources ==
  ASSUME TypeInv, [Next]_vars, NEW l \in Call
  PROVE  \/ RecordKept(l)
         \/ RecordGone(l)
         \/ \E c \in Call : RecordPut(c, l)
<1> USE DEF TypeInv, TypeOK, redis
<1>1. ASSUME NEW c \in Call, CallStep(c), ~WriteData(c)
      PROVE  RecordKept(l)
  BY <1>1 DEF CallStep, ReadIndex, LoadLobby, LockFails, ListFails, CleanMissing,
              Lock, GetForAdd, CheckVersion, WriteIndex, Unlock, NewLobbyBegins,
              CheckNew, GiveUp, DelIndex, PutIndex, RecordKept
<1>2. ASSUME NEW c \in Call, WriteData(c)
      PROVE  RecordKept(l) \/ RecordPut(c, l)
  <2>1. PICK o \in Outcomes(cancelled[c]) :
          /\ IF o = "unsent" THEN UNCHANGED <<record, version, pinned, index, indexTTL>>
                             ELSE PutData(target[c], copy[c], late[c])
          /\ FinishSlot(c, "data", o # "answered")
          /\ Misleads(c, o # "unsent" /\ (o # "answered" \/ failed[c]))
    BY <1>2 DEF WriteData
  <2>2. CASE o = "unsent"
    BY <2>1, <2>2 DEF RecordKept
  <2>3. CASE o # "unsent"
    <3>1. ~cancelled[c]
      BY <2>3 DEF Outcomes
    <3>2. /\ record' = [record EXCEPT ![target[c]] = copy[c]]
          /\ version' = [version EXCEPT ![target[c]] = copy[c].version]
      BY <2>1, <2>3 DEF PutData
    <3>3. \E err \in BOOLEAN : FinishSlot(c, "data", err) /\ Misleads(c, err \/ failed[c])
      BY <2>1, <2>3 DEF Misleads
    <3> QED
      BY <1>2, <3>1, <3>2, <3>3 DEF RecordKept, RecordPut
  <2> QED
    BY <2>2, <2>3
<1>3. ASSUME NEW k \in Call, RemovalStep(k)
      PROVE  RecordKept(l) \/ RecordGone(l)
  <2>1. UNCHANGED <<record, version>> \/ DelData(k)
    BY <1>3 DEF RemovalStep, RemoveBegins, RemoveData, RemoveIndex, DelIndex
  <2>2. CASE UNCHANGED <<record, version>>
    BY <2>2 DEF RecordKept
  <2>3. CASE DelData(k)
    BY <2>3 DEF DelData, RecordKept, RecordGone
  <2> QED
    BY <2>1, <2>2, <2>3
<1>4. ASSUME Environment
      PROVE  RecordKept(l) \/ RecordGone(l)
  <2>1. \/ UNCHANGED <<record, version>>
        \/ \E k \in Call : DelData(k)
    BY <1>4 DEF Environment, DeadlinePasses, RecordExpires, IndexExpires,
                MutexExpires, Cancel, Crash, DelIndex
  <2>2. CASE UNCHANGED <<record, version>>
    BY <2>2 DEF RecordKept
  <2>3. ASSUME NEW k \in Call, DelData(k)
        PROVE  RecordKept(l) \/ RecordGone(l)
    BY <2>3 DEF DelData, RecordKept, RecordGone
  <2> QED
    BY <2>1, <2>2, <2>3
<1>5. CASE UNCHANGED vars
  BY <1>5 DEF vars, RecordKept
<1> QED
  BY <1>1, <1>2, <1>3, <1>4, <1>5 DEF Next

-----------------------------------------------------------------------------
(* Records are well formed, whatever fails *)

LEMMA NewLobbyWF ==
  ASSUME NEW c \in Call, NEW b \in Borders
  PROVE  WellFormed(NewLobby(c, b), c)
<1>1. Len(<<c>>) = 1 /\ <<c>>[1] = c
  OBVIOUS
<1> QED
  BY <1>1 DEF NewLobby, WellFormed

\* A record that has room is small enough for its version not to wrap.
LEMMA AddPlayerWF ==
  ASSUME NEW c \in Call, NEW l \in Call, NEW r \in LobbyRecord,
         WellFormed(r, l), CanAddPlayer(r)
  PROVE  /\ WellFormed(AddPlayer(r, c), l)
         /\ AddPlayer(r, c).version = r.version + 1
         /\ Seated(AddPlayer(r, c)) = Seated(r) \cup {c}
<1> DEFINE n == Len(r.players)
           r1 == AddPlayer(r, c)
<1>1. /\ r.players \in Seq(Call)
      /\ r.max \in Int16 /\ r.version \in Int16
      /\ n \in Nat /\ n >= 1 /\ r.version = n /\ r.players[1] = l
  BY DEF LobbyRecord, WellFormed
<1>2. n < r.max
  BY <1>1, ToInt16Identity DEF CanAddPlayer
<1>3. n + 1 \in Int16
  BY <1>1, <1>2, Int16Range, Bounds
<1>4. r1.version = n + 1
  BY <1>1, <1>3, ToInt16Identity DEF AddPlayer, LobbyRecord
<1>5. r1.players = Append(r.players, c) /\ r1.max = r.max
  BY DEF AddPlayer, LobbyRecord
<1>6. /\ Len(Append(r.players, c)) = n + 1
      /\ Append(r.players, c)[n + 1] = c
      /\ \A i \in 1 .. n : Append(r.players, c)[i] = r.players[i]
  BY <1>1
<1>7. WellFormed(r1, l)
  <2>1. Append(r.players, c)[1] = l
    BY <1>1, <1>6
  <2>2. n + 1 <= r.max
    BY <1>1, <1>2, Int16Range
  <2> QED
    BY <1>1, <1>4, <1>5, <1>6, <2>1, <2>2 DEF WellFormed
<1>8. Seated(r1) = Seated(r) \cup {c}
  <2>1. DOMAIN r.players = 1 .. n /\ DOMAIN Append(r.players, c) = 1 .. (n + 1)
    BY <1>1
  <2>2. \A x : x \in Seated(r1) <=> \E i \in 1 .. (n + 1) : x = Append(r.players, c)[i]
    BY <1>5, <2>1 DEF Seated
  <2>3. \A x : x \in Seated(r) <=> \E i \in 1 .. n : x = r.players[i]
    BY <2>1 DEF Seated
  <2>4. \A i : i \in 1 .. (n + 1) <=> i \in 1 .. n \/ i = n + 1
    BY <1>1
  <2>5. \A x : x \in Seated(r1) <=> x \in Seated(r) \/ x = c
    <3> HIDE DEF r1, n
    <3> QED
      BY <1>6, <2>2, <2>3, <2>4
  <2> QED
    BY <2>5
<1> QED
  BY <1>1, <1>4, <1>7, <1>8

LEMMA RecordInvInit == Init => RecordInv
  BY TypeInvInit DEF Init, RecordInv, RecordsWellFormed, CopiesWellFormed, HasCopy

LEMMA RecordInvNext == RecordInv /\ [Next]_vars => RecordInv'
<1> SUFFICES ASSUME TypeInv, RecordsWellFormed, CopiesWellFormed, [Next]_vars
             PROVE  RecordInv'
  BY DEF RecordInv
<1>1. TypeInv'
  BY TypeInvNext
<1>2. RecordsWellFormed'
  <2> SUFFICES ASSUME NEW l \in Call
               PROVE  IF record'[l] = NoLobby THEN version'[l] = 0
                      ELSE /\ WellFormed(record'[l], l)
                           /\ version'[l] = record'[l].version
    BY DEF RecordsWellFormed, WellFormed
  <2>1. CASE RecordKept(l)
    BY <2>1 DEF RecordKept, RecordsWellFormed, WellFormed
  <2>2. CASE RecordGone(l)
    BY <2>2 DEF RecordGone
  <2>3. ASSUME NEW c \in Call, RecordPut(c, l)
        PROVE  /\ record'[l] # NoLobby
               /\ WellFormed(record'[l], l)
               /\ version'[l] = record'[l].version
    <3>1. HasCopy(c) /\ target[c] = l
      BY <2>3 DEF RecordPut, WriteData, HasCopy
    <3>2. copy[c] \in LobbyRecord /\ WellFormed(copy[c], l)
      BY <3>1 DEF TypeInv, Locals, CopiesWellFormed
    <3> QED
      BY <2>3, <3>2, NoLobbyAssumption DEF RecordPut
  <2> QED
    BY <2>1, <2>2, <2>3, RecordSources
<1>3. CopiesWellFormed'
  <2> SUFFICES ASSUME NEW d \in Call, HasCopy(d)'
               PROVE  WellFormed(copy'[d], target'[d])
    BY DEF CopiesWellFormed
  <2>1. CASE CopyKept(d)
    BY <2>1 DEF CopyKept, CopiesWellFormed
  <2>2. CASE CopyMade(d)
    BY <2>2, NewLobbyWF DEF CopyMade
  <2>3. CASE CopyRead(d)
    <3>1. target[d] \in Call
      BY <2>3 DEF CopyRead, TypeInv, Locals, HasTarget, InCS
    <3>2. /\ record[target[d]] \in LobbyRecord
          /\ WellFormed(record[target[d]], target[d])
      BY <2>3, <3>1 DEF CopyRead, TypeInv, TypeOK, RecordsWellFormed, WellFormed
    <3> QED
      BY <2>3, <3>1, <3>2, AddPlayerWF DEF CopyRead
  <2> QED
    BY <2>1, <2>2, <2>3, CopySources
<1> QED
  BY <1>1, <1>2, <1>3 DEF RecordInv

\* Every variable keeps its type: the keys of Redis hold lobbies and int16
\* versions, the sorted set holds lobby ids, and no call works on a lobby it
\* has not (store.go).
THEOREM TypeCorrect == Spec => []TypeOK
<1>1. TypeInv => TypeOK
  BY DEF TypeInv
<1> QED
  BY TypeInvInit, TypeInvNext, <1>1, PTL DEF Spec

\* Whatever fails, crashes or expires, a lobby record that can be read was
\* built by its creator and the joiners one seat at a time: version, version
\* key and roster agree, no int16 has wrapped around, and nobody sits beyond
\* the maximum (store.go:178, models.go:26).
THEOREM RecordsStayWellFormed == Spec => []RecordsWellFormed
<1>1. RecordInv => RecordsWellFormed
  BY DEF RecordInv
<1> QED
  BY RecordInvInit, RecordInvNext, <1>1, PTL DEF Spec
=============================================================================
