---------------------------- MODULE OneLobbyProofs ----------------------------
(***************************************************************************)
(* Whatever fails, a call is on one roster at most, unless AddPlayer wrote *)
(* it on one and returned an error.                                        *)
(***************************************************************************)
EXTENDS RosterProofs

\* Who misleads a call is the pipeline of its own AddPlayer.
LEMMA MisledSources ==
  ASSUME TypeInv, [Next]_vars
  PROVE  \/ misled' = misled
         \/ \E c \in Call : pc[c] = "write" /\ misled' = [misled EXCEPT ![c] = TRUE]
<1> USE DEF TypeInv, TypeOK, redis, clocks, reading, writing, removal, seen
<1>1. ASSUME NEW c \in Call, CallStep(c)
      PROVE  \/ misled' = misled
             \/ pc[c] = "write" /\ misled' = [misled EXCEPT ![c] = TRUE]
  <2>1. CASE ReadIndex(c) \/ ListFails(c) \/ CleanMissing(c) \/ GetForAdd(c)
    BY <2>1 DEF ReadIndex, ListFails, CleanMissing, GetForAdd
  <2>2. ASSUME NEW k \in Call, LoadLobby(c, k) \/ Lock(c, k) \/ LockFails(c, k)
        PROVE  misled' = misled
    BY <2>2 DEF LoadLobby, Lock, LockFails
  <2>3. CASE CheckVersion(c) \/ NewLobbyBegins(c) \/ CheckNew(c) \/ GiveUp(c)
    BY <2>3 DEF CheckVersion, NewLobbyBegins, CheckNew, GiveUp
  <2>4. CASE WriteData(c) \/ WriteIndex(c)
    <3>1. PICK doomed \in BOOLEAN : Misleads(c, doomed)
      BY <2>4 DEF WriteData, WriteIndex
    <3> QED
      BY <3>1 DEF Misleads
  <2>5. CASE Unlock(c)
    BY <2>5 DEF Unlock
  <2> QED
    BY <1>1, <2>1, <2>2, <2>3, <2>4, <2>5 DEF CallStep
<1>2. ASSUME NEW c \in Call, RemovalStep(c)
      PROVE  misled' = misled
  BY <1>2 DEF RemovalStep, RemoveBegins, RemoveData, RemoveIndex
<1>3. CASE Environment
  BY <1>3 DEF Environment, DeadlinePasses, RecordExpires, IndexExpires, MutexExpires,
              Cancel, Crash
<1>4. CASE UNCHANGED vars
  BY <1>4 DEF vars
<1> QED
  BY <1>1, <1>2, <1>3, <1>4 DEF Next

LEMMA MisledStays ==
  ASSUME TypeInv, [Next]_vars, NEW c \in Call, misled[c]
  PROVE  misled'[c]
  BY MisledSources DEF TypeInv, TypeOK

\* Only its own write gets a call onto a roster it was not on.
LEMMA PlacedSources ==
  ASSUME TypeInv, [Next]_vars, NEW c \in Call, NEW l \in Call, Placed(c, l)'
  PROVE  Placed(c, l) \/ RecordPut(c, l)
<1>1. CASE record'[l] # NoLobby /\ c \in Seated(record'[l])
  <2>1. ASSUME NEW d \in Call, RecordPut(d, l), d # c
        PROVE  Placed(c, l)
    BY <1>1, <2>1 DEF Placed, RecordPut, WriteData, HasCopy
  <2> QED
    BY <1>1, <2>1, RecordSources DEF RecordKept, RecordGone, Placed
<1>2. ASSUME NEW d \in Call \ {c}, HasCopy(d)', target'[d] = l, c \in Seated(copy'[d])
      PROVE  Placed(c, l)
  <2>1. CASE CopyKept(d)
    BY <1>2, <2>1 DEF CopyKept, Placed
  <2>2. CASE CopyMade(d)
    BY <1>2, <2>2 DEF CopyMade, NewLobby, Seated
  <2>3. CASE CopyRead(d)
    <3>1. record[l] # NoLobby /\ record[l] \in LobbyRecord
      BY <1>2, <2>3 DEF CopyRead, TypeInv, TypeOK
    <3> QED
      BY <1>2, <2>3, <3>1, OneMore DEF CopyRead, Placed
  <2> QED
    BY <1>2, <2>1, <2>2, <2>3, CopySources
<1> QED
  BY <1>1, <1>2 DEF Placed

\* A call that has written goes on to say so, or is misled.
LEMMA WriterSettled ==
  ASSUME TypeInv, [Next]_vars, NEW c \in Call, NEW l \in Call, RecordPut(c, l)
  PROVE  misled'[c] \/ Settled(c, l)'
<1>1. PICK err \in BOOLEAN : FinishSlot(c, "data", err) /\ Misleads(c, err \/ failed[c])
  BY DEF RecordPut
<1>2. /\ pc[c] \in {"write", "create"} /\ "data" \in slots[c] /\ target[c] = l
  BY DEF RecordPut, WriteData
<1>3. CASE pc[c] = "write" /\ (err \/ failed[c])
  BY <1>1, <1>3 DEF Misleads, TypeInv, TypeOK
<1>4. CASE pc[c] = "write" /\ ~err /\ ~failed[c]
  BY <1>1, <1>2, <1>4 DEF FinishSlot, Settled, TypeInv, TypeOK
<1>5. CASE pc[c] = "create"
  BY <1>1, <1>2, <1>5 DEF FinishSlot, Settled, TypeInv, TypeOK
<1> QED
  BY <1>2, <1>3, <1>4, <1>5

LEMMA SettledStays ==
  ASSUME TypeInv, [Next]_vars, NEW c \in Call, NEW l \in Call,
         misled[c] \/ Settled(c, l)
  PROVE  misled'[c] \/ Settled(c, l)'
<1>1. CASE misled[c]
  BY <1>1, MisledStays
<1>2. CASE Settled(c, l) /\ Same(c)
  BY <1>2 DEF Same, Settled
<1>3. CASE Settled(c, l) /\ Crash(c)
  BY <1>3 DEF Crash, Settled, TypeInv, TypeOK
<1>4. CASE Settled(c, l) /\ CallStep(c)
  <2> USE DEF TypeInv, TypeOK, Settled, redis, clocks, reading, writing, removal, seen
  <2>1. CASE ReadIndex(c) \/ ListFails(c) \/ CleanMissing(c) \/ GetForAdd(c)
    BY <1>4, <2>1 DEF ReadIndex, ListFails, CleanMissing, GetForAdd
  <2>2. ASSUME NEW k \in Call, LoadLobby(c, k) \/ Lock(c, k) \/ LockFails(c, k)
        PROVE  FALSE
    BY <1>4, <2>2 DEF LoadLobby, Lock, LockFails
  <2>3. CASE CheckVersion(c) \/ NewLobbyBegins(c) \/ CheckNew(c) \/ GiveUp(c)
    BY <1>4, <2>3 DEF CheckVersion, NewLobbyBegins, CheckNew, GiveUp
  <2>4. CASE pc[c] = "write" /\ (WriteData(c) \/ WriteIndex(c))
    <3>1. target[c] = l /\ ~failed[c] /\ "data" \notin slots[c]
      BY <1>4, <2>4
    <3>2. PICK o \in Outcomes(cancelled[c]) :
            /\ FinishSlot(c, "index", o # "answered")
            /\ Misleads(c, o # "answered" /\ "data" \notin slots[c] /\ ~failed[c])
      BY <2>4, <3>1 DEF WriteData, WriteIndex
    <3>3. CASE o # "answered"
      BY <2>4, <3>1, <3>2, <3>3 DEF Misleads
    <3>4. CASE o = "answered"
      BY <2>4, <3>1, <3>2, <3>4 DEF FinishSlot
    <3> QED
      BY <3>3, <3>4
  <2>5. CASE pc[c] = "create" /\ (WriteData(c) \/ WriteIndex(c))
    <3>1. PICK s \in Slots, err \in BOOLEAN : FinishSlot(c, s, err)
      BY <2>5 DEF WriteData, WriteIndex, Slots
    <3>2. target[c] = l
      BY <1>4, <2>5
    <3> QED
      BY <2>5, <3>1, <3>2 DEF FinishSlot
  <2>6. CASE Unlock(c)
    BY <1>4, <2>6 DEF Unlock
  <2>7. WriteData(c) \/ WriteIndex(c) => pc[c] \in {"write", "create"}
    BY DEF WriteData, WriteIndex
  <2> QED
    BY <1>4, <2>1, <2>2, <2>3, <2>4, <2>5, <2>6, <2>7 DEF CallStep
<1> QED
  BY <1>1, <1>2, <1>3, <1>4, OthersKeepLocals

\* A call about to write has its place only where it writes.
LEMMA WriterElsewhere ==
  ASSUME NEW c \in Call, NEW k \in Call, NEW l \in Call, RecordPut(c, k), Settled(c, l)
  PROVE  k = l
<1>1. pc[c] \in {"write", "create"} /\ "data" \in slots[c] /\ target[c] = k
  BY DEF RecordPut, WriteData
<1> QED
  BY <1>1 DEF Settled

LEMMA PlaceInvNext ==
  ASSUME PlaceInv, [Next]_vars
  PROVE  PlaceInv'
<1> USE DEF PlaceInv
<1>1. TypeInv'
  BY TypeInvNext
<1>2. ASSUME NEW c \in Call, NEW l \in Call, Placed(c, l)'
      PROVE  misled'[c] \/ Settled(c, l)'
  <2>1. CASE Placed(c, l)
    BY <2>1, SettledStays DEF PlacedSettled
  <2>2. CASE RecordPut(c, l)
    BY <2>2, WriterSettled
  <2> QED
    BY <1>2, <2>1, <2>2, PlacedSources
<1>3. ASSUME NEW c \in Call, NEW k \in Call, NEW l \in Call,
             RecordPut(c, k), Placed(c, l)
      PROVE  k = l \/ misled'[c]
  BY <1>3, WriterElsewhere, MisledStays DEF PlacedSettled
<1>4. ASSUME NEW c \in Call, NEW k \in Call, NEW l \in Call, Placed(c, k)', Placed(c, l)'
      PROVE  k = l \/ misled'[c]
  <2>1. CASE RecordPut(c, k) /\ RecordPut(c, l)
    BY <2>1 DEF RecordPut
  <2>2. CASE Placed(c, k) /\ Placed(c, l)
    BY <2>2, MisledStays DEF OnePlace
  <2> QED
    BY <1>3, <1>4, <2>1, <2>2, PlacedSources
<1>5. PlacedSettled'
  BY <1>2 DEF PlacedSettled
<1>6. OnePlace'
  BY <1>4 DEF OnePlace
<1> QED
  BY <1>1, <1>5, <1>6

\* Whatever fails, a call is on two rosters only if AddPlayer put it on one of
\* them and then returned an error: the record's reply was lost, or the
\* record's slot was applied and the index's was not, or not to the caller's
\* knowledge (store.go:207-220, handler.go:118).  No other failure does it,
\* nor a retry, a race, a crash or a lock that is outlived.
THEOREM OneLobbyAtMost == Spec => []OneLobbyPerCall
<1>1. Init => PlaceInv
  <2> SUFFICES ASSUME Init
               PROVE  PlaceInv
    OBVIOUS
  <2>1. \A c, l \in Call : ~Placed(c, l)
    BY DEF Init, Placed, HasCopy
  <2> QED
    BY <2>1, TypeInvInit DEF PlaceInv, PlacedSettled, OnePlace
<1>2. PlaceInv /\ [Next]_vars => PlaceInv'
  BY PlaceInvNext
<1>3. PlaceInv => OneLobbyPerCall
  BY DEF PlaceInv, OnePlace, Placed, OneLobbyPerCall
<1> QED
  BY <1>1, <1>2, <1>3, PTL DEF Spec
=============================================================================
