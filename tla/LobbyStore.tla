----------------------------- MODULE LobbyStore -----------------------------
(***************************************************************************)
(* internal/apis/store/store.go over a Redis cluster, driven by the calls  *)
(* the JoinLobby handler and the lobby waiter make.                        *)
(*                                                                         *)
(* Every Redis command, or every slot's MULTI/EXEC of a pipeline, is one   *)
(* action; between two of them any other call may run.  `lobby:{id}' and   *)
(* `lobby:version:{id}' hash to one slot ("data"), the mode's sorted set   *)
(* of open lobbies to another ("index"), so a TxPipeline is two            *)
(* transactions, in either order, each of which may fail alone.            *)
(*                                                                         *)
(* A lobby's id is generated by the call that creates it and a call        *)
(* creates at most one: the model names a lobby by its creator.            *)
(***************************************************************************)
EXTENDS Lobby, FiniteSets

CONSTANTS
    NoCall,           \* the value of a free mutex
    NoLobby,          \* the value of an absent lobby record
    TopLobbiesLimit,  \* how many ids GetTopLobbies asks the index for
    Faults            \* what may go wrong, see FaultKinds

\* "get":   a read returns an error that is not redis.Nil.
\* "exec":  a transaction, a SET NX or an unlock is refused unapplied, or is
\*          applied and loses its reply.
\* "slow":  a call holds a mutex beyond the mutex's own 5 s expiry.
\* "crash": the process that serves a call dies.
FaultKinds == {"get", "exec", "slow", "crash"}

Slots == {"data", "index"}

\* A lobby's id, a nanoid, is not the name of a lobby's key.
ASSUME CallAssumption == \A id \in Call : <<"lobby", id>> \notin Call
ASSUME NoCallAssumption == NoCall \notin Call
ASSUME NoLobbyAssumption == NoLobby \notin LobbyRecord
ASSUME LimitAssumption == TopLobbiesLimit \in Nat \ {0}
ASSUME FaultsAssumption == Faults \subseteq FaultKinds

VARIABLES
    (* Redis *)
    record,    \* lobby:{id}: the lobby's JSON, or NoLobby
    version,   \* lobby:version:{id}, 0 when the key is absent
    pinned,    \* were those two keys stored without a TTL?
    index,     \* lobby:active:{mode}: the ids in the sorted set
    indexTTL,  \* the lobby whose remaining time the index got as its TTL
    mutex,     \* {lobby:id}: the call whose value the lock key holds
    (* time and contexts *)
    lease,     \* ExpireAt of each lobby: not created, ahead, passed
    cancelled, \* is the context of this call's stream done?
    (* locals of one JoinLobby call *)
    pc,
    ids,       \* the ids ZREVRANGE returned
    unread,    \* those of them not yet fetched by MGET
    stale,     \* did an MGET find a missing record?
    found,     \* the open lobbies read and not yet tried
    target,    \* the lobby the call is joining or creating
    copy,      \* its record in the call's memory
    late,      \* was time.Until(ExpireAt) computed as zero or less?
    slots,     \* slots of the pipeline not yet executed
    failed,    \* has the operation an error to return?
    (* locals of one lobby's waiter *)
    removed,   \* has RemoveLobby been called?
    removing,  \* slots of its pipeline not yet executed
    (* observation *)
    acked,     \* calls that AddLobby or AddPlayer told they are in the lobby
    misled     \* has an AddPlayer of this call seated it and ends in an error?

redis == <<record, version, pinned, index, indexTTL, mutex>>
clocks == <<lease, cancelled>>
reading == <<ids, unread, stale, found>>
writing == <<target, copy, late, slots, failed>>
removal == <<removed, removing>>
seen == <<acked, misled>>
vars == <<redis, clocks, pc, reading, writing, removal, seen>>

-----------------------------------------------------------------------------
PCs == {"start", "load", "zrem", "listed", "list_err",
        "get", "check", "write", "unlock", "joined",
        "new", "create", "create_err", "created", "gave_up", "dead"}

\* Between a successful LockContext and the deferred UnlockContext.
InCS(c) == pc[c] \in {"get", "check", "write", "unlock"}

TypeOK ==
    /\ record \in [Call -> LobbyRecord \cup {NoLobby}]
    /\ version \in [Call -> Int16]
    /\ pinned \in [Call -> BOOLEAN]
    /\ index \subseteq Call
    /\ indexTTL \in Call \cup {NoCall}
    /\ mutex \in [Call -> Call \cup {NoCall}]
    /\ lease \in [Call -> {"none", "running", "over"}]
    /\ cancelled \in [Call -> BOOLEAN]
    /\ pc \in [Call -> PCs]
    /\ ids \in [Call -> SUBSET Call]
    /\ unread \in [Call -> SUBSET Call]
    /\ stale \in [Call -> BOOLEAN]
    /\ found \in [Call -> SUBSET Call]
    /\ target \in [Call -> Call \cup {NoCall}]
    /\ copy \in [Call -> LobbyRecord \cup {NoLobby}]
    /\ late \in [Call -> BOOLEAN]
    /\ slots \in [Call -> SUBSET Slots]
    /\ failed \in [Call -> BOOLEAN]
    /\ removed \in [Call -> BOOLEAN]
    /\ removing \in [Call -> SUBSET Slots]
    /\ acked \in [Call -> SUBSET Call]
    /\ misled \in [Call -> BOOLEAN]

Init ==
    /\ record = [l \in Call |-> NoLobby]
    /\ version = [l \in Call |-> 0]
    /\ pinned = [l \in Call |-> FALSE]
    /\ index = {}
    /\ indexTTL = NoCall
    /\ mutex = [l \in Call |-> NoCall]
    /\ lease = [l \in Call |-> "none"]
    /\ cancelled = [c \in Call |-> FALSE]
    /\ pc = [c \in Call |-> "start"]
    /\ ids = [c \in Call |-> {}]
    /\ unread = [c \in Call |-> {}]
    /\ stale = [c \in Call |-> FALSE]
    /\ found = [c \in Call |-> {}]
    /\ target = [c \in Call |-> NoCall]
    /\ copy = [c \in Call |-> NoLobby]
    /\ late = [c \in Call |-> FALSE]
    /\ slots = [c \in Call |-> {}]
    /\ failed = [c \in Call |-> FALSE]
    /\ removed = [l \in Call |-> FALSE]
    /\ removing = [l \in Call |-> {}]
    /\ acked = [l \in Call |-> {}]
    /\ misled = [c \in Call |-> FALSE]

-----------------------------------------------------------------------------
(* What the commands of a pipeline do, slot by slot. *)

\* SET of the record and of its version.  With no time left go-redis sends
\* a plain SET, and the keys never expire.
PutData(l, r, spent) ==
    /\ record' = [record EXCEPT ![l] = r]
    /\ version' = [version EXCEPT ![l] = r.version]
    /\ pinned' = [pinned EXCEPT ![l] = spent]
    /\ UNCHANGED <<index, indexTTL>>

\* Mutant: ZADD adds the lobby's key in place of its id.
PutIndexByKey(l, spent) ==
    /\ index' = IF spent THEN {} ELSE index \cup {<<"lobby", l>>}
    /\ indexTTL' = IF spent THEN NoCall ELSE l
    /\ UNCHANGED <<record, version, pinned>>

\* ZADD, then EXPIRE of the whole set with this lobby's remaining time;
\* with no time left EXPIRE deletes the set.
PutIndex(l, spent) ==
    /\ index' = IF spent THEN {} ELSE index \cup {l}
    /\ indexTTL' = IF spent THEN NoCall ELSE l
    /\ UNCHANGED <<record, version, pinned>>

\* DEL of the record and of its version; also what their expiry does.
DelData(l) ==
    /\ record' = [record EXCEPT ![l] = NoLobby]
    /\ version' = [version EXCEPT ![l] = 0]
    /\ pinned' = [pinned EXCEPT ![l] = FALSE]
    /\ UNCHANGED <<index, indexTTL>>

\* ZREM of some members.  Redis drops a sorted set that becomes empty.
DelIndex(members) ==
    /\ index' = index \ members
    /\ indexTTL' = IF index \subseteq members THEN NoCall ELSE indexTTL
    /\ UNCHANGED <<record, version, pinned>>

\* A command under a done context is not sent.  One that is sent is applied
\* and answered, unless the network interferes.
Outcomes(done) ==
    IF done THEN {"unsent"}
    ELSE {"answered"} \cup (IF "exec" \in Faults THEN {"unsent", "unanswered"} ELSE {})

ReadFails(c) == cancelled[c] \/ "get" \in Faults

-----------------------------------------------------------------------------
(* GetTopLobbies and loadLobbiesByIDs *)

\* ZREVRANGE 0 limit-1: the highest scores, which the model does not order.
ReadIndex(c) ==
    /\ pc[c] = "start"
    /\ ~cancelled[c]
    /\ \E top \in SUBSET index :
         /\ Cardinality(top) <= TopLobbiesLimit
         /\ top = index \/ Cardinality(top) = TopLobbiesLimit
         /\ ids' = [ids EXCEPT ![c] = top]
         /\ unread' = [unread EXCEPT ![c] = top]
         /\ pc' = [pc EXCEPT ![c] = IF top = {} THEN "listed" ELSE "load"]
    /\ UNCHANGED <<redis, clocks, stale, found, writing, removal, seen>>

\* The MGET of one slot; two lobbies are in two slots, read in any order.
LoadLobby(c, l) ==
    /\ pc[c] = "load"
    /\ ~cancelled[c]
    /\ l \in unread[c]
    /\ LET dead == record[l] = NoLobby
           open == ~dead /\ CanAddPlayer(record[l])
           last == unread[c] = {l}
           clean == stale[c] \/ dead
       IN  /\ found' = [found EXCEPT ![c] = IF open THEN @ \cup {l} ELSE @]
           /\ unread' = [unread EXCEPT ![c] = @ \ {l}]
           /\ stale' = [stale EXCEPT ![c] = clean /\ ~last]
           /\ ids' = [ids EXCEPT ![c] = IF last /\ ~clean THEN {} ELSE @]
           /\ pc' = [pc EXCEPT ![c] = IF ~last THEN @
                                      ELSE IF clean THEN "zrem" ELSE "listed"]
    /\ UNCHANGED <<redis, clocks, writing, removal, seen>>

\* ZREVRANGE or one MGET fails: the handler reports an error and returns.
ListFails(c) ==
    /\ pc[c] \in {"start", "load"}
    /\ ReadFails(c)
    /\ pc' = [pc EXCEPT ![c] = "list_err"]
    /\ ids' = [ids EXCEPT ![c] = {}]
    /\ unread' = [unread EXCEPT ![c] = {}]
    /\ stale' = [stale EXCEPT ![c] = FALSE]
    /\ found' = [found EXCEPT ![c] = {}]
    /\ UNCHANGED <<redis, clocks, writing, removal, seen>>

\* The sorted set's members are ids; missingKeys holds key names, made from
\* the ids at the positions the missing values had within their slot.
KeyName(id) == <<"lobby", id>>

\* The deferred ZREM.  Its error is only logged.
CleanMissing(c) ==
    /\ pc[c] = "zrem"
    /\ \/ /\ ~cancelled[c]
          /\ \E picked \in SUBSET ids[c] \ {{}} :
               DelIndex({KeyName(id) : id \in picked})
       \/ /\ ReadFails(c)
          /\ UNCHANGED <<record, version, pinned, index, indexTTL>>
    /\ pc' = [pc EXCEPT ![c] = "listed"]
    /\ ids' = [ids EXCEPT ![c] = {}]
    /\ UNCHANGED <<mutex, clocks, unread, stale, found, writing, removal, seen>>

-----------------------------------------------------------------------------
(* AddPlayer *)

\* Mutant: store.go:154 drops the error of LockContext.
LockIgnored(c, l) ==
    /\ pc[c] = "listed"
    /\ l \in found[c]
    /\ ~cancelled[c]
    /\ mutex' = [mutex EXCEPT ![l] = c]
    /\ found' = [found EXCEPT ![c] = @ \ {l}]
    /\ target' = [target EXCEPT ![c] = l]
    /\ pc' = [pc EXCEPT ![c] = "get"]
    /\ UNCHANGED <<record, version, pinned, index, indexTTL, clocks, ids, unread,
                   stale, copy, late, slots, failed, removal, seen>>

\* Mutant: handler.go:119 left out, a lobby that refused is tried again.
LockAgain(c, l) ==
    /\ pc[c] = "listed"
    /\ l \in found[c]
    /\ ~cancelled[c]
    /\ mutex[l] = NoCall
    /\ mutex' = [mutex EXCEPT ![l] = c]
    /\ target' = [target EXCEPT ![c] = l]
    /\ pc' = [pc EXCEPT ![c] = "get"]
    /\ UNCHANGED <<record, version, pinned, index, indexTTL, clocks, reading,
                   copy, late, slots, failed, removal, seen>>

\* LockContext succeeds.  The handler tries a listed lobby at most once.
Lock(c, l) ==
    /\ pc[c] = "listed"
    /\ l \in found[c]
    /\ ~cancelled[c]
    /\ mutex[l] = NoCall
    /\ mutex' = [mutex EXCEPT ![l] = c]
    /\ found' = [found EXCEPT ![c] = @ \ {l}]
    /\ target' = [target EXCEPT ![c] = l]
    /\ pc' = [pc EXCEPT ![c] = "get"]
    /\ UNCHANGED <<record, version, pinned, index, indexTTL, clocks, ids, unread,
                   stale, copy, late, slots, failed, removal, seen>>

\* LockContext gives up: three tries found the lock taken, or an error.  A
\* SET NX whose reply was lost leaves the lock behind.
LockFails(c, l) ==
    /\ pc[c] = "listed"
    /\ l \in found[c]
    /\ \/ /\ mutex[l] # NoCall \/ cancelled[c] \/ "exec" \in Faults
          /\ UNCHANGED mutex
       \/ /\ mutex[l] = NoCall /\ ~cancelled[c] /\ "exec" \in Faults
          /\ mutex' = [mutex EXCEPT ![l] = c]
    /\ found' = [found EXCEPT ![c] = @ \ {l}]
    /\ UNCHANGED <<record, version, pinned, index, indexTTL, clocks, pc, ids, unread,
                   stale, writing, removal, seen>>

\* GetLobby and Lobby.AddPlayer.
GetForAdd(c) ==
    /\ pc[c] = "get"
    /\ LET r == record[target[c]]
       IN  \/ /\ ~cancelled[c]
              /\ r # NoLobby
              /\ CanAddPlayer(r)
              /\ copy' = [copy EXCEPT ![c] = AddPlayer(r, c)]
              /\ pc' = [pc EXCEPT ![c] = "check"]
              /\ UNCHANGED failed
           \/ /\ ReadFails(c) \/ (r # NoLobby => ~CanAddPlayer(r))
              /\ failed' = [failed EXCEPT ![c] = TRUE]
              /\ pc' = [pc EXCEPT ![c] = "unlock"]
              /\ UNCHANGED copy
    /\ UNCHANGED <<redis, clocks, reading, target, late, slots, removal, seen>>

\* Leaving AtomicUpdateLobby without a pipeline, with or without an error.
SkipUpdate(c, err) ==
    /\ failed' = [failed EXCEPT ![c] = err]
    /\ copy' = [copy EXCEPT ![c] = NoLobby]
    /\ pc' = [pc EXCEPT ![c] = "unlock"]
    /\ UNCHANGED <<late, slots>>

\* AtomicUpdateLobby up to its pipeline: a version that is not older than
\* the copy's means success, with nothing written.
CheckVersion(c) ==
    /\ pc[c] = "check"
    /\ \/ /\ ~cancelled[c]
          /\ version[target[c]] >= copy[c].version
          /\ SkipUpdate(c, FALSE)
       \/ /\ ReadFails(c)
          /\ SkipUpdate(c, TRUE)
       \/ /\ ~cancelled[c]
          /\ version[target[c]] < copy[c].version
          /\ late' = [late EXCEPT ![c] = lease[target[c]] = "over"]
          /\ slots' = [slots EXCEPT ![c] = Slots]
          /\ pc' = [pc EXCEPT ![c] = "write"]
          /\ UNCHANGED <<copy, failed>>
    /\ UNCHANGED <<redis, clocks, reading, target, removal, seen>>

\* pipe.Exec returns when both slots are done, with an error if either has.
FinishSlot(c, s, err) ==
    LET last == slots[c] = {s}
        fails == failed[c] \/ err
        next == IF pc[c] = "write" THEN "unlock"
                ELSE IF fails THEN "create_err" ELSE "created"
        keep == ~last \/ next = "create_err"
    IN  /\ slots' = [slots EXCEPT ![c] = @ \ {s}]
        /\ failed' = [failed EXCEPT ![c] = fails /\ (~last \/ next = "unlock")]
        /\ late' = [late EXCEPT ![c] = @ /\ ~last]
        /\ copy' = [copy EXCEPT ![c] = IF keep THEN @ ELSE NoLobby]
        /\ target' = [target EXCEPT ![c] = IF next = "created" /\ last THEN NoCall ELSE @]
        /\ pc' = [pc EXCEPT ![c] = IF last THEN next ELSE @]
        /\ acked' = IF last /\ next = "created"
                    THEN [acked EXCEPT ![c] = @ \cup {c}] ELSE acked

\* The slot that dooms an AddPlayer whose record is, or was, written.
Misleads(c, doomed) ==
    misled' = [misled EXCEPT ![c] = @ \/ (pc[c] = "write" /\ doomed)]

\* One slot of the pipeline of AtomicUpdateLobby or AddLobby.
WriteData(c) ==
    /\ pc[c] \in {"write", "create"}
    /\ "data" \in slots[c]
    /\ \E o \in Outcomes(cancelled[c]) :
         /\ IF o = "unsent" THEN UNCHANGED <<record, version, pinned, index, indexTTL>>
                            ELSE PutData(target[c], copy[c], late[c])
         /\ FinishSlot(c, "data", o # "answered")
         /\ Misleads(c, o # "unsent" /\ (o # "answered" \/ failed[c]))
    /\ UNCHANGED <<mutex, clocks, reading, removal>>

WriteIndex(c) ==
    /\ pc[c] \in {"write", "create"}
    /\ "index" \in slots[c]
    /\ \E o \in Outcomes(cancelled[c]) :
         /\ IF o = "unsent" THEN UNCHANGED <<record, version, pinned, index, indexTTL>>
                            ELSE PutIndex(target[c], late[c])
         /\ FinishSlot(c, "index", o # "answered")
         /\ Misleads(c, o # "answered" /\ "data" \notin slots[c] /\ ~failed[c])
    /\ UNCHANGED <<mutex, clocks, reading, removal>>

\* Mutant: the break of handler.go:133 left out, the call goes on joining.
UnlockNoBreak(c) ==
    /\ pc[c] = "unlock"
    /\ \E o \in Outcomes(cancelled[c]) :
         mutex' = IF o # "unsent" /\ mutex[target[c]] = c
                  THEN [mutex EXCEPT ![target[c]] = NoCall] ELSE mutex
    /\ acked' = IF failed[c] THEN acked
                ELSE [acked EXCEPT ![target[c]] = @ \cup {c}]
    /\ pc' = [pc EXCEPT ![c] = "listed"]
    /\ failed' = [failed EXCEPT ![c] = FALSE]
    /\ target' = [target EXCEPT ![c] = NoCall]
    /\ UNCHANGED <<record, version, pinned, index, indexTTL, clocks, reading,
                   copy, late, slots, removal, misled>>

\* Mutant: `err :=' inside AddPlayer hides the error from the return.
UnlockNoError(c) ==
    /\ pc[c] = "unlock"
    /\ mutex' = IF mutex[target[c]] = c THEN [mutex EXCEPT ![target[c]] = NoCall] ELSE mutex
    /\ acked' = [acked EXCEPT ![target[c]] = @ \cup {c}]
    /\ pc' = [pc EXCEPT ![c] = "joined"]
    /\ found' = [found EXCEPT ![c] = {}]
    /\ failed' = [failed EXCEPT ![c] = FALSE]
    /\ target' = [target EXCEPT ![c] = NoCall]
    /\ UNCHANGED <<record, version, pinned, index, indexTTL, clocks, ids, unread,
                   stale, copy, late, slots, removal, misled>>

\* The deferred UnlockContext, whose error is dropped, and the return.  The
\* unlock script deletes the key only if it still holds the call's value.
Unlock(c) ==
    /\ pc[c] = "unlock"
    /\ \E o \in Outcomes(cancelled[c]) :
         mutex' = IF o # "unsent" /\ mutex[target[c]] = c
                  THEN [mutex EXCEPT ![target[c]] = NoCall] ELSE mutex
    /\ acked' = IF failed[c] THEN acked
                ELSE [acked EXCEPT ![target[c]] = @ \cup {c}]
    /\ pc' = [pc EXCEPT ![c] = IF failed[c] THEN "listed" ELSE "joined"]
    /\ found' = [found EXCEPT ![c] = IF failed[c] THEN @ ELSE {}]
    /\ failed' = [failed EXCEPT ![c] = FALSE]
    /\ target' = [target EXCEPT ![c] = NoCall]
    /\ UNCHANGED <<record, version, pinned, index, indexTTL, clocks, ids, unread,
                   stale, copy, late, slots, removal, misled>>

-----------------------------------------------------------------------------
(* AddLobby *)

\* The handler found no lobby to join and makes one.
NewLobbyBegins(c) ==
    /\ pc[c] = "listed"
    /\ \E b \in Borders : copy' = [copy EXCEPT ![c] = NewLobby(c, b)]
    /\ lease' = [lease EXCEPT ![c] = "running"]
    /\ target' = [target EXCEPT ![c] = c]
    /\ found' = [found EXCEPT ![c] = {}]
    /\ pc' = [pc EXCEPT ![c] = "new"]
    /\ UNCHANGED <<redis, cancelled, ids, unread, stale, late, slots, failed,
                   removal, seen>>

\* The version check of an attempt.  An error of the read counts as 0.
CheckNew(c) ==
    /\ pc[c] \in {"new", "create_err"}
    /\ \/ /\ ~cancelled[c]
          /\ version[c] >= copy[c].version
          /\ pc' = [pc EXCEPT ![c] = "created"]
          /\ copy' = [copy EXCEPT ![c] = NoLobby]
          /\ target' = [target EXCEPT ![c] = NoCall]
          /\ acked' = [acked EXCEPT ![c] = @ \cup {c}]
          /\ UNCHANGED <<late, slots>>
       \/ /\ ReadFails(c) \/ version[c] < copy[c].version
          /\ late' = [late EXCEPT ![c] = lease[c] = "over"]
          /\ slots' = [slots EXCEPT ![c] = Slots]
          /\ pc' = [pc EXCEPT ![c] = "create"]
          /\ UNCHANGED <<copy, target, acked>>
    /\ UNCHANGED <<redis, clocks, reading, failed, removal, misled>>

\* The attempts are used up; the handler goes on as if it had succeeded.
GiveUp(c) ==
    /\ pc[c] = "create_err"
    /\ pc' = [pc EXCEPT ![c] = "gave_up"]
    /\ copy' = [copy EXCEPT ![c] = NoLobby]
    /\ target' = [target EXCEPT ![c] = NoCall]
    /\ UNCHANGED <<redis, clocks, reading, late, slots, failed, removal, seen>>

-----------------------------------------------------------------------------
(* RemoveLobby, called once, by the waiter of the lobby's creator, when it has
   read a record that is ready or out of time, under a context that ends with
   the creator's stream, or a moment after ExpireAt: the handler starts its
   timeout once the lobby is stored.                                       *)

RemovalOutcomes(l) ==
    Outcomes(cancelled[l]) \cup (IF lease[l] = "over" THEN {"unsent"} ELSE {})

RemoveBegins(l) ==
    /\ pc[l] \in {"created", "gave_up"}
    /\ ~removed[l]
    /\ ~cancelled[l]
    /\ record[l] # NoLobby
    /\ lease[l] = "over" \/ \E settled \in BOOLEAN : Ready(record[l], settled)
    /\ removed' = [removed EXCEPT ![l] = TRUE]
    /\ removing' = [removing EXCEPT ![l] = Slots]
    /\ UNCHANGED <<redis, clocks, pc, reading, writing, seen>>

RemoveData(l) ==
    /\ "data" \in removing[l]
    /\ \E o \in RemovalOutcomes(l) :
         IF o = "unsent" THEN UNCHANGED <<record, version, pinned, index, indexTTL>>
                         ELSE DelData(l)
    /\ removing' = [removing EXCEPT ![l] = @ \ {"data"}]
    /\ UNCHANGED <<mutex, clocks, pc, reading, writing, removed, seen>>

RemoveIndex(l) ==
    /\ "index" \in removing[l]
    /\ \E o \in RemovalOutcomes(l) :
         IF o = "unsent" THEN UNCHANGED <<record, version, pinned, index, indexTTL>>
                         ELSE DelIndex({l})
    /\ removing' = [removing EXCEPT ![l] = @ \ {"index"}]
    /\ UNCHANGED <<mutex, clocks, pc, reading, writing, removed, seen>>

-----------------------------------------------------------------------------
(* Time and clients *)

\* ExpireAt passes.  No operation moves it: the waiter's extension stays in
\* its own copy.
DeadlinePasses(l) ==
    /\ lease[l] = "running"
    /\ lease' = [lease EXCEPT ![l] = "over"]
    /\ UNCHANGED <<redis, cancelled, pc, reading, writing, removal, seen>>

RecordExpires(l) ==
    /\ record[l] # NoLobby
    /\ ~pinned[l]
    /\ lease[l] = "over"
    /\ DelData(l)
    /\ UNCHANGED <<mutex, clocks, pc, reading, writing, removal, seen>>

IndexExpires ==
    /\ indexTTL # NoCall
    /\ lease[indexTTL] = "over"
    /\ DelIndex(index)
    /\ UNCHANGED <<mutex, clocks, pc, reading, writing, removal, seen>>

\* Mutant: the lock is taken without WithExpiry (store.go:147).
MutexPersists(l) ==
    /\ mutex[l] # NoCall
    /\ FALSE
    /\ UNCHANGED vars

\* The lock key's own TTL: it frees a lock whose unlock did not get through
\* and, when the holder is that slow, one still in use.
MutexExpires(l) ==
    /\ mutex[l] # NoCall
    /\ \/ "slow" \in Faults
       \/ ~(InCS(mutex[l]) /\ target[mutex[l]] = l)
    /\ mutex' = [mutex EXCEPT ![l] = NoCall]
    /\ UNCHANGED <<record, version, pinned, index, indexTTL, clocks, pc, reading,
                   writing, removal, seen>>

\* The player leaves, or the connection does.
Cancel(c) ==
    /\ ~cancelled[c]
    /\ cancelled' = [cancelled EXCEPT ![c] = TRUE]
    /\ UNCHANGED <<redis, lease, pc, reading, writing, removal, seen>>

\* The process is killed: the call, and the waiter of the lobby it made, stop
\* where they are.  Redis keeps what they have written, locks included.
Crash(c) ==
    /\ "crash" \in Faults
    /\ pc[c] \notin {"start", "dead"}
    /\ pc' = [pc EXCEPT ![c] = "dead"]
    /\ cancelled' = [cancelled EXCEPT ![c] = TRUE]
    /\ ids' = [ids EXCEPT ![c] = {}]
    /\ unread' = [unread EXCEPT ![c] = {}]
    /\ stale' = [stale EXCEPT ![c] = FALSE]
    /\ found' = [found EXCEPT ![c] = {}]
    /\ target' = [target EXCEPT ![c] = NoCall]
    /\ copy' = [copy EXCEPT ![c] = NoLobby]
    /\ late' = [late EXCEPT ![c] = FALSE]
    /\ slots' = [slots EXCEPT ![c] = {}]
    /\ failed' = [failed EXCEPT ![c] = FALSE]
    /\ removing' = [removing EXCEPT ![c] = {}]
    /\ UNCHANGED <<redis, lease, removed, seen>>

-----------------------------------------------------------------------------
\* The steps of a call that the code takes without waiting for anyone.
CallStep(c) ==
    \/ ReadIndex(c)
    \/ \E l \in Call : LoadLobby(c, l)
    \/ ListFails(c)
    \/ CleanMissing(c)
    \/ \E l \in Call : Lock(c, l) \/ LockFails(c, l)
    \/ GetForAdd(c)
    \/ CheckVersion(c)
    \/ WriteData(c)
    \/ WriteIndex(c)
    \/ Unlock(c)
    \/ NewLobbyBegins(c)
    \/ CheckNew(c)
    \/ GiveUp(c)

RemovalStep(l) == RemoveBegins(l) \/ RemoveData(l) \/ RemoveIndex(l)

Environment ==
    \/ \E l \in Call :
         \/ DeadlinePasses(l)
         \/ RecordExpires(l)
         \/ MutexExpires(l)
         \/ Cancel(l)
         \/ Crash(l)
    \/ IndexExpires

Next ==
    \/ \E c \in Call : CallStep(c) \/ RemovalStep(c)
    \/ Environment

Spec == Init /\ [][Next]_vars

-----------------------------------------------------------------------------
(* What the store promises *)

\* store.go:143 AddPlayer is written as a critical section per lobby.  While
\* no lock outlives its lease, two calls are never inside it for one lobby.
MutualExclusion ==
    \A c, d \in Call :
        (c # d /\ InCS(c) /\ InCS(d)) => target[c] # target[d]

\* A record that can be read is one that AddLobby and AddPlayer built: its
\* creator sits first, its version counts its seats without having wrapped
\* around, equals the version key, and nobody was seated beyond the maximum.
\* It holds whatever fails (store.go:178, models.go:26).
RecordsWellFormed ==
    \A l \in Call :
        IF record[l] = NoLobby THEN version[l] = 0
        ELSE /\ Len(record[l].players) >= 1
             /\ record[l].players[1] = l
             /\ record[l].version = Len(record[l].players)
             /\ version[l] = record[l].version
             /\ \/ Len(record[l].players) = 1
                \/ Len(record[l].players) <= record[l].max

\* A call has one seat at most in a lobby, although AddPlayer appends without
\* looking and an applied write may be reported as failed: the handler never
\* tries a lobby twice (handler.go:119).  A player that is on a roster twice
\* has called twice.
NoDoubleSeat ==
    \A l \in Call : record[l] # NoLobby =>
        \A i, j \in DOMAIN record[l].players :
            record[l].players[i] = record[l].players[j] => i = j

\* A call is on two rosters only if AddPlayer wrote it on one of them and then
\* returned an error, because the record's reply was lost or the index's slot
\* failed: nothing else puts it in a second lobby, neither the lobbies that
\* refused it, nor another call's copy, nor the lobby it makes in the end
\* (handler.go:118, store.go:207).
OneLobbyPerCall ==
    \A k, l, c \in Call :
        (/\ record[k] # NoLobby /\ c \in Seated(record[k])
         /\ record[l] # NoLobby /\ c \in Seated(record[l]))
        => k = l \/ misled[c]

\* A call that AddLobby or AddPlayer reported as seated is on the stored
\* roster for as long as there is one: no later write drops it, neither
\* another joiner's nor the creator's (store.go:143-176).  It holds as long as
\* no transaction is refused or loses its reply and no lock is outlived.
NoLostJoin ==
    \A l \in Call :
        record[l] # NoLobby => acked[l] \subseteq Seated(record[l])

\* A lobby whose removal has returned and that is absent stays absent: a
\* started or expired lobby is over (state.go:139 "Lobby removed").
RemovedStaysRemoved ==
    [][\A l \in Call :
        (removed[l] /\ removing[l] = {} /\ record[l] = NoLobby)
            => record'[l] = NoLobby]_vars

\* The clean-up of broken references cleans one up: some id that has no
\* record leaves the index (store.go:342).
CleanUpCleans ==
    [][\A c \in Call :
        (CleanMissing(c) /\ ~cancelled[c] /\ ids[c] \subseteq index
            /\ \A l \in ids[c] : record[l] = NoLobby)
            => \E l \in ids[c] : l \notin index']_vars

\* The set of open lobbies does not expire under a lobby that is still
\* waiting for players: one that is neither removed nor out of time
\* (store.go:72 and 211; lobby.pb.go:30 "Lobby is waiting another players").
ListingOutlivesLobbies ==
    [][IndexExpires =>
        \A l \in index : record[l] # NoLobby => lease[l] # "running"]_vars
=============================================================================
