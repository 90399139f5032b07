------------------------- MODULE ProtocolStoreZones -------------------------
(***************************************************************************)
(* The zone transactions of SignalProtocolStore (ts/SignalProtocolStore.ts):*)
(* `withZone`, its re-entrant lock and wait queue, the pending maps, and   *)
(* the commit and revert of what was written while the zone was held.      *)
(*                                                                         *)
(* Every method of the store runs inside withZone(zone, name, body).  One  *)
(* element of Calls is one such invocation: the batch of MessageReceiver   *)
(* (a body that awaits other calls), a storeSession, a saveSenderKey, a    *)
(* removeSession.  A step below ends where the code awaits.                *)
(***************************************************************************)
EXTENDS Naturals, Sequences, FiniteSets

CONSTANTS
    Calls,          \* invocations of withZone
    Zones,          \* Zone objects, one per batch, and the default zone
    GlobalZone,     \* GLOBAL_ZONE: supports no pending maps
    Keys,           \* ids of the records kept: a session, an unprocessed row...
    CachedKeys,     \* the sessions and sender keys, also kept in memory
    Nobody,         \* no call, no zone, no record
    ZoneOf,         \* the zone argument of each call
    Parent,         \* the call whose body makes this one, or Nobody
    Final,          \* the calls a body makes once the others have settled
    Kind,           \* what the body does
    KeyOf,          \* the record a writing call writes
    DbMayFail,      \* the SQL channel may reject or time out
    TasksMayTimeOut \* createTaskWithTimeout and PQueue may give up on a call

Kinds == {"body", "store", "saveKey", "removeSession", "removeAllSessions"}
Removals == {"removeSession", "removeAllSessions"}

ASSUME CallsAssumption ==
    /\ IsFiniteSet(Calls)
    /\ Nobody \notin Calls \cup Zones
    /\ GlobalZone \in Zones
    /\ ZoneOf \in [Calls -> Zones]
    /\ Kind \in [Calls -> Kinds]
    /\ KeyOf \in [Calls -> Keys]
    /\ CachedKeys \subseteq Keys
    /\ \A c \in Calls : Kind[c] \in Removals => KeyOf[c] \in CachedKeys
    /\ Parent \in [Calls -> Calls \cup {Nobody}]
    /\ Final \subseteq {c \in Calls : Parent[c] # Nobody}
    /\ Nobody \notin Keys
    /\ DbMayFail \in BOOLEAN
    /\ TasksMayTimeOut \in BOOLEAN

\* Each body names its own zone in the calls it makes, and a call is made by one
\* that was made before.  removeSession and removeAllSessions name GLOBAL_ZONE.  A
\* Zone with pending maps is made for one withZone (decryptAndCacheBatch).
ASSUME NestingAssumption ==
    /\ \A c \in Calls : Parent[c] # Nobody =>
          ZoneOf[c] = ZoneOf[Parent[c]] /\ Kind[Parent[c]] = "body"
    /\ \A S \in SUBSET Calls : S # {} => \E c \in S : Parent[c] \notin S
    /\ \A c \in Calls : Kind[c] \in Removals => ZoneOf[c] = GlobalZone
    /\ \A c, d \in Calls :
          Parent[c] = Nobody /\ Parent[d] = Nobody /\ ZoneOf[c] = ZoneOf[d] =>
             c = d \/ ZoneOf[c] = GlobalZone

VARIABLES
    pc,           \* where each call is
    currentZone,  \* this.currentZone
    currentZoneDepth,
    zoneQueue,    \* this.zoneQueue: calls waiting for another zone to be left
    pending,      \* the three pending maps: the write they hold of each record
    inFlight,     \* what each committing call has handed to commitDecryptResult
    dbQueue,      \* SQL jobs sent and not answered: the SQL worker is serial
    cache,        \* the maps kept in memory: who wrote each record
    db,           \* the tables: who wrote each record
    durable,      \* history: the writes that have reached the tables
    abandoned     \* history: the calls a timed-out caller stopped waiting for

lockVars == <<currentZone, currentZoneDepth, zoneQueue>>
dataVars == <<pending, inFlight, dbQueue, cache, db, durable>>
vars == <<pc, currentZone, currentZoneDepth, zoneQueue, pending, inFlight,
          dbQueue, cache, db, durable, abandoned>>

\* The states of a call that has entered the zone and not left it.  "stuck" is
\* a call whose own commit was rejected: see CommitRejected.
Entered == {"body", "innerCommit", "removing", "ran", "threw", "committing",
            "committed", "reverted", "stuck"}
Settled == {"done", "failed", "stuck"}
PC == {"idle", "queued"} \cup Entered \cup Settled

InZone == {c \in Calls : pc[c] \in Entered}
Children(p) == {c \in Calls : Parent[c] = p}
Pends(c) == ZoneOf[c] # GlobalZone
Writes(c) == Kind[c] \in {"store", "saveKey"}

NothingPending == [k \in Keys |-> Nobody]

\* The map m after the writes of a pending map.
Apply(m, writes) ==
    [k \in DOMAIN m |-> IF writes[k] = Nobody THEN m[k] ELSE writes[k]]
Written(writes) == {writes[k] : k \in Keys} \ {Nobody}

Init ==
    /\ pc = [c \in Calls |-> "idle"]
    /\ currentZone = Nobody
    /\ currentZoneDepth = 0
    /\ zoneQueue = <<>>
    /\ pending = NothingPending
    /\ inFlight = [c \in Calls |-> NothingPending]
    /\ dbQueue = <<>>
    /\ cache = [k \in CachedKeys |-> Nobody]
    /\ db = [k \in Keys |-> Nobody]
    /\ durable = {}
    /\ abandoned = {}

-----------------------------------------------------------------------------
(* Entering and leaving the zone *)

AtRest(c) == pc[c] \in {"idle"} \cup Settled
GivenUp(c) == AtRest(c) \/ c \in abandoned

\* A body makes its calls while it runs, the final one when the others are over.
\* A call that its caller gave up on is made behind the rejected promise.
MayCall(c) ==
    \/ Parent[c] = Nobody
    \/ c \in abandoned
    \/ /\ Parent[c] # Nobody
       /\ pc[Parent[c]] = "body"
       /\ IF c \in Final
          THEN \A d \in Children(Parent[c]) \ {c} : GivenUp(d)
          ELSE \A d \in Children(Parent[c]) \cap Final : pc[d] = "idle"

MustWait(c) == currentZone # Nobody /\ currentZone # ZoneOf[c]

\* enterZone
Enter(c) ==
    /\ currentZone' = ZoneOf[c]
    /\ currentZoneDepth' = currentZoneDepth + 1
    /\ pc' = [pc EXCEPT ![c] = "body"]

Wait(c) ==
    /\ pc[c] = "idle"
    /\ MayCall(c)
    /\ MustWait(c)
    /\ zoneQueue' = Append(zoneQueue, c)
    /\ pc' = [pc EXCEPT ![c] = "queued"]
    /\ UNCHANGED <<currentZone, currentZoneDepth, dataVars, abandoned>>

EnterNow(c) ==
    /\ pc[c] = "idle"
    /\ MayCall(c)
    /\ ~MustWait(c)
    /\ Enter(c)
    /\ UNCHANGED <<zoneQueue, dataVars, abandoned>>

WakesWholeQueue(n) == n = Len(zoneQueue)   \* mutant

WakesAllButLast(n) ==   \* mutant: the last of several is dropped
    /\ \A i \in 1 .. n : ZoneOf[zoneQueue[i]] = ZoneOf[zoneQueue[1]]
    /\ n < Len(zoneQueue)

\* leaveZone wakes the head of the queue and those right behind it that want
\* the same zone: the first n of them.
WakesFirst(n) ==
    /\ \A i \in 1 .. n : ZoneOf[zoneQueue[i]] = ZoneOf[zoneQueue[1]]
    /\ n < Len(zoneQueue) => ZoneOf[zoneQueue[n + 1]] # ZoneOf[zoneQueue[1]]

HandOverUncounted(c, end, woken) ==   \* mutant: the depth is one too low
    /\ pc' = [d \in Calls |-> IF d = c THEN end
                              ELSE IF d \in woken THEN "body" ELSE pc[d]]
    /\ currentZoneDepth' = Cardinality(woken) - 1

\* The outermost user leaves: the zone goes to the calls woken, who enter
\* before anything else runs.
HandOver(c, end, woken) ==
    /\ pc' = [d \in Calls |-> IF d = c THEN end
                              ELSE IF d \in woken THEN "body" ELSE pc[d]]
    /\ currentZoneDepth' = Cardinality(woken)

\* Another user remains.
StepOut(c, end) ==
    /\ currentZoneDepth' = currentZoneDepth - 1
    /\ pc' = [pc EXCEPT ![c] = end]
    /\ UNCHANGED <<currentZone, zoneQueue>>

LeaveZone(c, end) ==
    \/ /\ currentZoneDepth # 1
       /\ StepOut(c, end)
    \/ /\ currentZoneDepth = 1
       /\ zoneQueue = <<>>
       /\ HandOver(c, end, {})
       /\ currentZone' = Nobody
       /\ UNCHANGED zoneQueue
    \/ /\ currentZoneDepth = 1
       /\ \E n \in 1 .. Len(zoneQueue) :
            /\ WakesFirst(n)
            /\ HandOver(c, end, {zoneQueue[i] : i \in 1 .. n})
            /\ currentZone' = ZoneOf[zoneQueue[1]]
            /\ zoneQueue' = SubSeq(zoneQueue, n + 1, Len(zoneQueue))

-----------------------------------------------------------------------------
(* Bodies *)

\* storeSession, saveSenderKey, addUnprocessed, addMultipleUnprocessed: put the
\* record in the pending map; a zone without pending support commits at once.
Write(c) ==
    /\ pc[c] = "body"
    /\ Writes(c)
    /\ LET merged == [pending EXCEPT ![KeyOf[c]] = c]
       IN  IF Pends(c)
           THEN /\ pending' = merged
                /\ pc' = [pc EXCEPT ![c] = "ran"]
                /\ UNCHANGED <<inFlight, dbQueue>>
           ELSE /\ inFlight' = [inFlight EXCEPT ![c] = merged]
                /\ pending' = NothingPending
                /\ dbQueue' = Append(dbQueue, c)
                /\ pc' = [pc EXCEPT ![c] = "innerCommit"]
    /\ UNCHANGED <<lockVars, cache, db, durable, abandoned>>

Forget(k) ==
    /\ cache' = [cache EXCEPT ![k] = Nobody]
    /\ pending' = [pending EXCEPT ![k] = Nobody]

\* removeSession deletes the row first, removeAllSessions the maps first.
SendRemove(c) ==
    /\ pc[c] = "body"
    /\ Kind[c] \in Removals
    /\ IF Kind[c] = "removeAllSessions" /\ cache[KeyOf[c]] # Nobody
       THEN Forget(KeyOf[c])
       ELSE UNCHANGED <<cache, pending>>
    /\ dbQueue' = Append(dbQueue, c)
    /\ pc' = [pc EXCEPT ![c] = "removing"]
    /\ UNCHANGED <<lockVars, inFlight, db, durable, abandoned>>

\* The SQL worker runs its jobs one by one and answers in order.
Answered(c) ==
    /\ dbQueue # <<>> /\ Head(dbQueue) = c
    /\ dbQueue' = Tail(dbQueue)

RemovedFromTableOnly(c) ==   \* mutant: the maps keep the session
    /\ pc[c] = "removing"
    /\ Answered(c)
    /\ db' = [db EXCEPT ![KeyOf[c]] = Nobody]
    /\ pc' = [pc EXCEPT ![c] = "ran"]
    /\ UNCHANGED <<lockVars, cache, pending, inFlight, durable, abandoned>>

Removed(c) ==
    /\ pc[c] = "removing"
    /\ Answered(c)
    /\ db' = [db EXCEPT ![KeyOf[c]] = Nobody]
    /\ IF Kind[c] = "removeSession" THEN Forget(KeyOf[c])
       ELSE UNCHANGED <<cache, pending>>
    /\ pc' = [pc EXCEPT ![c] = "ran"]
    /\ UNCHANGED <<lockVars, inFlight, durable, abandoned>>

\* A rejected job may have run all the same (a timeout).  removeSession logs
\* the error, removeAllSessions throws it.
RemoveRejected(c) ==
    /\ DbMayFail
    /\ pc[c] = "removing"
    /\ Answered(c)
    /\ db' \in {db, [db EXCEPT ![KeyOf[c]] = Nobody]}
    /\ pc' = [pc EXCEPT ![c] = IF Kind[c] = "removeSession" THEN "ran"
                               ELSE "threw"]
    /\ UNCHANGED <<lockVars, pending, inFlight, cache, durable, abandoned>>

\* A body that awaits other calls ends when each of them has settled or been
\* given up on, the final one being made first if it is to resolve; it may
\* throw for a reason of its own.
EndBody(c, end) ==
    /\ pc[c] = "body"
    /\ Kind[c] = "body"
    /\ \A d \in Children(c) : GivenUp(d)
    /\ end = "ran" => \A d \in Children(c) \cap Final : pc[d] = "done"
    /\ pc' = [pc EXCEPT ![c] = end]
    /\ UNCHANGED <<lockVars, dataVars, abandoned>>

\* createTaskWithTimeout around the caller's await, or the PQueue timeout of a
\* session queue: the caller sees a rejection, the call itself runs on.
GiveUp(c) ==
    /\ TasksMayTimeOut
    /\ Parent[c] # Nobody
    /\ c \notin Final \cup abandoned
    /\ pc[c] \notin Settled
    /\ pc[Parent[c]] = "body"
    /\ \A d \in Children(Parent[c]) \cap Final : pc[d] = "idle"
    /\ abandoned' = abandoned \cup {c}
    /\ UNCHANGED <<pc, lockVars, dataVars>>

-----------------------------------------------------------------------------
(* The end of withZone *)

HasLeftZone == currentZoneDepth = 0   \* mutant: asked after leaving
IsInTopLevelZone == currentZoneDepth = 1

\* The body resolved.  The outermost user commits what is pending; anyone else
\* just leaves.
StartCommit(c) ==
    /\ pc[c] = "ran"
    /\ IsInTopLevelZone
    /\ pending # NothingPending
    /\ inFlight' = [inFlight EXCEPT ![c] = pending]
    /\ pending' = NothingPending
    /\ dbQueue' = Append(dbQueue, c)
    /\ pc' = [pc EXCEPT ![c] = "committing"]
    /\ UNCHANGED <<lockVars, cache, db, durable, abandoned>>

NothingToCommit(c) ==
    /\ pc[c] = "ran"
    /\ IsInTopLevelZone
    /\ pending = NothingPending
    /\ pc' = [pc EXCEPT ![c] = "committed"]
    /\ UNCHANGED <<lockVars, dataVars, abandoned>>

ReturnInner(c) ==
    /\ pc[c] = "ran"
    /\ ~IsInTopLevelZone
    /\ StepOut(c, "done")
    /\ UNCHANGED <<dataVars, abandoned>>

\* The body threw: the outermost user runs revertZoneChanges.
Revert(c) ==
    /\ pc[c] = "threw"
    /\ IsInTopLevelZone
    /\ pending' = NothingPending
    /\ pc' = [pc EXCEPT ![c] = "reverted"]
    /\ UNCHANGED <<lockVars, inFlight, dbQueue, cache, db, durable, abandoned>>

ThrowInner(c) ==
    /\ pc[c] = "threw"
    /\ ~IsInTopLevelZone
    /\ StepOut(c, "failed")
    /\ UNCHANGED <<dataVars, abandoned>>

\* The await of commitZoneChanges or of revertZoneChanges resumes.
Leave(c) ==
    /\ pc[c] \in {"committed", "reverted"}
    /\ LeaveZone(c, IF pc[c] = "committed" THEN "done" ELSE "failed")
    /\ UNCHANGED <<dataVars, abandoned>>

\* Where a call goes on when its SQL transaction has run.
Resumed(c) == IF pc[c] = "innerCommit" THEN "ran" ELSE "committed"

\* The SQL transaction of commitDecryptResult ran: then, and only then, the
\* maps in memory are changed.
CommitDone(c) ==
    /\ pc[c] \in {"innerCommit", "committing"}
    /\ Answered(c)
    /\ db' = Apply(db, inFlight[c])
    /\ cache' = Apply(cache, inFlight[c])
    /\ durable' = durable \cup Written(inFlight[c])
    /\ inFlight' = [inFlight EXCEPT ![c] = NothingPending]
    /\ pc' = [pc EXCEPT ![c] = Resumed(c)]
    /\ UNCHANGED <<lockVars, pending, abandoned>>

\* The SQL job was rejected, or timed out and ran all the same.  Inside a body
\* storeSession rethrows and saveSenderKey logs.  At the top level the
\* rejection leaves withZone between its try block and leaveZone.
CommitRejected(c) ==
    /\ DbMayFail
    /\ pc[c] \in {"innerCommit", "committing"}
    /\ Answered(c)
    /\ \/ UNCHANGED <<db, durable>>
       \/ /\ db' = Apply(db, inFlight[c])
          /\ durable' = durable \cup Written(inFlight[c])
    /\ inFlight' = [inFlight EXCEPT ![c] = NothingPending]
    /\ pc' = [pc EXCEPT ![c] = IF pc[c] = "committing" THEN "stuck"
                               ELSE IF Kind[c] = "store" THEN "threw"
                               ELSE "ran"]
    /\ UNCHANGED <<lockVars, pending, cache, abandoned>>

-----------------------------------------------------------------------------
Progress(c) ==
    \/ Write(c)
    \/ SendRemove(c)
    \/ Removed(c)
    \/ EndBody(c, "ran")
    \/ StartCommit(c)
    \/ NothingToCommit(c)
    \/ ReturnInner(c)
    \/ Revert(c)
    \/ ThrowInner(c)
    \/ Leave(c)
    \/ CommitDone(c)

Next ==
    \E c \in Calls :
        \/ Wait(c)
        \/ EnterNow(c)
        \/ Progress(c)
        \/ EndBody(c, "threw")
        \/ RemoveRejected(c)
        \/ CommitRejected(c)
        \/ GiveUp(c)

Spec == Init /\ [][Next]_vars

\* A body that has entered goes on: each await in it is of a promise that
\* settles (a child, an SQL job), by its own end or by the two-minute timers.
Fairness ==
    \A c \in Calls :
        /\ WF_vars(Progress(c))
        /\ WF_vars(EndBody(c, "threw"))

FairSpec == Spec /\ Fairness

-----------------------------------------------------------------------------
(* Properties *)

TypeOK ==
    /\ pc \in [Calls -> PC]
    /\ currentZone \in Zones \cup {Nobody}
    /\ currentZoneDepth \in Nat
    /\ zoneQueue \in Seq(Calls)
    /\ pending \in [Keys -> Calls \cup {Nobody}]
    /\ inFlight \in [Calls -> [Keys -> Calls \cup {Nobody}]]
    /\ dbQueue \in Seq(Calls)
    /\ cache \in [CachedKeys -> Calls \cup {Nobody}]
    /\ db \in [Keys -> Calls \cup {Nobody}]
    /\ durable \subseteq Calls
    /\ abandoned \subseteq Calls

\* Only calls of one zone are past enterZone at any time, the depth counts them
\* and the zone is free exactly when there is none: the asserts of enterZone and
\* leaveZone never fail, even with calls running behind a timeout.
ZoneMutex ==
    /\ \A c \in InZone : ZoneOf[c] = currentZone
    /\ currentZoneDepth = Cardinality(InZone)
    /\ currentZone = Nobody <=> InZone = {}

\* Every waiting call is in zoneQueue once, nothing waits for a free zone, and
\* the head never waits for the zone that is held: a wakeup is neither lost nor
\* given twice by leaveZone.
NoLostWakeup ==
    /\ \A c \in Calls :
          pc[c] = "queued" <=> \E i \in 1 .. Len(zoneQueue) : zoneQueue[i] = c
    /\ \A i, j \in 1 .. Len(zoneQueue) : zoneQueue[i] = zoneQueue[j] => i = j
    /\ zoneQueue # <<>> =>
          currentZone # Nobody /\ ZoneOf[zoneQueue[1]] # currentZone

\* The stores made for the transaction that r opened.
TransactionOf(r) == {c \in Calls : Writes(c) /\ ZoneOf[c] = ZoneOf[r]}
Roots == {c \in Calls : Parent[c] = Nobody /\ Pends(c)}
StoredBy(r) ==
    {c \in TransactionOf(r) : pc[c] \notin {"idle", "queued", "body"}}

\* The records those stores wrote of which one is in the tables.
KeysReached(r) == {KeyOf[c] : c \in durable \cap TransactionOf(r)}
KeysStored(r) == {KeyOf[c] : c \in StoredBy(r)}

\* "pending session stores are batched into the database" or "reverted" (the
\* comment before withZone): sessions, sender keys and envelopes stored in one
\* transaction reach the tables all together or not at all, all of them when it
\* resolved and none when it threw.
AllOrNothing ==
    abandoned = {} =>
        \A r \in Roots :
            /\ KeysReached(r) \in {{}, KeysStored(r)}
            /\ pc[r] = "done" => KeysReached(r) = KeysStored(r)
            /\ pc[r] \in {"threw", "reverted", "failed"} => KeysReached(r) = {}

RemovesAllOf(k) ==
    {c \in Calls : Kind[c] = "removeAllSessions" /\ KeyOf[c] = k}

\* With a sound database, a session or sender key is the same in memory and in
\* its table.  Only removeAllSessions parts them, and then one of the two holds
\* nothing: memory while the removal runs, the table if a store was committed
\* meanwhile.  Memory never has one session and the table another.
CacheMatchesDb ==
    ~DbMayFail =>
        \A k \in CachedKeys :
            \/ cache[k] = db[k]
            \/ /\ cache[k] = Nobody
               /\ \E c \in RemovesAllOf(k) : pc[c] = "removing"
            \/ /\ db[k] = Nobody
               /\ \E c \in RemovesAllOf(k) : pc[c] # "idle"

Stuck == \E c \in Calls : pc[c] = "stuck"

\* A call waiting for the zone is served and settles, unless the commit of the
\* transaction that holds the zone was rejected.
WaitersAreServed ==
    \A c \in Calls : pc[c] = "queued" ~> pc[c] \in Settled \/ Stuck

(* What the comments say and the code does not do *)

\* "Leave the zone and yield to another one only if there are no active zone
\* users anymore" (leaveZone): a zone that is held has a user still at work.
HeldOnlyByActiveUsers ==
    currentZone # Nobody => \E c \in InZone : pc[c] # "stuck"

=============================================================================
