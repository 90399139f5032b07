---------------------- MODULE ProtocolStoreZonesProofs ----------------------
(***************************************************************************)
(* Theorems about ProtocolStoreZones, for every set of calls, zones and    *)
(* records: its types, that withZone is a lock, that memory follows the    *)
(* tables, and that what is stored in a zone is committed as one.          *)
(***************************************************************************)
EXTENDS ProtocolStoreZones, FiniteSetTheorems, TLAPS

USE DEF PC, Entered, Settled

-----------------------------------------------------------------------------
(* The lock: what the four variables of withZone keep *)

LockType ==
    /\ pc \in [Calls -> PC]
    /\ currentZone \in Zones \cup {Nobody}
    /\ currentZoneDepth \in Nat
    /\ zoneQueue \in Seq(Calls)

Lock == LockType /\ ZoneMutex /\ NoLostWakeup

LEMMA CallsFinite == IsFiniteSet(InZone) /\ Cardinality(InZone) \in Nat
  BY CallsAssumption, FS_Subset, FS_CardinalityType DEF InZone

\* A call in the zone is counted.
LEMMA InZoneCounted ==
  ASSUME Lock, NEW c \in InZone
  PROVE  currentZoneDepth > 0 /\ currentZone = ZoneOf[c]
<1>1. Cardinality(InZone) # 0
  BY CallsFinite, FS_EmptySet
<1> QED
  BY <1>1, CallsFinite DEF Lock, ZoneMutex

\* A step that moves one call within the zone keeps the lock.
LEMMA StayInZone ==
  ASSUME Lock, NEW c \in Calls, NEW p \in PC, pc[c] \in Entered, p \in Entered,
         pc' = [pc EXCEPT ![c] = p], UNCHANGED lockVars
  PROVE  Lock'
<1>1. InZone' = InZone
  BY DEF Lock, LockType, InZone
<1> QED
  BY <1>1 DEF Lock, LockType, ZoneMutex, NoLostWakeup, lockVars

LEMMA EnterKeepsLock ==
  ASSUME Lock, NEW c \in Calls, pc[c] = "idle", ~MustWait(c), Enter(c),
         UNCHANGED zoneQueue
  PROVE  Lock'
<1>1. InZone' = InZone \cup {c} /\ c \notin InZone
  BY DEF Lock, LockType, InZone, Enter
<1>2. Cardinality(InZone') = currentZoneDepth + 1
  BY <1>1, CallsFinite, FS_AddElement DEF Lock, ZoneMutex
<1>3. LockType'
  <2>1. ZoneOf[c] \in Zones
    BY CallsAssumption
  <2> QED
    BY <2>1 DEF Lock, LockType, Enter
<1>4. ZoneMutex'
  BY <1>1, <1>2, CallsAssumption DEF Lock, ZoneMutex, MustWait, Enter
<1>5. NoLostWakeup'
  BY CallsAssumption DEF Lock, LockType, NoLostWakeup, MustWait, Enter
<1> QED
  BY <1>3, <1>4, <1>5 DEF Lock

LEMMA WaitKeepsLock ==
  ASSUME Lock, NEW c \in Calls, Wait(c)
  PROVE  Lock'
<1> USE DEF Lock, LockType, Wait
<1>1. InZone' = InZone
  BY DEF InZone
<1>2. LockType'
  OBVIOUS
<1>3. ZoneMutex'
  BY <1>1 DEF ZoneMutex
<1>4. /\ Len(zoneQueue') = Len(zoneQueue) + 1
      /\ \A i \in 1 .. Len(zoneQueue) : zoneQueue'[i] = zoneQueue[i]
      /\ zoneQueue'[Len(zoneQueue) + 1] = c
  OBVIOUS
<1>5. \A i \in 1 .. Len(zoneQueue) : zoneQueue[i] # c /\ zoneQueue[i] \in Calls
  BY DEF NoLostWakeup
<1>6. ASSUME NEW d \in Calls
      PROVE  pc'[d] = "queued" <=>
                \E i \in 1 .. Len(zoneQueue') : zoneQueue'[i] = d
  <2>1. CASE d = c
    BY <2>1, <1>4
  <2>2. CASE d # c
    BY <2>2, <1>4 DEF NoLostWakeup
  <2> QED
    BY <2>1, <2>2
<1>7. \A i, j \in 1 .. Len(zoneQueue') : zoneQueue'[i] = zoneQueue'[j] => i = j
  BY <1>4, <1>5 DEF NoLostWakeup
<1>8. currentZone' # Nobody /\ ZoneOf[zoneQueue'[1]] # currentZone'
  <2>1. CASE zoneQueue = <<>>
    BY <2>1, <1>4 DEF MustWait
  <2>2. CASE zoneQueue # <<>>
    BY <2>2, <1>4 DEF NoLostWakeup, MustWait
  <2> QED
    BY <2>1, <2>2
<1> QED
  BY <1>2, <1>3, <1>6, <1>7, <1>8 DEF NoLostWakeup

\* The last user of a zone is the only call in it.
LEMMA LastUser ==
  ASSUME Lock, NEW c \in InZone, currentZoneDepth = 1
  PROVE  InZone = {c}
<1>1. PICK x : InZone = {x}
  BY CallsFinite, FS_Singleton DEF Lock, ZoneMutex
<1> QED
  BY <1>1

LEMMA StepOutKeepsLock ==
  ASSUME Lock, NEW c \in Calls, pc[c] \in Entered, NEW end \in {"done", "failed"},
         currentZoneDepth # 1, StepOut(c, end)
  PROVE  Lock'
<1> c \in InZone
  BY DEF InZone
<1>1. InZone' = InZone \ {c}
  BY DEF InZone, StepOut, Lock, LockType
<1>2. Cardinality(InZone') = currentZoneDepth - 1 /\ currentZoneDepth - 1 > 0
  <2>1. Cardinality(InZone \ {c}) = Cardinality(InZone) - 1
    BY CallsFinite, FS_RemoveElement
  <2>2. currentZoneDepth > 0 /\ currentZoneDepth \in Nat
    BY InZoneCounted DEF Lock, LockType
  <2> QED
    BY <1>1, <2>1, <2>2 DEF Lock, ZoneMutex
<1>3. InZone' # {}
  BY <1>2, FS_EmptySet
<1>4. LockType'
  BY <1>2 DEF Lock, LockType, StepOut
<1>5. ZoneMutex'
  BY <1>1, <1>2, <1>3, InZoneCounted, CallsAssumption
     DEF Lock, ZoneMutex, StepOut
<1>6. NoLostWakeup'
  BY DEF Lock, LockType, NoLostWakeup, StepOut
<1> QED
  BY <1>4, <1>5, <1>6 DEF Lock

\* The zone is handed over to the first n calls of the queue.
LEMMA HandOverKeepsLock ==
  ASSUME Lock, NEW c \in Calls, pc[c] \in Entered, NEW end \in {"done", "failed"},
         currentZoneDepth = 1,
         NEW n \in 1 .. Len(zoneQueue), WakesFirst(n),
         HandOver(c, end, {zoneQueue[i] : i \in 1 .. n}),
         currentZone' = ZoneOf[zoneQueue[1]],
         zoneQueue' = SubSeq(zoneQueue, n + 1, Len(zoneQueue))
  PROVE  Lock'
<1> DEFINE woken == {zoneQueue[i] : i \in 1 .. n}
<1> c \in InZone
  BY DEF InZone
<1> USE DEF Lock, LockType
<1>1. InZone = {c}
  BY LastUser
<1>2. \A i \in 1 .. Len(zoneQueue) :
         zoneQueue[i] \in Calls /\ pc[zoneQueue[i]] = "queued"
  BY DEF NoLostWakeup
<1>3. woken \subseteq Calls /\ zoneQueue[1] \in woken
  BY <1>2
<1>4. InZone' = woken
  BY <1>1, <1>2, <1>3 DEF InZone, HandOver
<1>5. Cardinality(woken) \in Nat
  BY <1>3, CallsAssumption, FS_Subset, FS_CardinalityType
<1>6. zoneQueue' \in Seq(Calls)
  BY <1>2
<1>7. LockType'
  BY <1>3, <1>5, <1>6, CallsAssumption DEF HandOver
<1>8. ZoneMutex'
  <2>1. \A d \in woken : ZoneOf[d] = currentZone'
    BY DEF WakesFirst
  <2>2. currentZone' # Nobody /\ woken # {}
    BY <1>3, CallsAssumption
  <2> QED
    BY <1>4, <1>5, <2>1, <2>2 DEF ZoneMutex, HandOver
<1>9. /\ Len(zoneQueue') = Len(zoneQueue) - n
      /\ \A i \in 1 .. Len(zoneQueue') : zoneQueue'[i] = zoneQueue[i + n]
  OBVIOUS
<1>10. ASSUME NEW d \in Calls
       PROVE  pc'[d] = "queued" <=>
                 \E i \in 1 .. Len(zoneQueue') : zoneQueue'[i] = d
  <2>1. ASSUME pc'[d] = "queued"
        PROVE  \E i \in 1 .. Len(zoneQueue') : zoneQueue'[i] = d
    <3>1. pc[d] = "queued" /\ d \notin woken
      BY <2>1 DEF HandOver
    <3>2. PICK j \in 1 .. Len(zoneQueue) : zoneQueue[j] = d
      BY <3>1 DEF NoLostWakeup
    <3>3. j > n
      BY <3>1, <3>2
    <3>4. j - n \in 1 .. Len(zoneQueue') /\ zoneQueue'[j - n] = d
      BY <3>2, <3>3, <1>9
    <3> QED
      BY <3>4
  <2>2. ASSUME NEW i \in 1 .. Len(zoneQueue'), zoneQueue'[i] = d
        PROVE  pc'[d] = "queued"
    <3>1. i + n \in 1 .. Len(zoneQueue) /\ zoneQueue[i + n] = d
      BY <2>2, <1>9
    <3>2. d \notin woken
      BY <3>1 DEF NoLostWakeup
    <3>3. pc[d] = "queued" /\ d # c
      BY <3>1, <1>2
    <3> QED
      BY <3>2, <3>3 DEF HandOver
  <2> QED
    BY <2>1, <2>2
<1>11. \A i, j \in 1 .. Len(zoneQueue') : zoneQueue'[i] = zoneQueue'[j] => i = j
  BY <1>9 DEF NoLostWakeup
<1>12. zoneQueue' # <<>> =>
          currentZone' # Nobody /\ ZoneOf[zoneQueue'[1]] # currentZone'
  <2>1. currentZone' # Nobody
    BY <1>3, CallsAssumption
  <2>2. ASSUME zoneQueue' # <<>> PROVE ZoneOf[zoneQueue'[1]] # currentZone'
    <3>1. Len(zoneQueue') > 0
      BY <2>2, <1>6
    <3>2. zoneQueue'[1] = zoneQueue[n + 1] /\ n < Len(zoneQueue)
      BY <3>1, <1>9
    <3> QED
      BY <3>2 DEF WakesFirst
  <2> QED
    BY <2>1, <2>2
<1> QED
  BY <1>7, <1>8, <1>10, <1>11, <1>12 DEF NoLostWakeup

LEMMA LeaveKeepsLock ==
  ASSUME Lock, NEW c \in Calls, pc[c] \in Entered, NEW end \in {"done", "failed"},
         LeaveZone(c, end)
  PROVE  Lock'
<1>1. CASE currentZoneDepth # 1 /\ StepOut(c, end)
  BY <1>1, StepOutKeepsLock
<1>2. ASSUME currentZoneDepth = 1, zoneQueue = <<>>, HandOver(c, end, {}),
             currentZone' = Nobody, UNCHANGED zoneQueue
      PROVE  Lock'
  <2> USE DEF Lock, LockType
  <2>1. InZone = {c}
    BY <1>2, LastUser DEF InZone
  <2>2. InZone' = {}
    BY <1>2, <2>1 DEF InZone, HandOver
  <2> QED
    BY <1>2, <2>2, FS_EmptySet DEF HandOver, ZoneMutex, NoLostWakeup
<1>3. ASSUME currentZoneDepth = 1, NEW n \in 1 .. Len(zoneQueue), WakesFirst(n),
             HandOver(c, end, {zoneQueue[i] : i \in 1 .. n}),
             currentZone' = ZoneOf[zoneQueue[1]],
             zoneQueue' = SubSeq(zoneQueue, n + 1, Len(zoneQueue))
      PROVE  Lock'
  BY <1>3, HandOverKeepsLock
<1> QED
  BY <1>1, <1>2, <1>3 DEF LeaveZone

-----------------------------------------------------------------------------
(* The types of the data *)

DataType ==
    /\ pending \in [Keys -> Calls \cup {Nobody}]
    /\ inFlight \in [Calls -> [Keys -> Calls \cup {Nobody}]]
    /\ dbQueue \in Seq(Calls)
    /\ cache \in [CachedKeys -> Calls \cup {Nobody}]
    /\ db \in [Keys -> Calls \cup {Nobody}]
    /\ durable \subseteq Calls
    /\ abandoned \subseteq Calls

LEMMA ApplyType ==
  ASSUME NEW w \in [Keys -> Calls \cup {Nobody}]
  PROVE  /\ Written(w) \subseteq Calls
         /\ \A m \in [Keys -> Calls \cup {Nobody}] :
               Apply(m, w) \in [Keys -> Calls \cup {Nobody}]
         /\ \A m \in [CachedKeys -> Calls \cup {Nobody}] :
               Apply(m, w) \in [CachedKeys -> Calls \cup {Nobody}]
  BY CallsAssumption DEF Apply, Written

LEMMA NothingPendingType == NothingPending \in [Keys -> Calls \cup {Nobody}]
  BY DEF NothingPending

LEMMA ForgetType ==
  ASSUME DataType, NEW c \in Calls, Forget(KeyOf[c])
  PROVE  /\ pending' \in [Keys -> Calls \cup {Nobody}]
         /\ cache' \in [CachedKeys -> Calls \cup {Nobody}]
  BY DEF DataType, Forget

\* Every step of a call keeps the types of the data.
LEMMA StepKeepsDataType ==
  ASSUME DataType, NEW c \in Calls
  PROVE  /\ Progress(c) => DataType'
         /\ RemoveRejected(c) => DataType'
         /\ CommitRejected(c) => DataType'
         /\ GiveUp(c) => DataType'
<1> USE DEF DataType, lockVars, dataVars
<1>0. /\ KeyOf[c] \in Keys
      /\ Append(dbQueue, c) \in Seq(Calls)
      /\ Answered(c) => dbQueue' \in Seq(Calls)
      /\ [db EXCEPT ![KeyOf[c]] = Nobody] \in [Keys -> Calls \cup {Nobody}]
      /\ inFlight[c] \in [Keys -> Calls \cup {Nobody}]
  <2>1. KeyOf[c] \in Keys
    BY CallsAssumption
  <2>2. Answered(c) => dbQueue' \in Seq(Calls)
    BY DEF Answered
  <2>3. [db EXCEPT ![KeyOf[c]] = Nobody] \in [Keys -> Calls \cup {Nobody}]
    BY <2>1
  <2> QED
    BY <2>1, <2>2, <2>3
<1>1. Write(c) => DataType'
  <2>1. [pending EXCEPT ![KeyOf[c]] = c] \in [Keys -> Calls \cup {Nobody}]
    BY <1>0
  <2>2. ASSUME NEW w \in [Keys -> Calls \cup {Nobody}]
        PROVE  [inFlight EXCEPT ![c] = w]
                  \in [Calls -> [Keys -> Calls \cup {Nobody}]]
    OBVIOUS
  <2>3. ASSUME Write(c), Pends(c) PROVE DataType'
    BY <2>1, <2>3 DEF Write
  <2>4. ASSUME Write(c), ~Pends(c) PROVE DataType'
    <3>1. /\ pending' = NothingPending
          /\ inFlight' = [inFlight EXCEPT ![c] = [pending EXCEPT ![KeyOf[c]] = c]]
          /\ dbQueue' = Append(dbQueue, c)
          /\ UNCHANGED <<cache, db, durable, abandoned>>
      BY <2>4 DEF Write
    <3>2. inFlight' \in [Calls -> [Keys -> Calls \cup {Nobody}]]
      BY <2>1, <2>2, <3>1
    <3> QED
      BY <1>0, <3>1, <3>2, NothingPendingType
  <2> QED
    BY <2>3, <2>4
<1>2. SendRemove(c) => DataType'
  <2> SUFFICES ASSUME SendRemove(c) PROVE DataType'
    OBVIOUS
  <2>1. /\ pending' \in [Keys -> Calls \cup {Nobody}]
        /\ cache' \in [CachedKeys -> Calls \cup {Nobody}]
    BY ForgetType DEF SendRemove
  <2> QED
    BY <1>0, <2>1 DEF SendRemove
<1>3. Removed(c) => DataType'
  BY <1>0, ForgetType DEF Removed
<1>4. RemoveRejected(c) => DataType'
  BY <1>0 DEF RemoveRejected
<1>5. EndBody(c, "ran") => DataType'
  BY DEF EndBody
<1>6. GiveUp(c) => DataType'
  BY DEF GiveUp
<1>7. StartCommit(c) => DataType'
  BY <1>0, NothingPendingType DEF StartCommit
<1>8. NothingToCommit(c) \/ ReturnInner(c) \/ ThrowInner(c) \/ Leave(c) => DataType'
  BY DEF NothingToCommit, ReturnInner, ThrowInner, Leave
<1>9. Revert(c) => DataType'
  BY NothingPendingType DEF Revert
<1>10. CommitDone(c) => DataType'
  BY <1>0, ApplyType, NothingPendingType DEF CommitDone
<1>11. CommitRejected(c) => DataType'
  BY <1>0, ApplyType, NothingPendingType DEF CommitRejected
<1> QED
  BY <1>1, <1>2, <1>3, <1>4, <1>5, <1>6, <1>7, <1>8, <1>9, <1>10, <1>11
  DEF Progress

-----------------------------------------------------------------------------
(* The invariant *)

\* TypeOK, ZoneMutex and NoLostWakeup are inductive together: that the depth
\* never falls below zero needs the count, and the count after a handover needs
\* the queue to hold each waiting call once.
IInv == DataType /\ Lock

LEMMA InitIInv == Init => IInv
<1> SUFFICES ASSUME Init PROVE IInv
  OBVIOUS
<1>1. InZone = {}
  BY DEF Init, InZone
<1>2. DataType
  BY NothingPendingType, CallsAssumption DEF Init, DataType
<1>3. LockType
  BY DEF Init, LockType
<1> QED
  BY <1>1, <1>2, <1>3, FS_EmptySet
  DEF Init, IInv, Lock, ZoneMutex, NoLostWakeup

\* A call that goes on inside the zone.
LEMMA ProgressKeepsLock ==
  ASSUME Lock, NEW c \in Calls, Progress(c)
  PROVE  Lock'
<1> USE DEF Lock, LockType
<1>1. CASE Write(c)
  <2>1. \E p \in {"ran", "innerCommit"} : pc' = [pc EXCEPT ![c] = p]
    BY <1>1 DEF Write
  <2> QED
    BY <1>1, <2>1, StayInZone DEF Write
<1>2. CASE SendRemove(c)
  BY <1>2, StayInZone DEF SendRemove
<1>3. CASE Removed(c)
  BY <1>3, StayInZone DEF Removed
<1>4. CASE EndBody(c, "ran")
  BY <1>4, StayInZone DEF EndBody
<1>5. CASE StartCommit(c)
  BY <1>5, StayInZone DEF StartCommit
<1>6. CASE NothingToCommit(c)
  BY <1>6, StayInZone DEF NothingToCommit
<1>7. CASE ReturnInner(c)
  BY <1>7, StepOutKeepsLock DEF ReturnInner, IsInTopLevelZone
<1>8. CASE Revert(c)
  BY <1>8, StayInZone DEF Revert
<1>9. CASE ThrowInner(c)
  BY <1>9, StepOutKeepsLock DEF ThrowInner, IsInTopLevelZone
<1>10. CASE Leave(c)
  <2>1. \E end \in {"done", "failed"} : LeaveZone(c, end)
    BY <1>10 DEF Leave
  <2> QED
    BY <1>10, <2>1, LeaveKeepsLock DEF Leave
<1>11. CASE CommitDone(c)
  <2>1. Resumed(c) \in {"ran", "committed"}
    BY DEF Resumed
  <2> QED
    BY <1>11, <2>1, StayInZone DEF CommitDone
<1> QED
  BY <1>1, <1>2, <1>3, <1>4, <1>5, <1>6, <1>7, <1>8, <1>9, <1>10, <1>11
  DEF Progress

LEMMA NextIInv == IInv /\ [Next]_vars => IInv'
<1> SUFFICES ASSUME IInv, [Next]_vars PROVE IInv'
  OBVIOUS
<1> USE DEF IInv
<1>1. CASE UNCHANGED vars
  BY <1>1 DEF vars, DataType, Lock, LockType, ZoneMutex, NoLostWakeup, InZone
<1>2. ASSUME NEW c \in Calls, Wait(c) PROVE IInv'
  BY <1>2, WaitKeepsLock DEF Wait, DataType, dataVars
<1>3. ASSUME NEW c \in Calls, EnterNow(c) PROVE IInv'
  BY <1>3, EnterKeepsLock DEF EnterNow, DataType, dataVars
<1>4. ASSUME NEW c \in Calls, Progress(c) PROVE IInv'
  BY <1>4, ProgressKeepsLock, StepKeepsDataType
<1>5. ASSUME NEW c \in Calls, EndBody(c, "threw") PROVE IInv'
  BY <1>5, StayInZone DEF EndBody, DataType, dataVars
<1>6. ASSUME NEW c \in Calls, RemoveRejected(c) PROVE IInv'
  <2>1. \E p \in {"ran", "threw"} : pc' = [pc EXCEPT ![c] = p]
    BY <1>6 DEF RemoveRejected
  <2> QED
    BY <1>6, <2>1, StayInZone, StepKeepsDataType DEF RemoveRejected
<1>7. ASSUME NEW c \in Calls, CommitRejected(c) PROVE IInv'
  <2>1. \E p \in {"stuck", "ran", "threw"} : pc' = [pc EXCEPT ![c] = p]
    BY <1>7 DEF CommitRejected
  <2> QED
    BY <1>7, <2>1, StayInZone, StepKeepsDataType DEF CommitRejected
<1>8. ASSUME NEW c \in Calls, GiveUp(c) PROVE IInv'
  BY <1>8, StepKeepsDataType
  DEF GiveUp, Lock, LockType, ZoneMutex, NoLostWakeup, InZone, lockVars
<1> QED
  BY <1>1, <1>2, <1>3, <1>4, <1>5, <1>6, <1>7, <1>8 DEF Next

LEMMA Invariance == Spec => []IInv
  BY InitIInv, NextIInv, PTL DEF Spec

-----------------------------------------------------------------------------
(* The theorems *)

\* The variables keep their types in every behaviour, whatever the calls do and
\* however the database fails: the depth of withZone in particular never
\* becomes negative.
THEOREM TypeCorrect == Spec => []TypeOK
<1>1. IInv => TypeOK
  BY DEF IInv, DataType, Lock, LockType, TypeOK
<1> QED
  BY <1>1, Invariance, PTL

\* withZone is a lock between zones, for any number of calls in any zones: those
\* past enterZone are all of the zone that is held, and counted.
THEOREM MutualExclusion == Spec => []ZoneMutex
<1>1. IInv => ZoneMutex
  BY DEF IInv, Lock
<1> QED
  BY <1>1, Invariance, PTL

\* leaveZone loses no waiting call and wakes none twice, and the head of the
\* queue never waits for its own zone.
THEOREM WakeupsAreKept == Spec => []NoLostWakeup
<1>1. IInv => NoLostWakeup
  BY DEF IInv, Lock
<1> QED
  BY <1>1, Invariance, PTL

-----------------------------------------------------------------------------
(* One step of one call *)

Step(c) ==
    \/ Wait(c)
    \/ EnterNow(c)
    \/ Progress(c)
    \/ EndBody(c, "threw")
    \/ RemoveRejected(c)
    \/ CommitRejected(c)

\* The other calls stay where they are, but for the waiting ones that Leave wakes.
LEMMA OthersStay ==
  ASSUME Lock, NEW c \in Calls, Step(c), NEW d \in Calls, d # c
  PROVE  \/ pc'[d] = pc[d]
         \/ pc[d] = "queued" /\ pc'[d] = "body" /\ Leave(c)
<1> USE DEF Lock, LockType
<1>1. CASE Leave(c)
  <2>1. PICK end \in {"done", "failed"} : LeaveZone(c, end)
    BY <1>1 DEF Leave
  <2>2. ASSUME NEW n \in 1 .. Len(zoneQueue),
               HandOver(c, end, {zoneQueue[i] : i \in 1 .. n})
        PROVE  pc'[d] = pc[d] \/ (pc[d] = "queued" /\ pc'[d] = "body")
    <3>1. \A i \in 1 .. Len(zoneQueue) :
             zoneQueue[i] \in Calls /\ pc[zoneQueue[i]] = "queued"
      BY DEF NoLostWakeup
    <3> QED
      BY <2>2, <3>1 DEF HandOver
  <2>3. StepOut(c, end) => pc'[d] = pc[d]
    BY DEF StepOut
  <2>4. HandOver(c, end, {}) => pc'[d] = pc[d]
    BY DEF HandOver
  <2> QED
    BY <1>1, <2>1, <2>2, <2>3, <2>4 DEF LeaveZone
<1>2. CASE Wait(c)
  BY <1>2 DEF Wait
<1>3. CASE EnterNow(c)
  BY <1>3 DEF EnterNow, Enter
<1>4. CASE RemoveRejected(c) \/ CommitRejected(c) \/ Removed(c) \/ CommitDone(c)
  BY <1>4 DEF RemoveRejected, CommitRejected, Removed, CommitDone
<1>5. CASE \E end \in {"ran", "threw"} : EndBody(c, end)
  BY <1>5 DEF EndBody
<1>6. CASE Write(c) \/ SendRemove(c)
  BY <1>6 DEF Write, SendRemove
<1>7. CASE StartCommit(c) \/ NothingToCommit(c) \/ Revert(c)
  BY <1>7 DEF StartCommit, NothingToCommit, Revert
<1>8. CASE ReturnInner(c) \/ ThrowInner(c)
  BY <1>8 DEF ReturnInner, ThrowInner, StepOut
<1> QED
  BY <1>1, <1>2, <1>3, <1>4, <1>5, <1>6, <1>7, <1>8 DEF Step, Progress

\* A call is made once and settles once.
LEMMA OwnMove ==
  ASSUME Lock, NEW c \in Calls, Step(c)
  PROVE  /\ pc[c] = "idle" => MayCall(c) /\ pc'[c] \in {"queued", "body"}
         /\ pc[c] # "idle" => /\ pc[c] # "queued" /\ ~AtRest(c)
                              /\ pc'[c] \notin {"idle", "queued", "body"}
         /\ pc'[c] = "removing" => SendRemove(c)
         /\ pc'[c] = "innerCommit" => Write(c) /\ ~Pends(c)
         /\ pc[c] = "body" => \/ Write(c)
                              \/ SendRemove(c)
                              \/ \E end \in {"ran", "threw"} : EndBody(c, end)
<1> USE DEF Lock, LockType, AtRest
<1>1. CASE Leave(c)
  <2>1. PICK end \in {"done", "failed"} : LeaveZone(c, end)
    BY <1>1 DEF Leave
  <2>2. pc'[c] = end
    BY <2>1 DEF LeaveZone, HandOver, StepOut
  <2> QED
    BY <1>1, <2>2 DEF Leave
<1>2. CASE Wait(c)
  BY <1>2 DEF Wait
<1>3. CASE EnterNow(c)
  BY <1>3 DEF EnterNow, Enter
<1>4. CASE RemoveRejected(c) \/ CommitRejected(c) \/ Removed(c) \/ CommitDone(c)
  BY <1>4 DEF RemoveRejected, CommitRejected, Removed, CommitDone, Resumed
<1>5. CASE \E end \in {"ran", "threw"} : EndBody(c, end)
  BY <1>5 DEF EndBody
<1>6. CASE Write(c) \/ SendRemove(c)
  BY <1>6 DEF Write, SendRemove
<1>7. CASE StartCommit(c) \/ NothingToCommit(c) \/ Revert(c)
  BY <1>7 DEF StartCommit, NothingToCommit, Revert
<1>8. CASE ReturnInner(c) \/ ThrowInner(c)
  BY <1>8 DEF ReturnInner, ThrowInner, StepOut
<1> QED
  BY <1>1, <1>2, <1>3, <1>4, <1>5, <1>6, <1>7, <1>8 DEF Step, Progress

-----------------------------------------------------------------------------
(* Memory and the tables *)

\* What memory and the table hold of one record.
Fits(k) ==
    \/ cache[k] = db[k]
    \/ cache[k] = Nobody /\ \E c \in RemovesAllOf(k) : pc[c] = "removing"
    \/ db[k] = Nobody /\ \E c \in RemovesAllOf(k) : pc[c] # "idle"

\* Which bodies wait for the database.
Places ==
    \A c \in Calls :
        /\ pc[c] = "removing" => Kind[c] \in Removals
        /\ pc[c] = "innerCommit" => ~Pends(c)

LEMMA StepKeepsPlaces ==
  ASSUME IInv, Places, NEW c \in Calls, Step(c)
  PROVE  Places'
<1> SUFFICES ASSUME NEW d \in Calls
             PROVE  /\ pc'[d] = "removing" => Kind[d] \in Removals
                    /\ pc'[d] = "innerCommit" => ~Pends(d)
  BY DEF Places, Pends
<1>1. CASE d # c
  BY <1>1, OthersStay DEF IInv, Places
<1>2. CASE d = c
  BY <1>2, OwnMove DEF IInv, SendRemove
<1> QED
  BY <1>1, <1>2

\* A step that leaves a record alone.
LEMMA UntouchedFits ==
  ASSUME IInv, NEW c \in Calls, Step(c), NEW k \in CachedKeys, Fits(k),
         cache'[k] = cache[k], db'[k] = db[k],
         pc[c] # "removing" \/ c \notin RemovesAllOf(k)
  PROVE  Fits(k)'
<1>1. \A d \in RemovesAllOf(k) :
         /\ pc[d] = "removing" => pc'[d] = "removing"
         /\ pc[d] # "idle" => pc'[d] # "idle"
  BY OthersStay, OwnMove DEF IInv, RemovesAllOf
<1>2. RemovesAllOf(k)' = RemovesAllOf(k)
  BY DEF RemovesAllOf
<1> QED
  BY <1>1, <1>2 DEF Fits

LEMMA StepKeepsFits ==
  ASSUME IInv, Places, ~DbMayFail, NEW c \in Calls, Step(c),
         NEW k \in CachedKeys, Fits(k)
  PROVE  Fits(k)'
<1> USE DEF IInv, DataType
<1> k \in Keys /\ KeyOf[c] \in Keys
  BY CallsAssumption
<1> RemovesAllOf(k)' = RemovesAllOf(k)
  BY DEF RemovesAllOf
<1>1. CASE CommitDone(c)
  <2>1. inFlight[c] \in [Keys -> Calls \cup {Nobody}]
    OBVIOUS
  <2>2. IF inFlight[c][k] = Nobody
        THEN cache'[k] = cache[k] /\ db'[k] = db[k]
        ELSE cache'[k] = db'[k]
    BY <1>1, <2>1 DEF CommitDone, Apply
  <2>3. pc[c] # "removing"
    BY <1>1 DEF CommitDone
  <2> QED
    BY <2>2, <2>3, UntouchedFits DEF Fits
<1>2. CASE Removed(c)
  <2>1. Kind[c] \in Removals
    BY <1>2 DEF Removed, Places
  <2>2. CASE KeyOf[c] # k
    <3>1. cache'[k] = cache[k] /\ db'[k] = db[k] /\ c \notin RemovesAllOf(k)
      BY <1>2, <2>2 DEF Removed, Forget, RemovesAllOf
    <3> QED
      BY <3>1, UntouchedFits
  <2>3. CASE KeyOf[c] = k /\ Kind[c] = "removeSession"
    BY <1>2, <2>3 DEF Removed, Forget, Fits
  <2>4. CASE KeyOf[c] = k /\ Kind[c] = "removeAllSessions"
    <3>1. c \in RemovesAllOf(k) /\ db'[k] = Nobody /\ pc'[c] # "idle"
      BY <1>2, <2>4 DEF Removed, RemovesAllOf, Lock, LockType
    <3> QED
      BY <3>1 DEF Fits
  <2> QED
    BY <2>1, <2>2, <2>3, <2>4 DEF Removals
<1>3. CASE SendRemove(c)
  <2>1. pc[c] # "removing" /\ pc'[c] = "removing" /\ db'[k] = db[k]
    BY <1>3 DEF SendRemove, Lock, LockType
  <2>2. CASE cache'[k] = cache[k]
    BY <2>1, <2>2, UntouchedFits
  <2>3. CASE cache'[k] # cache[k]
    <3>1. c \in RemovesAllOf(k) /\ cache'[k] = Nobody
      BY <1>3, <2>3 DEF SendRemove, Forget, RemovesAllOf
    <3> QED
      BY <2>1, <3>1 DEF Fits
  <2> QED
    BY <2>2, <2>3
<1>4. ASSUME UNCHANGED <<cache, db>>, pc[c] # "removing"
      PROVE  Fits(k)'
  BY <1>4, UntouchedFits
<1>5. CASE Wait(c) \/ EnterNow(c) \/ Write(c)
  BY <1>4, <1>5 DEF Wait, EnterNow, Write, dataVars
<1>6. CASE StartCommit(c) \/ NothingToCommit(c) \/ Revert(c)
  BY <1>4, <1>6 DEF StartCommit, NothingToCommit, Revert, dataVars
<1>7. CASE ReturnInner(c) \/ ThrowInner(c) \/ Leave(c)
  BY <1>4, <1>7 DEF ReturnInner, ThrowInner, Leave, dataVars
<1>8. CASE \E end \in {"ran", "threw"} : EndBody(c, end)
  BY <1>4, <1>8 DEF EndBody, dataVars
<1>9. ~RemoveRejected(c) /\ ~CommitRejected(c)
  BY DEF RemoveRejected, CommitRejected
<1> QED
  BY <1>1, <1>2, <1>3, <1>5, <1>6, <1>7, <1>8, <1>9 DEF Step, Progress

MInv == Places /\ (~DbMayFail => \A k \in CachedKeys : Fits(k))

LEMMA InitMInv == Init => MInv
  BY CallsAssumption DEF Init, MInv, Places, Fits

LEMMA NextMInv == IInv /\ MInv /\ [Next]_vars => MInv'
<1> SUFFICES ASSUME IInv, MInv, [Next]_vars PROVE MInv'
  OBVIOUS
<1>1. CASE UNCHANGED <<pc, cache, db>>
  BY <1>1 DEF MInv, Places, Fits, RemovesAllOf, Pends
<1>2. ASSUME NEW c \in Calls, Step(c) PROVE MInv'
  <2>1. Places'
    BY <1>2, StepKeepsPlaces DEF MInv
  <2>2. ~DbMayFail => \A k \in CachedKeys : Fits(k)'
    BY <1>2, StepKeepsFits DEF MInv
  <2> QED
    BY <2>1, <2>2 DEF MInv
<1>3. ASSUME NEW c \in Calls, GiveUp(c) PROVE MInv'
  BY <1>1, <1>3 DEF GiveUp, dataVars
<1> QED
  BY <1>1, <1>2, <1>3 DEF Next, Step, vars

\* For any calls, and any of them given up on: with a sound database, what memory
\* holds of a session or sender key is what its table holds, but for what
\* removeAllSessions took away from one of them.
THEOREM MemoryFollowsTables == Spec => []CacheMatchesDb
<1>1. MInv => CacheMatchesDb
  BY DEF MInv, Fits, CacheMatchesDb
<1>2. Spec => []MInv
  BY InitMInv, NextMInv, Invariance, PTL DEF Spec
<1> QED
  BY <1>1, <1>2, PTL

-----------------------------------------------------------------------------
(* Transactions *)

Ended == {"committing", "committed", "reverted", "stuck"}

\* A call is made and settles while the body that makes it runs, so that the root
\* of a transaction is its first call to enter and its last to leave.
Nested ==
    /\ \A c \in Calls : Parent[c] # Nobody /\ ~AtRest(c) => pc[Parent[c]] = "body"
    /\ \A r \in Roots, c \in Calls : ZoneOf[c] = ZoneOf[r] /\ c # r =>
          /\ pc[c] # "idle" => pc[r] \notin {"idle", "queued"}
          /\ ~AtRest(c) => pc[r] = "body"

\* The pending maps hold stores of the zone that is held, and nothing from the
\* moment its root commits or reverts; what is committed is of the committer's zone.
PendingFits ==
    /\ \A k \in Keys : pending[k] # Nobody =>
          /\ Writes(pending[k]) /\ KeyOf[pending[k]] = k
          /\ Pends(pending[k]) /\ ZoneOf[pending[k]] = currentZone
    /\ \A c \in Calls : Pends(c) /\ pc[c] \in Ended =>
          c \in Roots /\ pending = NothingPending
    /\ \A c \in Calls, k \in Keys : inFlight[c][k] # Nobody =>
          /\ Writes(inFlight[c][k]) /\ KeyOf[inFlight[c][k]] = k
          /\ ZoneOf[inFlight[c][k]] = ZoneOf[c]
          /\ Pends(c) => pc[c] = "committing"

\* Where the records stored in the transaction of r are, by where r is.
Keeps(r) ==
    /\ pc[r] \in {"idle", "queued"} => StoredBy(r) = {}
    /\ pc[r] \in {"body", "ran", "threw"} =>
          \A k \in Keys : pending[k] # Nobody <=> k \in KeysStored(r)
    /\ pc[r] = "committing" =>
          \A k \in Keys : inFlight[r][k] # Nobody <=> k \in KeysStored(r)
    /\ pc[r] \in {"committed", "done"} => KeysReached(r) = KeysStored(r)
    /\ pc[r] = "stuck" => KeysReached(r) \in {{}, KeysStored(r)}
    /\ pc[r] \notin {"committed", "done", "stuck"} => KeysReached(r) = {}

TInv ==
    /\ Places
    /\ abandoned = {} =>
          Nested /\ PendingFits /\ \A r \in Roots : Keeps(r)

\* What the steps below start from.
Whole == IInv /\ Places /\ abandoned = {} /\ Nested /\ PendingFits

LEMMA WithinZone ==
  ASSUME NEW r \in Roots, NEW c \in Calls, ZoneOf[c] = ZoneOf[r], c # r
  PROVE  /\ r \in Calls /\ Pends(r) /\ Pends(c)
         /\ Parent[c] \in Calls /\ Parent[c] # Nobody /\ Parent[c] # c
         /\ ZoneOf[Parent[c]] = ZoneOf[r]
         /\ c \notin Roots
<1>1. Parent[c] # c
  <2>1. {c} \in SUBSET Calls /\ {c} # {}
    OBVIOUS
  <2> QED
    BY <2>1, NestingAssumption
<1> QED
  BY <1>1, CallsAssumption, NestingAssumption DEF Roots, Pends

LEMMA ZoneHeld ==
  ASSUME IInv, NEW c \in Calls, pc[c] \in Entered
  PROVE  currentZone = ZoneOf[c] /\ ZoneOf[c] # Nobody
<1> QED
  BY CallsAssumption DEF IInv, Lock, ZoneMutex, InZone

\* The outermost user of a zone, past its body, is nobody's child.
LEMMA OutermostIsRoot ==
  ASSUME Whole, NEW c \in Calls, Pends(c), pc[c] \in Entered, pc[c] # "body",
         ~AtRest(c), currentZoneDepth = 1
  PROVE  c \in Roots
<1>1. ASSUME Parent[c] # Nobody PROVE FALSE
  <2>1. Parent[c] \in Calls /\ pc[Parent[c]] = "body"
    BY <1>1, CallsAssumption DEF Whole, Nested
  <2>2. InZone = {c}
    BY LastUser DEF Whole, IInv, InZone
  <2> QED
    BY <2>1, <2>2 DEF InZone
<1> QED
  BY <1>1 DEF Roots

\* A root past its body is alone in its zone.
LEMMA RootIsAlone ==
  ASSUME Whole, NEW r \in Roots, pc[r] \in Entered, pc[r] # "body"
  PROVE  InZone = {r} /\ currentZoneDepth = 1
<1>1. r \in Calls
  BY DEF Roots
<1>2. ASSUME NEW c \in InZone, c # r PROVE FALSE
  <2>1. c \in Calls /\ pc[c] \in Entered
    BY <1>2 DEF InZone
  <2>2. ZoneOf[c] = ZoneOf[r]
    BY <1>1, <2>1, ZoneHeld DEF Whole
  <2>3. Pends(c) /\ c \notin Roots
    BY <1>2, <2>1, <2>2, WithinZone
  <2>4. AtRest(c)
    BY <1>2, <2>1, <2>2 DEF Whole, Nested
  <2>5. pc[c] \in Ended
    BY <2>1, <2>4 DEF AtRest, Ended
  <2> QED
    BY <2>1, <2>3, <2>5 DEF Whole, PendingFits
<1>3. InZone = {r}
  BY <1>1, <1>2 DEF InZone
<1>4. Cardinality({r}) = 1
  BY FS_Singleton
<1> QED
  BY <1>3, <1>4 DEF Whole, IInv, Lock, ZoneMutex

\* Once the calls a root made are at rest, so is every call of its zone: the
\* others would each have a parent among themselves.
LEMMA AllAtRest ==
  ASSUME Whole, NEW r \in Roots, \A d \in Children(r) : AtRest(d),
         NEW c \in Calls, ZoneOf[c] = ZoneOf[r], c # r
  PROVE  AtRest(c)
<1> DEFINE S == {d \in Calls : ZoneOf[d] = ZoneOf[r] /\ d # r /\ ~AtRest(d)}
<1>1. ASSUME S # {} PROVE FALSE
  <2>1. S \in SUBSET Calls
    OBVIOUS
  <2>2. PICK d \in S : Parent[d] \notin S
    BY <1>1, <2>1, NestingAssumption
  <2>3. /\ d \in Calls /\ ZoneOf[d] = ZoneOf[r] /\ d # r /\ ~AtRest(d)
    BY <2>2
  <2>4. /\ Parent[d] \in Calls /\ Parent[d] # Nobody
        /\ ZoneOf[Parent[d]] = ZoneOf[r]
    BY <2>3, WithinZone
  <2>5. pc[Parent[d]] = "body"
    BY <2>3, <2>4 DEF Whole, Nested
  <2>6. Parent[d] = r
    BY <2>2, <2>4, <2>5 DEF AtRest
  <2> QED
    BY <2>3, <2>6 DEF Children
<1> QED
  BY <1>1

\* Nothing is pending while no zone, or one without pending maps, is held.
LEMMA NothingElsePending ==
  ASSUME Whole, currentZone \in {Nobody, GlobalZone}
  PROVE  pending = NothingPending
<1>1. ASSUME NEW k \in Keys PROVE pending[k] = Nobody
  <2>1. pending[k] # Nobody => pending[k] \in Calls /\ ZoneOf[pending[k]] \in Zones
    BY CallsAssumption DEF Whole, IInv, DataType
  <2> QED
    BY <2>1, CallsAssumption DEF Whole, PendingFits, Pends
<1> QED
  BY <1>1 DEF Whole, IInv, DataType, NothingPending

\* ... nor when a zone is left.
LEMMA LeftClean ==
  ASSUME Whole, NEW c \in Calls, pc[c] \in {"committed", "reverted"}
  PROVE  pending = NothingPending
<1>1. currentZone = ZoneOf[c]
  BY ZoneHeld DEF Whole
<1>2. CASE Pends(c)
  BY <1>2 DEF Whole, PendingFits, Ended
<1>3. CASE ~Pends(c)
  BY <1>1, <1>3, NothingElsePending DEF Pends
<1> QED
  BY <1>2, <1>3

\* A call is made from a body that runs.
LEMMA MadeInBody ==
  ASSUME Whole, NEW c \in Calls, Step(c), pc[c] = "idle", Parent[c] # Nobody
  PROVE  pc[Parent[c]] = "body"
  BY OwnMove DEF Whole, IInv, MayCall

LEMMA StepKeepsNested ==
  ASSUME Whole, NEW c \in Calls, Step(c)
  PROVE  Nested'
<1> USE DEF Whole, IInv
<1>1. ASSUME NEW d \in Calls, Parent[d] # Nobody, ~AtRest(d)'
      PROVE  pc'[Parent[d]] = "body"
  <2>1. pc[Parent[d]] = "body"
    <3>1. CASE d = c /\ pc[c] = "idle"
      BY <1>1, <3>1, MadeInBody
    <3>2. CASE d = c /\ pc[c] # "idle"
      BY <1>1, <3>2, OwnMove DEF Nested
    <3>3. CASE d # c
      BY <1>1, <3>3, OthersStay DEF Nested, AtRest
    <3> QED
      BY <3>1, <3>2, <3>3
  <2>2. Parent[d] \in Calls
    BY <1>1, CallsAssumption
  <2>3. CASE Parent[d] # c
    BY <2>1, <2>2, <2>3, OthersStay
  <2>4. CASE Parent[d] = c
    <3>1. Kind[c] = "body" /\ d # c
      <4>1. {d} \in SUBSET Calls /\ {d} # {}
        OBVIOUS
      <4> QED
        BY <1>1, <2>4, <4>1, NestingAssumption
    <3>2. PICK end \in {"ran", "threw"} : EndBody(c, end)
      BY <2>1, <2>4, <3>1, OwnMove DEF Write, SendRemove, Writes, Removals
    <3>3. AtRest(d)
      BY <2>4, <3>2 DEF EndBody, GivenUp, Children
    <3>4. AtRest(d)'
      BY <3>1, <3>3, OthersStay DEF AtRest
    <3> QED
      BY <1>1, <3>4
  <2> QED
    BY <2>3, <2>4
<1>2. ASSUME NEW r \in Roots, NEW d \in Calls, ZoneOf[d] = ZoneOf[r], d # r
      PROVE  /\ pc'[d] # "idle" => pc'[r] \notin {"idle", "queued"}
             /\ ~AtRest(d)' => pc'[r] = "body"
  <2>1. /\ r \in Calls
        /\ Parent[d] \in Calls /\ Parent[d] # Nobody /\ Parent[d] # d
        /\ ZoneOf[Parent[d]] = ZoneOf[r]
    BY <1>2, WithinZone
  <2>2. pc[r] \notin {"idle", "queued"} => pc'[r] \notin {"idle", "queued"}
    BY <2>1, OthersStay, OwnMove
  <2>3. CASE pc[d] = "idle" /\ d = c
    <3>1. pc[Parent[d]] = "body"
      BY <2>1, <2>3, MadeInBody
    <3>2. pc[r] = "body"
      BY <2>1, <3>1 DEF Nested, AtRest
    <3> QED
      BY <1>2, <2>1, <2>3, <3>2, OthersStay
  <2>4. CASE pc[d] = "idle" /\ d # c
    <3>1. pc'[d] = "idle"
      BY <2>4, OthersStay
    <3> QED
      BY <3>1 DEF AtRest
  <2>5. CASE pc[d] # "idle"
    <3>1. pc'[r] \notin {"idle", "queued"}
      BY <1>2, <2>2, <2>5 DEF Nested
    <3>2. ASSUME ~AtRest(d)' PROVE pc'[r] = "body"
      <4>1. ~AtRest(d)
        BY <2>5, <3>2, OthersStay, OwnMove DEF AtRest
      <4>2. pc[r] = "body"
        BY <1>2, <4>1 DEF Nested
      <4>3. CASE r = c
        <5>1. PICK e \in Children(r) : ~AtRest(e)
          BY <1>2, <4>1, AllAtRest
        <5>2. Kind[r] = "body"
          BY <5>1, <2>1, NestingAssumption, CallsAssumption DEF Children
        <5>3. PICK end \in {"ran", "threw"} : EndBody(c, end)
          BY <4>2, <4>3, <5>2, OwnMove DEF Write, SendRemove, Writes, Removals
        <5> QED
          BY <4>3, <5>1, <5>3 DEF EndBody, GivenUp
      <4>4. CASE r # c
        BY <2>1, <4>2, <4>4, OthersStay
      <4> QED
        BY <4>3, <4>4
    <3> QED
      BY <3>1, <3>2
  <2> QED
    BY <2>3, <2>4, <2>5
<1>3. Roots' = Roots
  BY DEF Roots, Pends
<1> QED
  BY <1>1, <1>2, <1>3 DEF Nested

\* What a step does to the pending maps: nothing, while the zone stays; a store;
\* or it leaves them empty.
LEMMA PendingMoves ==
  ASSUME Whole, NEW c \in Calls, Step(c)
  PROVE  \/ UNCHANGED <<pending, currentZone>> /\ ~(Write(c) /\ Pends(c))
         \/ /\ pending' = NothingPending /\ ~(Write(c) /\ Pends(c))
            /\ \/ pending = NothingPending
               \/ pc[c] \in {"ran", "threw"} /\ pc'[c] \in Ended
         \/ /\ Write(c) /\ Pends(c) /\ currentZone' = currentZone
            /\ pending' = [pending EXCEPT ![KeyOf[c]] = c]
            /\ ZoneOf[c] = currentZone
<1> USE DEF Whole, IInv, lockVars, dataVars
<1>1. CASE Write(c)
  <2>1. currentZone' = currentZone
    BY <1>1 DEF Write
  <2>2. ZoneOf[c] = currentZone
    BY <1>1, ZoneHeld DEF Write
  <2>3. IF Pends(c) THEN pending' = [pending EXCEPT ![KeyOf[c]] = c]
                    ELSE pending' = NothingPending /\ pending = NothingPending
    BY <1>1, <2>2, NothingElsePending DEF Write, Pends
  <2> QED
    BY <1>1, <2>1, <2>2, <2>3
<1>2. CASE SendRemove(c) \/ Removed(c)
  <2>1. Kind[c] \in Removals /\ pc[c] \in Entered
    BY <1>2 DEF SendRemove, Removed, Places
  <2>2. currentZone = GlobalZone
    BY <2>1, ZoneHeld, NestingAssumption
  <2>3. pending = NothingPending
    BY <2>2, NothingElsePending
  <2>4. pending' = pending \/ pending' = [pending EXCEPT ![KeyOf[c]] = Nobody]
    BY <1>2 DEF SendRemove, Removed, Forget
  <2>5. pending' = NothingPending
    BY <2>3, <2>4 DEF NothingPending
  <2>6. ~Write(c)
    BY <2>1 DEF Write, Writes, Removals
  <2> QED
    BY <2>3, <2>5, <2>6
<1>3. CASE Leave(c)
  <2>1. pending = NothingPending
    BY <1>3, LeftClean DEF Leave
  <2> QED
    BY <1>3, <2>1 DEF Leave, Write
<1>4. CASE EnterNow(c)
  <2>1. currentZone = Nobody => pending = NothingPending
    BY NothingElsePending
  <2>2. currentZone # Nobody => currentZone' = currentZone
    BY <1>4 DEF EnterNow, MustWait, Enter
  <2> QED
    BY <1>4, <2>1, <2>2 DEF EnterNow, Write
<1>5. CASE StartCommit(c) \/ Revert(c) \/ NothingToCommit(c)
  BY <1>5 DEF StartCommit, Revert, NothingToCommit, Write, Ended, Lock, LockType
<1>6. CASE Wait(c) \/ ReturnInner(c) \/ ThrowInner(c)
  BY <1>6 DEF Wait, ReturnInner, ThrowInner, StepOut, Write
<1>7. CASE CommitDone(c) \/ CommitRejected(c) \/ RemoveRejected(c)
  BY <1>7 DEF CommitDone, CommitRejected, RemoveRejected, Write
<1>8. CASE \E end \in {"ran", "threw"} : EndBody(c, end)
  BY <1>8 DEF EndBody, Write, Writes
<1> QED
  BY <1>1, <1>2, <1>3, <1>4, <1>5, <1>6, <1>7, <1>8 DEF Step, Progress

\* ... and to what is being committed.
LEMMA InFlightMoves ==
  ASSUME Whole, NEW c \in Calls, Step(c)
  PROVE  /\ \A d \in Calls \ {c} : inFlight'[d] = inFlight[d]
         /\ \/ /\ inFlight'[c] = inFlight[c]
               /\ ~(pc[c] \in {"innerCommit", "committing"})
            \/ inFlight'[c] = NothingPending
            \/ /\ Write(c) /\ ~Pends(c)
               /\ inFlight'[c] = [NothingPending EXCEPT ![KeyOf[c]] = c]
            \/ /\ StartCommit(c) /\ pc'[c] = "committing"
               /\ inFlight'[c] = pending /\ ZoneOf[c] = currentZone
<1> USE DEF Whole, IInv, DataType, dataVars
<1>1. CASE Write(c)
  <2>1. ZoneOf[c] = currentZone
    BY <1>1, ZoneHeld DEF Write
  <2>2. ~Pends(c) => pending = NothingPending
    BY <2>1, NothingElsePending DEF Pends
  <2> QED
    BY <1>1, <2>2 DEF Write
<1>2. CASE StartCommit(c)
  <2>1. ZoneOf[c] = currentZone
    BY <1>2, ZoneHeld DEF StartCommit
  <2> QED
    BY <1>2, <2>1 DEF StartCommit, Lock, LockType
<1>3. CASE CommitDone(c) \/ CommitRejected(c)
  BY <1>3 DEF CommitDone, CommitRejected
<1>4. CASE SendRemove(c) \/ Removed(c) \/ RemoveRejected(c)
  BY <1>4 DEF SendRemove, Removed, RemoveRejected
<1>5. CASE Wait(c) \/ EnterNow(c) \/ Leave(c)
  BY <1>5 DEF Wait, EnterNow, Leave
<1>6. CASE ReturnInner(c) \/ ThrowInner(c) \/ NothingToCommit(c) \/ Revert(c)
  BY <1>6 DEF ReturnInner, ThrowInner, NothingToCommit, Revert
<1>7. CASE \E end \in {"ran", "threw"} : EndBody(c, end)
  BY <1>7 DEF EndBody
<1> QED
  BY <1>1, <1>2, <1>3, <1>4, <1>5, <1>6, <1>7 DEF Step, Progress

\* How a call comes to commit or revert.
LEMMA EndedMoves ==
  ASSUME Whole, NEW c \in Calls, Step(c), Pends(c), pc'[c] \in Ended
  PROVE  c \in Roots /\ pending' = NothingPending
<1> USE DEF Whole, IInv, Lock, LockType, dataVars
<1>1. CASE StartCommit(c) \/ NothingToCommit(c) \/ Revert(c)
  <2>1. pc[c] \in {"ran", "threw"} /\ currentZoneDepth = 1
    BY <1>1 DEF StartCommit, NothingToCommit, Revert, IsInTopLevelZone
  <2>2. c \in Roots
    BY <2>1, OutermostIsRoot DEF AtRest
  <2> QED
    BY <1>1, <2>2 DEF StartCommit, NothingToCommit, Revert
<1>2. CASE CommitDone(c) \/ CommitRejected(c)
  <2>1. pc[c] = "committing" /\ pending' = pending
    BY <1>2 DEF CommitDone, CommitRejected, Places
  <2> QED
    BY <2>1 DEF PendingFits, Ended
<1>3. CASE Wait(c) \/ EnterNow(c) \/ Write(c) \/ SendRemove(c)
  BY <1>3 DEF Wait, EnterNow, Enter, Write, SendRemove, Ended
<1>4. CASE Removed(c) \/ RemoveRejected(c) \/ ReturnInner(c) \/ ThrowInner(c)
  BY <1>4 DEF Removed, RemoveRejected, ReturnInner, ThrowInner, StepOut, Ended
<1>5. CASE Leave(c)
  <2>1. pc'[c] \in {"done", "failed"}
    BY <1>5 DEF Leave, LeaveZone, StepOut, HandOver
  <2> QED
    BY <2>1 DEF Ended
<1>6. CASE \E end \in {"ran", "threw"} : EndBody(c, end)
  BY <1>6 DEF EndBody, Ended
<1> QED
  BY <1>1, <1>2, <1>3, <1>4, <1>5, <1>6 DEF Step, Progress

LEMMA StepKeepsPendingFits ==
  ASSUME Whole, NEW c \in Calls, Step(c)
  PROVE  PendingFits'
<1> USE DEF Whole, IInv, DataType
<1> c \in Calls /\ KeyOf[c] \in Keys
  BY CallsAssumption
<1>1. ASSUME NEW k \in Keys, pending'[k] # Nobody
      PROVE  /\ Writes(pending'[k]) /\ KeyOf[pending'[k]] = k
             /\ Pends(pending'[k]) /\ ZoneOf[pending'[k]] = currentZone'
  <2>1. CASE UNCHANGED <<pending, currentZone>>
    BY <1>1, <2>1 DEF PendingFits
  <2>2. CASE pending' = NothingPending
    BY <1>1, <2>2 DEF NothingPending
  <2>3. CASE /\ Write(c) /\ Pends(c) /\ currentZone' = currentZone
             /\ pending' = [pending EXCEPT ![KeyOf[c]] = c]
             /\ ZoneOf[c] = currentZone
    <3>1. CASE k = KeyOf[c]
      BY <2>3, <3>1 DEF Write
    <3>2. CASE k # KeyOf[c]
      BY <1>1, <2>3, <3>2 DEF PendingFits
    <3> QED
      BY <3>1, <3>2
  <2> QED
    BY <2>1, <2>2, <2>3, PendingMoves
<1>2. ASSUME NEW d \in Calls, Pends(d), pc'[d] \in Ended
      PROVE  d \in Roots /\ pending' = NothingPending
  <2>1. CASE d = c
    BY <1>2, <2>1, EndedMoves
  <2>2. CASE d # c
    <3>1. pc[d] \in Ended
      BY <1>2, <2>2, OthersStay DEF Ended
    <3>2. d \in Roots /\ pending = NothingPending
      BY <1>2, <3>1 DEF PendingFits
    <3>3. ~(Write(c) /\ ZoneOf[c] = currentZone)
      <4>1. ZoneOf[d] = currentZone
        BY <3>1, ZoneHeld DEF Ended
      <4>2. ASSUME Write(c), ZoneOf[c] = currentZone PROVE FALSE
        <5>1. ~AtRest(c)
          BY <4>2 DEF Write, AtRest
        <5>2. pc[d] = "body"
          BY <2>2, <3>2, <4>1, <4>2, <5>1 DEF Nested
        <5> QED
          BY <3>1, <5>2 DEF Ended
      <4> QED
        BY <4>2
    <3> QED
      BY <3>2, <3>3, PendingMoves
  <2> QED
    BY <2>1, <2>2
<1>3. ASSUME NEW d \in Calls, NEW k \in Keys, inFlight'[d][k] # Nobody
      PROVE  /\ Writes(inFlight'[d][k]) /\ KeyOf[inFlight'[d][k]] = k
             /\ ZoneOf[inFlight'[d][k]] = ZoneOf[d]
             /\ Pends(d) => pc'[d] = "committing"
  <2>1. CASE d # c
    <3>1. inFlight'[d] = inFlight[d]
      BY <2>1, InFlightMoves
    <3>2. pc[d] = "committing" => pc'[d] = "committing"
      BY <2>1, OthersStay
    <3> QED
      BY <1>3, <3>1, <3>2 DEF PendingFits
  <2>2. CASE d = c /\ inFlight'[c] = inFlight[c]
             /\ ~(pc[c] \in {"innerCommit", "committing"})
    BY <1>3, <2>2 DEF PendingFits
  <2>3. CASE inFlight'[c] = NothingPending /\ d = c
    BY <1>3, <2>3 DEF NothingPending
  <2>4. CASE /\ Write(c) /\ ~Pends(c) /\ d = c
             /\ inFlight'[c] = [NothingPending EXCEPT ![KeyOf[c]] = c]
    <3>1. k = KeyOf[c] /\ inFlight'[c][k] = c
      BY <1>3, <2>4 DEF NothingPending
    <3> QED
      BY <2>4, <3>1 DEF Write
  <2>5. CASE /\ pc'[c] = "committing" /\ d = c
             /\ inFlight'[c] = pending /\ ZoneOf[c] = currentZone
    BY <1>3, <2>5 DEF PendingFits
  <2> QED
    BY <2>1, <2>2, <2>3, <2>4, <2>5, InFlightMoves
<1>4. /\ Roots' = Roots
      /\ \A d \in Calls : Pends(d)' = Pends(d)
  BY DEF Roots, Pends
<1> QED
  BY <1>1, <1>2, <1>3, <1>4 DEF PendingFits, Pends, Writes, Roots, Ended

\* What a step does to the stores of a transaction: only Write adds one.
LEMMA StoredMoves ==
  ASSUME Whole, NEW r \in Roots, NEW c \in Calls, Step(c)
  PROVE  IF Write(c) /\ c \in TransactionOf(r)
         THEN /\ StoredBy(r)' = StoredBy(r) \cup {c}
              /\ KeysStored(r)' = KeysStored(r) \cup {KeyOf[c]}
         ELSE StoredBy(r)' = StoredBy(r) /\ KeysStored(r)' = KeysStored(r)
<1> USE DEF Whole, IInv, Lock, LockType
<1> DEFINE Unwritten == {"idle", "queued", "body"}
<1>1. TransactionOf(r)' = TransactionOf(r) /\ TransactionOf(r) \subseteq Calls
  BY DEF TransactionOf, Writes
<1>2. ASSUME NEW d \in TransactionOf(r), d # c
      PROVE  pc'[d] \in Unwritten <=> pc[d] \in Unwritten
  BY <1>1, <1>2, OthersStay
<1>3. ASSUME c \in TransactionOf(r)
      PROVE  /\ Write(c) => pc'[c] \notin Unwritten
             /\ ~Write(c) => (pc'[c] \in Unwritten <=> pc[c] \in Unwritten)
  <2>1. Kind[c] \notin Removals /\ Kind[c] # "body"
    BY <1>3 DEF TransactionOf, Writes, Removals
  <2>2. pc[c] = "body" => Write(c)
    BY <2>1, OwnMove DEF SendRemove, EndBody
  <2>3. Write(c) => pc[c] = "body"
    BY DEF Write
  <2>4. pc[c] # "queued"
    BY OwnMove
  <2>5. pc[c] = "idle" => pc'[c] \in Unwritten
    BY OwnMove
  <2>6. pc[c] # "idle" => pc'[c] \notin Unwritten
    BY OwnMove
  <2> QED
    BY <2>2, <2>3, <2>4, <2>5, <2>6
<1>4. IF Write(c) /\ c \in TransactionOf(r)
      THEN StoredBy(r)' = StoredBy(r) \cup {c}
      ELSE StoredBy(r)' = StoredBy(r)
  BY <1>1, <1>2, <1>3 DEF StoredBy
<1> QED
  BY <1>4 DEF KeysStored

\* The root's commit writes the records that it took.
LEMMA RootCommits ==
  ASSUME Whole, NEW r \in Roots, pc[r] = "committing",
         durable' = durable \cup Written(inFlight[r])
  PROVE  KeysReached(r)' =
            KeysReached(r) \cup {k \in Keys : inFlight[r][k] # Nobody}
<1>1. r \in Calls /\ TransactionOf(r)' = TransactionOf(r)
  BY DEF Roots, TransactionOf, Writes
<1>2. \A k \in Keys : inFlight[r][k] # Nobody =>
         /\ Writes(inFlight[r][k]) /\ KeyOf[inFlight[r][k]] = k
         /\ ZoneOf[inFlight[r][k]] = ZoneOf[r]
         /\ inFlight[r][k] \in Calls
  BY <1>1 DEF Whole, IInv, DataType, PendingFits
<1>3. Written(inFlight[r]) \subseteq TransactionOf(r)
  BY <1>2 DEF Written, TransactionOf
<1>4. {KeyOf[w] : w \in Written(inFlight[r])}
         = {k \in Keys : inFlight[r][k] # Nobody}
  BY <1>2 DEF Written
<1>5. KeysReached(r)' =
         KeysReached(r) \cup {KeyOf[w] : w \in Written(inFlight[r])}
  BY <1>1, <1>3 DEF KeysReached
<1> QED
  BY <1>4, <1>5

\* ... and to those that have reached the tables: only the root's commit adds any.
LEMMA ReachedMoves ==
  ASSUME Whole, NEW r \in Roots, NEW c \in Calls, Step(c)
  PROVE  \/ KeysReached(r)' = KeysReached(r)
         \/ /\ c = r /\ pc[r] = "committing"
            /\ KeysReached(r)' =
                  KeysReached(r) \cup {k \in Keys : inFlight[r][k] # Nobody}
<1> USE DEF Whole, IInv, DataType
<1>1. TransactionOf(r)' = TransactionOf(r)
  BY DEF TransactionOf, Writes
<1>2. CASE durable' = durable
  BY <1>1, <1>2 DEF KeysReached
<1>3. CASE /\ durable' = durable \cup Written(inFlight[c])
           /\ pc[c] \in {"innerCommit", "committing"}
  <2>1. \A k \in Keys : inFlight[c][k] # Nobody =>
           /\ Writes(inFlight[c][k]) /\ KeyOf[inFlight[c][k]] = k
           /\ ZoneOf[inFlight[c][k]] = ZoneOf[c]
           /\ inFlight[c][k] \in Calls
    BY DEF PendingFits
  <2>2. CASE c = r
    <3>1. pc[r] = "committing"
      BY <1>3, <2>2 DEF Places, Roots
    <3> QED
      BY <1>3, <2>2, <3>1, RootCommits
  <2>3. CASE c # r
    <3>1. CASE ZoneOf[c] = ZoneOf[r]
      <4>1. Pends(c) /\ c \notin Roots
        BY <2>3, <3>1, WithinZone
      <4>2. pc[c] \notin {"innerCommit", "committing"}
        BY <4>1 DEF Places, PendingFits, Ended
      <4> QED
        BY <1>3, <4>2
    <3>2. CASE ZoneOf[c] # ZoneOf[r]
      <4>1. Written(inFlight[c]) \cap TransactionOf(r) = {}
        BY <2>1, <3>2 DEF Written, TransactionOf
      <4> QED
        BY <1>1, <1>3, <4>1 DEF KeysReached
    <3> QED
      BY <3>1, <3>2
  <2> QED
    BY <2>2, <2>3
<1>4. CASE CommitDone(c) \/ CommitRejected(c)
  BY <1>2, <1>3, <1>4 DEF CommitDone, CommitRejected
<1>5. durable' = durable \/ CommitDone(c) \/ CommitRejected(c)
  BY DEF Step, Progress, Wait, EnterNow, Write, SendRemove, Removed,
         RemoveRejected, EndBody, StartCommit, NothingToCommit, ReturnInner,
         Revert, ThrowInner, Leave, dataVars
<1> QED
  BY <1>2, <1>4, <1>5

\* A step of another call.
LEMMA OtherKeeps ==
  ASSUME Whole, NEW r \in Roots, Keeps(r), NEW c \in Calls, Step(c), c # r
  PROVE  Keeps(r)'
<1> USE DEF Whole, IInv
<1> r \in Calls
  BY DEF Roots
<1>1. KeysReached(r)' = KeysReached(r)
  BY ReachedMoves
<1>2. CASE pc'[r] = pc[r]
  <2>1. inFlight'[r] = inFlight[r]
    BY InFlightMoves
  <2>2. CASE Write(c) /\ c \in TransactionOf(r)
    <3>1. pc[r] = "body"
      BY <2>2 DEF Nested, TransactionOf, Write, AtRest
    <3>2. Pends(c)
      BY <2>2, WithinZone DEF TransactionOf
    <3>3. pending' = [pending EXCEPT ![KeyOf[c]] = c]
      BY <2>2, <3>2 DEF Write
    <3>4. KeysStored(r)' = KeysStored(r) \cup {KeyOf[c]}
      BY <2>2, StoredMoves
    <3>5. c # Nobody /\ pending \in [Keys -> Calls \cup {Nobody}]
      BY CallsAssumption DEF DataType
    <3>6. \A k \in Keys : pending'[k] # Nobody <=> k \in KeysStored(r)'
      BY <3>1, <3>3, <3>4, <3>5 DEF Keeps
    <3> QED
      BY <1>1, <1>2, <3>1, <3>6 DEF Keeps
  <2>3. CASE ~(Write(c) /\ c \in TransactionOf(r))
    <3>1. StoredBy(r)' = StoredBy(r) /\ KeysStored(r)' = KeysStored(r)
      BY <2>3, StoredMoves
    <3>2. ASSUME pc[r] \in {"body", "ran", "threw"} PROVE pending' = pending
      <4>1. currentZone = ZoneOf[r]
        BY <3>2, ZoneHeld
      <4>2. CASE pc[c] \in {"ran", "threw"} /\ pc'[c] \in Ended
        <5>1. ZoneOf[c] = ZoneOf[r]
          BY <4>1, <4>2, ZoneHeld
        <5> QED
          BY <4>2, <5>1, WithinZone, EndedMoves
      <4>3. CASE pending = NothingPending /\ pending' = NothingPending
        BY <4>3
      <4>4. ~(Write(c) /\ ZoneOf[c] = currentZone)
        BY <2>3, <4>1 DEF Write, TransactionOf
      <4> QED
        BY <4>2, <4>3, <4>4, PendingMoves
    <3> QED
      BY <1>1, <1>2, <2>1, <3>1, <3>2 DEF Keeps
  <2> QED
    BY <2>2, <2>3
<1>3. CASE pc[r] = "queued" /\ pc'[r] = "body" /\ Leave(c)
  <2>1. StoredBy(r)' = {} /\ KeysStored(r)' = {} 
    <3>1. ~Write(c)
      BY <1>3 DEF Leave, Write
    <3>2. StoredBy(r) = {}
      BY <1>3 DEF Keeps
    <3> QED
      BY <3>1, <3>2, StoredMoves DEF KeysStored
  <2>2. pending' = NothingPending
    BY <1>3, LeftClean DEF Leave, dataVars
  <2> QED
    BY <1>1, <1>3, <2>1, <2>2 DEF Keeps, NothingPending
<1> QED
  BY <1>2, <1>3, OthersStay

\* A step of the root.
LEMMA RootKeeps ==
  ASSUME Whole, NEW r \in Roots, Keeps(r), Step(r)
  PROVE  Keeps(r)'
<1> USE DEF Whole, IInv, Lock, LockType
<1> r \in Calls /\ Pends(r) /\ Kind[r] \notin Removals
  BY NestingAssumption DEF Roots, Pends
<1>1. CASE Wait(r)
  <2>1. ~Write(r) /\ pc[r] = "idle" /\ pc'[r] = "queued"
    BY <1>1 DEF Wait, Write
  <2>2. StoredBy(r)' = {}
    BY <2>1, StoredMoves DEF Keeps
  <2>3. KeysReached(r)' = {}
    BY <2>1, ReachedMoves DEF Keeps
  <2> QED
    BY <2>1, <2>2, <2>3 DEF Keeps
<1>2. CASE EnterNow(r)
  <2>1. ~Write(r) /\ pc[r] = "idle" /\ pc'[r] = "body" /\ pending' = pending
    BY <1>2 DEF EnterNow, Enter, Write, dataVars
  <2>2. StoredBy(r)' = {} /\ KeysStored(r)' = {}
    BY <2>1, StoredMoves DEF Keeps, KeysStored
  <2>3. KeysReached(r)' = {}
    BY <2>1, ReachedMoves DEF Keeps
  <2>4. currentZone = Nobody
    <3>1. ASSUME NEW d \in InZone, ZoneOf[d] = ZoneOf[r] PROVE FALSE
      <4>1. d \in Calls /\ pc[d] # "idle" /\ d # r
        BY <2>1 DEF InZone
      <4> QED
        BY <2>1, <3>1, <4>1 DEF Nested
    <3>2. currentZone = ZoneOf[r] => FALSE
      BY <3>1, CallsAssumption DEF ZoneMutex
    <3> QED
      BY <1>2, <3>2 DEF EnterNow, MustWait
  <2>5. pending = NothingPending
    BY <2>4, NothingElsePending
  <2> QED
    BY <2>1, <2>2, <2>3, <2>5 DEF Keeps, NothingPending
<1>3. CASE Write(r)
  <2>1. /\ pc[r] = "body" /\ pc'[r] = "ran" /\ r \in TransactionOf(r)
        /\ pending' = [pending EXCEPT ![KeyOf[r]] = r]
    BY <1>3 DEF Write, TransactionOf
  <2>2. KeysStored(r)' = KeysStored(r) \cup {KeyOf[r]}
    BY <1>3, <2>1, StoredMoves
  <2>3. KeysReached(r)' = {}
    BY <2>1, ReachedMoves DEF Keeps
  <2>4. r # Nobody /\ pending \in [Keys -> Calls \cup {Nobody}]
    BY CallsAssumption DEF DataType
  <2>5. \A k \in Keys : pending'[k] # Nobody <=> k \in KeysStored(r)'
    BY <2>1, <2>2, <2>4 DEF Keeps
  <2> QED
    BY <2>1, <2>3, <2>5 DEF Keeps
<1>4. ASSUME ~Write(r)
      PROVE  StoredBy(r)' = StoredBy(r) /\ KeysStored(r)' = KeysStored(r)
  BY <1>4, StoredMoves
<1>5. CASE \E end \in {"ran", "threw"} : EndBody(r, end)
  <2>1. ~Write(r)
    BY <1>5 DEF EndBody, Write, Writes
  <2>2. pc[r] = "body" /\ pc'[r] \in {"ran", "threw"} /\ pending' = pending
    BY <1>5 DEF EndBody, dataVars
  <2>3. KeysReached(r)' = {}
    BY <2>2, ReachedMoves DEF Keeps
  <2> QED
    BY <1>4, <2>1, <2>2, <2>3 DEF Keeps
<1>6. CASE SendRemove(r) \/ Removed(r) \/ RemoveRejected(r)
  BY <1>6 DEF SendRemove, Removed, RemoveRejected, Places
<1>7. CASE StartCommit(r)
  <2>1. /\ ~Write(r) /\ pc[r] = "ran" /\ pc'[r] = "committing"
        /\ inFlight'[r] = pending
    BY <1>7 DEF StartCommit, Write, DataType
  <2>2. KeysReached(r)' = {}
    BY <2>1, ReachedMoves DEF Keeps
  <2> QED
    BY <1>4, <2>1, <2>2 DEF Keeps
<1>8. CASE NothingToCommit(r)
  <2>1. /\ ~Write(r) /\ pc[r] = "ran" /\ pc'[r] = "committed"
        /\ pending = NothingPending
    BY <1>8 DEF NothingToCommit, Write
  <2>2. KeysReached(r)' = {}
    BY <2>1, ReachedMoves DEF Keeps
  <2>3. \A k \in Keys : k \notin KeysStored(r)
    BY <2>1 DEF Keeps, NothingPending
  <2>4. KeysStored(r) \subseteq Keys
    BY CallsAssumption DEF KeysStored, StoredBy, TransactionOf
  <2> QED
    BY <1>4, <2>1, <2>2, <2>3, <2>4 DEF Keeps
<1>9. CASE ReturnInner(r) \/ ThrowInner(r)
  <2>1. pc[r] \in {"ran", "threw"} /\ currentZoneDepth # 1
    BY <1>9 DEF ReturnInner, ThrowInner, IsInTopLevelZone
  <2> QED
    BY <2>1, RootIsAlone
<1>10. CASE Revert(r)
  <2>1. ~Write(r) /\ pc[r] = "threw" /\ pc'[r] = "reverted"
    BY <1>10 DEF Revert, Write
  <2>2. KeysReached(r)' = {}
    BY <2>1, ReachedMoves DEF Keeps
  <2> QED
    BY <2>1, <2>2 DEF Keeps
<1>11. CASE Leave(r)
  <2>1. /\ ~Write(r) /\ pc[r] \in {"committed", "reverted"}
        /\ pc'[r] = IF pc[r] = "committed" THEN "done" ELSE "failed"
    BY <1>11 DEF Leave, LeaveZone, StepOut, HandOver, Write
  <2>2. KeysReached(r)' = KeysReached(r)
    BY <2>1, ReachedMoves
  <2> QED
    BY <1>4, <2>1, <2>2 DEF Keeps
<1>12. CASE CommitDone(r) \/ CommitRejected(r)
  <2>1. ~Write(r) /\ pc[r] = "committing"
    BY <1>12 DEF CommitDone, CommitRejected, Write, Places
  <2>2. {k \in Keys : inFlight[r][k] # Nobody} = KeysStored(r)
    <3>1. KeysStored(r) \subseteq Keys
      BY CallsAssumption DEF KeysStored, StoredBy, TransactionOf
    <3> QED
      BY <2>1, <3>1 DEF Keeps
  <2>3. KeysReached(r) = {}
    BY <2>1 DEF Keeps
  <2>4. KeysReached(r)' \in {{}, KeysStored(r)}
    BY <2>2, <2>3, ReachedMoves
  <2>5. CASE CommitDone(r)
    <3>1. pc'[r] = "committed"
      BY <2>1, <2>5 DEF CommitDone, Resumed
    <3>2. KeysReached(r)' = KeysStored(r)
      BY <2>1, <2>2, <2>3, <2>5, RootCommits DEF CommitDone
    <3> QED
      BY <1>4, <2>1, <3>1, <3>2 DEF Keeps
  <2>6. CASE CommitRejected(r)
    <3>1. pc'[r] = "stuck"
      BY <2>1, <2>6 DEF CommitRejected
    <3> QED
      BY <1>4, <2>1, <2>4, <3>1 DEF Keeps
  <2> QED
    BY <1>12, <2>5, <2>6
<1> QED
  BY <1>1, <1>2, <1>3, <1>5, <1>6, <1>7, <1>8, <1>9, <1>10, <1>11, <1>12
  DEF Step, Progress

LEMMA InitTInv == Init => TInv
<1> SUFFICES ASSUME Init PROVE TInv
  OBVIOUS
<1> USE DEF Init
<1>1. Places
  BY DEF Places
<1>2. Nested
  BY DEF Nested, AtRest, Roots
<1>3. PendingFits
  BY DEF PendingFits, NothingPending, Ended
<1>4. ASSUME NEW r \in Roots PROVE Keeps(r)
  BY <1>4 DEF Roots, Keeps, StoredBy, KeysReached, TransactionOf
<1> QED
  BY <1>1, <1>2, <1>3, <1>4 DEF TInv

LEMMA NextTInv == IInv /\ TInv /\ [Next]_vars => TInv'
<1> SUFFICES ASSUME IInv, TInv, [Next]_vars PROVE TInv'
  OBVIOUS
<1>1. CASE UNCHANGED vars
  <2>1. Places' = Places
    BY <1>1 DEF vars, Places, Pends
  <2>2. Nested' = Nested
    BY <1>1 DEF vars, Nested, AtRest, Roots, Pends
  <2>3. PendingFits' = PendingFits
    BY <1>1 DEF vars, PendingFits, Roots, Pends, Writes
  <2>4. Roots' = Roots
    BY DEF Roots, Pends
  <2>5. ASSUME NEW r PROVE Keeps(r)' = Keeps(r)
    <3>1. StoredBy(r)' = StoredBy(r) /\ KeysReached(r)' = KeysReached(r)
      BY <1>1 DEF vars, StoredBy, KeysReached, TransactionOf, Writes
    <3>2. KeysStored(r)' = KeysStored(r)
      BY <3>1 DEF KeysStored
    <3> QED
      BY <1>1, <3>1, <3>2 DEF vars, Keeps
  <2>6. abandoned' = abandoned
    BY <1>1 DEF vars
  <2> QED
    BY <2>1, <2>2, <2>3, <2>4, <2>5, <2>6 DEF TInv
<1>2. ASSUME NEW c \in Calls, Step(c) PROVE TInv'
  <2>1. Places'
    BY <1>2, StepKeepsPlaces DEF TInv
  <2>2. abandoned' = abandoned
    BY <1>2 DEF Step, Progress, Wait, EnterNow, Write, SendRemove, Removed,
                RemoveRejected, EndBody, StartCommit, NothingToCommit,
                ReturnInner, Revert, ThrowInner, Leave, CommitDone,
                CommitRejected
  <2>3. ASSUME abandoned = {}
        PROVE  Nested' /\ PendingFits' /\ (\A r \in Roots : Keeps(r))'
    <3>1. Whole /\ \A r \in Roots : Keeps(r)
      BY <2>3 DEF Whole, TInv
    <3>2. Nested' /\ PendingFits'
      BY <1>2, <3>1, StepKeepsNested, StepKeepsPendingFits
    <3>3. ASSUME NEW r \in Roots PROVE Keeps(r)'
      BY <1>2, <3>1, OtherKeeps, RootKeeps
    <3>4. Roots' = Roots
      BY DEF Roots, Pends
    <3> QED
      BY <3>2, <3>3, <3>4
  <2> QED
    BY <2>1, <2>2, <2>3 DEF TInv
<1>3. ASSUME NEW c \in Calls, GiveUp(c) PROVE TInv'
  <2>1. abandoned' # {} /\ pc' = pc
    BY <1>3 DEF GiveUp
  <2> QED
    BY <2>1 DEF TInv, Places, Pends
<1> QED
  BY <1>1, <1>2, <1>3 DEF Next, Step

\* The records of a batch, however its calls nest and interleave and however the
\* database fails, reach the tables all together or not at all, unless the batch
\* gives up on one of its calls.
THEOREM TransactionsAreAtomic == Spec => []AllOrNothing
<1>1. IInv /\ TInv => AllOrNothing
  BY DEF TInv, Keeps, AllOrNothing
<1>2. Spec => []TInv
  BY InitTInv, NextTInv, Invariance, PTL DEF Spec
<1> QED
  BY <1>1, <1>2, Invariance, PTL

=============================================================================
