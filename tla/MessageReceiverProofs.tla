------------------------ MODULE MessageReceiverProofs ------------------------
(***************************************************************************)
(* Theorems about MessageReceiver, for any messages, batches, arrivals and *)
(* crashes: every reachable state is well typed, a message is saved once,  *)
(* and what was consumed or answered is kept.  That messages are saved in  *)
(* order is in MessageOrderProofs.                                         *)
(*                                                                         *)
(* The last two need to know where an envelope may be.  IInv says it: an   *)
(* envelope waits to be decrypted in one place, a plaintext is on its way  *)
(* to the application in one place, and neither happens once it is done.   *)
(* From this follows what cacheRemove may find: an envelope that was       *)
(* decrypted before, whose message is kept under another row, or one whose *)
(* message is saved, or one with nothing to save.                          *)
(*                                                                         *)
(* IInv is of a process that reads the table once (MaxReplays = 0): read   *)
(* again, a row is in two places, and its first save can fail while the    *)
(* second finds the message registered (run receiver_lost).                *)
(***************************************************************************)
EXTENDS MessageReceiver, FiniteSetTheorems, TLAPS
-----------------------------------------------------------------------------
(* Sequences *)

LEMMA TailFacts ==
    ASSUME NEW S, NEW q \in Seq(S), q # <<>>
    PROVE  /\ Head(q) = q[1] /\ Head(q) \in S /\ 1 \in DOMAIN q
           /\ Tail(q) \in Seq(S)
           /\ \A i \in DOMAIN Tail(q) : i + 1 \in DOMAIN q /\ Tail(q)[i] = q[i + 1]
           /\ \A i \in DOMAIN q :
                 i = 1 \/ (i - 1 \in DOMAIN Tail(q) /\ Tail(q)[i - 1] = q[i])
  OBVIOUS

LEMMA AppendFacts ==
    ASSUME NEW S, NEW q \in Seq(S), NEW x \in S
    PROVE  /\ Append(q, x) \in Seq(S)
           /\ DOMAIN Append(q, x) = DOMAIN q \cup {Len(q) + 1}
           /\ Append(q, x)[Len(q) + 1] = x
           /\ Len(q) + 1 \notin DOMAIN q
           /\ \A i \in DOMAIN q : Append(q, x)[i] = q[i]
  OBVIOUS

LEMMA ConcatFacts ==
    ASSUME NEW S, NEW q \in Seq(S), NEW r \in Seq(S)
    PROVE  /\ q \o r \in Seq(S)
           /\ \A i \in DOMAIN q : i \in DOMAIN (q \o r) /\ (q \o r)[i] = q[i]
           /\ \A i \in DOMAIN r :
                 i + Len(q) \in DOMAIN (q \o r) /\ (q \o r)[i + Len(q)] = r[i]
           /\ \A i \in DOMAIN (q \o r) :
                 \/ i \in DOMAIN q
                 \/ i - Len(q) \in DOMAIN r
           /\ \A i \in DOMAIN q : \A j \in DOMAIN r : i # j + Len(q)
  OBVIOUS

LEMMA SeqWiden ==
    ASSUME NEW S, NEW T, S \subseteq T, NEW q \in Seq(S)
    PROVE  q \in Seq(T)
  OBVIOUS

LEMMA RangeFacts ==
    ASSUME NEW S, NEW q \in Seq(S)
    PROVE  /\ Range(q) \subseteq S
           /\ Range(<<>>) = {}
           /\ \A x \in S : Range(Append(q, x)) = Range(q) \cup {x}
  <1>1. ASSUME NEW x \in S PROVE Range(Append(q, x)) = Range(q) \cup {x}
    BY AppendFacts DEF Range
  <1>2. Range(<<>>) = {} /\ Range(q) \subseteq S
    BY DEF Range
  <1>3. QED
    BY <1>1, <1>2

(* Sets of numbers in order *)

Ordered(s) == \A i, j \in DOMAIN s : i < j => s[i] < s[j]

\* Every set of numbers up to n has a sequence that lists it in order.
LEMMA SortedUpTo ==
    \A n \in Nat : \A S \in SUBSET (1 .. n) :
       \E k \in Nat : \E s \in [1 .. k -> S] : Ordered(s) /\ Range(s) = S
  <1> DEFINE P(n) == \A S \in SUBSET (1 .. n) :
                \E k \in Nat : \E s \in [1 .. k -> S] : Ordered(s) /\ Range(s) = S
             Bad == {n \in Nat : ~P(n)}
             Below == {1 .. n : n \in Bad}
             Less == StrictSubsetOrdering(Nat)
  <1>1. P(0)
    <2> SUFFICES ASSUME NEW S \in SUBSET (1 .. 0)
                 PROVE  \E k \in Nat : \E s \in [1 .. k -> S] : Ordered(s) /\ Range(s) = S
      OBVIOUS
    <2>1. S = {}
      OBVIOUS
    <2> DEFINE s == [i \in 1 .. 0 |-> 0]
    <2>2. s \in [1 .. 0 -> S]
      OBVIOUS
    <2>3. Ordered(s) /\ Range(s) = S
      BY <2>1 DEF Ordered, Range
    <2>4. QED
      BY <2>2, <2>3
  <1>2. ASSUME NEW n \in Nat, P(n) PROVE P(n + 1)
    <2> SUFFICES ASSUME NEW S \in SUBSET (1 .. n + 1)
                 PROVE  \E k \in Nat : \E s \in [1 .. k -> S] : Ordered(s) /\ Range(s) = S
      OBVIOUS
    <2>1. CASE n + 1 \notin S
      <3>1. S \in SUBSET (1 .. n)
        BY <2>1
      <3>2. QED
        BY <1>2, <3>1
    <2>2. CASE n + 1 \in S
      <3> DEFINE T == S \ {n + 1}
      <3>1. T \in SUBSET (1 .. n)
        OBVIOUS
      <3>2. PICK k \in Nat : \E s \in [1 .. k -> T] : Ordered(s) /\ Range(s) = T
        BY <1>2, <3>1
      <3>3. PICK s \in [1 .. k -> T] : Ordered(s) /\ Range(s) = T
        BY <3>2
      <3> DEFINE t == [i \in 1 .. k + 1 |-> IF i = k + 1 THEN n + 1 ELSE s[i]]
      <3>4. t \in [1 .. k + 1 -> S]
        BY <2>2
      <3>5. Ordered(t)
        <4>1. \A i \in 1 .. k : s[i] < n + 1
          <5>1. \A i \in 1 .. k : s[i] \in T
            OBVIOUS
          <5>2. \A x \in T : x \in 1 .. n
            BY <3>1
          <5>3. \A i \in 1 .. k : s[i] \in 1 .. n
            BY <5>1, <5>2, Zenon
          <5>4. \A x \in 1 .. n : x < n + 1
            OBVIOUS
          <5>5. QED
            BY <5>3, <5>4, Zenon
        <4>2. ASSUME NEW i \in 1 .. k + 1, NEW j \in 1 .. k + 1, i < j
              PROVE  t[i] < t[j]
          <5>1. i \in 1 .. k /\ t[i] = s[i]
            BY <4>2
          <5>2. CASE j = k + 1
            BY <4>1, <5>1, <5>2
          <5>3. CASE j # k + 1
            <6>1. j \in 1 .. k /\ t[j] = s[j]
              BY <5>3
            <6>2. s[i] < s[j]
              BY <3>3, <4>2, <5>1, <6>1 DEF Ordered
            <6>3. QED
              BY <5>1, <6>1, <6>2
          <5>4. QED
            BY <5>2, <5>3
        <4>3. DOMAIN t = 1 .. k + 1
          OBVIOUS
        <4> HIDE DEF t
        <4>4. QED
          BY <4>2, <4>3 DEF Ordered
      <3>6. Range(t) = S
        <4>1. DOMAIN t = 1 .. k + 1 /\ t[k + 1] = n + 1
          OBVIOUS
        <4>2. \A i \in 1 .. k : t[i] = s[i]
          OBVIOUS
        <4>3. \A i \in 1 .. k + 1 : i = k + 1 \/ i \in 1 .. k
          OBVIOUS
        <4>4. 1 .. k \subseteq 1 .. k + 1 /\ k + 1 \in 1 .. k + 1
          OBVIOUS
        <4> HIDE DEF t
        <4>5. QED
          BY <2>2, <3>3, <4>1, <4>2, <4>3, <4>4 DEF Range
      <3>7. QED
        BY <3>4, <3>5, <3>6
    <2>3. QED
      BY <2>1, <2>2
  <1> HIDE DEF P
  <1>3. Bad = {}
    <2> SUFFICES ASSUME Bad # {} PROVE FALSE
      OBVIOUS
    <2>1. IsWellFoundedOn(Less, FiniteSubsetsOf(Nat))
      BY FS_StrictSubsetOrderingWellFounded
    <2>2. Below \subseteq FiniteSubsetsOf(Nat) /\ Below # {}
      <3>1. ASSUME NEW n \in Nat PROVE 1 .. n \in SUBSET Nat /\ IsFiniteSet(1 .. n)
        BY FS_Interval
      <3>2. QED
        BY <3>1 DEF FiniteSubsetsOf
    <2>3. PICK B \in Below : \A C \in Below : ~(<<C, B>> \in Less)
      <3> HIDE DEF Below, Less
      <3>1. QED
        BY <2>1, <2>2, WFMin
    <2>4. PICK n \in Bad : B = 1 .. n
      OBVIOUS
    <2>9. n \in Nat /\ n # 0
      BY <1>1
    <2>10. n - 1 \in Nat /\ 1 .. n - 1 \subseteq 1 .. n /\ 1 .. n - 1 # 1 .. n
      BY <2>9
    <2>11. <<1 .. n - 1, 1 .. n>> \in Less
      BY <2>10 DEF StrictSubsetOrdering
    <2>5. P(n - 1)
      BY <2>3, <2>4, <2>10, <2>11
    <2>6. P((n - 1) + 1)
      BY <1>2, <2>10, <2>5
    <2>7. P(n)
      <3>1. (n - 1) + 1 = n
        BY <2>9
      <3>2. QED
        BY <2>6, <3>1
    <2>8. QED
      BY <2>7
  <1>4. QED
    <2>1. \A n \in Nat : P(n)
      BY <1>3
    <2>2. QED
      BY <2>1 DEF P

\* InOrder lists a set of numbers: each of them, once.
LEMMA InOrderLists ==
    ASSUME NEW n \in Nat, NEW S \in SUBSET (1 .. n)
    PROVE  /\ InOrder(S) \in Seq(S)
           /\ Ordered(InOrder(S))
           /\ Range(InOrder(S)) = S
           /\ \A i, j \in DOMAIN InOrder(S) : InOrder(S)[i] = InOrder(S)[j] => i = j
  <1>1. PICK k \in Nat : \E s \in [1 .. k -> S] : Ordered(s) /\ Range(s) = S
    BY SortedUpTo
  <1>2. PICK s \in [1 .. k -> S] : Ordered(s) /\ Range(s) = S
    BY <1>1
  <1>3. \A i, j \in 1 .. k : s[i] = s[j] => i = j
    <2>1. \A i, j \in 1 .. k : i < j => s[i] < s[j]
      BY <1>2 DEF Ordered
    <2>2. \A i \in 1 .. k : s[i] \in S
      OBVIOUS
    <2>6. \A x \in S : x \in Int
      OBVIOUS
    <2>3. \A i \in 1 .. k : s[i] \in Int
      BY <2>2, <2>6, Zenon
    <2>4. \A i, j \in 1 .. k : i < j \/ j < i \/ i = j
      OBVIOUS
    <2>5. QED
      BY <2>1, <2>3, <2>4
  <1>4. s \in Bijection(1 .. k, S)
    BY <1>2, <1>3 DEF Bijection, Injection, Surjection, Range, IsInjective
  <1>5. Cardinality(S) = k
    BY <1>4, FS_CountingElements DEF ExistsBijection
  <1>6. InOrder(S) \in [1 .. k -> S] /\ Ordered(InOrder(S))
    BY <1>2, <1>5 DEF InOrder, Ordered
  <1>7. PICK t \in [1 .. k -> S] : t = InOrder(S) /\ Ordered(t)
    BY <1>6
  <1>8. \A i, j \in 1 .. k : t[i] = t[j] => i = j
    <2>1. \A i, j \in 1 .. k : i < j => t[i] < t[j]
      BY <1>7 DEF Ordered
    <2>2. \A i \in 1 .. k : t[i] \in S
      OBVIOUS
    <2>6. \A x \in S : x \in Int
      OBVIOUS
    <2>3. \A i \in 1 .. k : t[i] \in Int
      BY <2>2, <2>6, Zenon
    <2>4. \A i, j \in 1 .. k : i < j \/ j < i \/ i = j
      OBVIOUS
    <2>5. QED
      BY <2>1, <2>3, <2>4
  <1>9. t \in Injection(1 .. k, S)
    BY <1>8 DEF Injection, IsInjective
  <1>10. Range(t) = S
    <2>1. IsFiniteSet(S) /\ Cardinality(1 .. k) = k
      <3>1. IsFiniteSet(S)
        BY <1>4, FS_NatBijection DEF ExistsBijection
      <3>2. Cardinality(1 .. k) = k
        BY FS_Interval
      <3>3. QED
        BY <3>1, <3>2
    <2>2. t \in Surjection(1 .. k, S)
      BY <1>5, <1>9, <2>1, FS_Injection
    <2>3. QED
      BY <2>2 DEF Surjection, Range
  <1>11. t \in Seq(S) /\ DOMAIN t = 1 .. k
    OBVIOUS
  <1>12. QED
    BY <1>7, <1>8, <1>10, <1>11
-----------------------------------------------------------------------------
(* Types *)

\* Jobs that carry an envelope of E, and jobs that carry none.
Tasks(E, names, idle) ==
    [do : names, envelope : E] \cup [do : idle, envelope : {0}]

ItemsOf(E) == [envelope : E, attempts : 1 .. (MaxAttempts - 1)]
Batches(E) ==
    [items : Seq(ItemsOf(E)), plain : Seq(E), failed : SUBSET E, keys : SUBSET Messages]
Rows == [attempts : 1 .. (MaxAttempts - 1), decrypted : BOOLEAN]

ServerType ==
    /\ onServer \subseteq Messages
    /\ live \subseteq Envelopes
    /\ arrived \in Seq(Messages)

IncomingJobs(E) ==
    Tasks(E, {"decryptAndCache"}, {"queueAllCached", "onEmpty", "waitForIncoming"})
EncryptedJobs(E) == Tasks(E, {"decrypt", "queueDecrypted"}, {"waitForEncrypted"})
DecryptedJobs(E) ==
    Tasks(E, {"handle", "decryptionError"}, {"batchHandled", "waitForDecrypted"})
AppJobs(E) == Tasks(E, {"message", "delivery"}, {"emitEmpty"})

QueueType ==
    /\ incoming \in Seq(IncomingJobs(Envelopes))
    /\ addBatch \in Seq(ItemsOf(Envelopes))
    /\ zoneQueue \in Seq(Seq(ItemsOf(Envelopes)))
    /\ encrypted \in Seq(EncryptedJobs(Envelopes))
    /\ decrypted \in Seq(DecryptedJobs(Envelopes))
    /\ appQueue \in Seq(AppJobs(Envelopes))

BatchType ==
    /\ batchPhase \in {"none", "decrypting", "committing", "acking", "stuck"}
    /\ batch \in Batches(Envelopes)

AppType ==
    /\ removeBatch \subseteq Envelopes
    /\ jobQueue \in [Conversations -> Seq(Envelopes)]
    /\ inMemory \subseteq Messages
    /\ saving \in Seq(Envelopes)
    /\ failedHere \subseteq failedEver /\ failedEver \subseteq Messages

FlagType ==
    {emptySent, waitForBatcher, isEmptied, retryTimer, stoppingProcessing}
        \subseteq BOOLEAN

RowType ==
    /\ rows \in [DOMAIN rows -> Rows]
    /\ DOMAIN rows \subseteq Envelopes

TableType ==
    /\ advanced \subseteq Messages
    /\ saved \in Seq(Messages)
    /\ gaveUp \subseteq Messages

\* Where an envelope is.
Labels(q, name, f) == {f[q[i].envelope] : i \in {j \in DOMAIN q : q[j].do = name}}
Id == [e \in Nat |-> e]
Envs(s) == {s[i].envelope : i \in DOMAIN s}
DecryptJobs == Labels(encrypted, "decrypt", Id)

\* What a batch has to do, and what it will store, are items of it.
BatchKnowsItems ==
    /\ batchPhase \in {"decrypting", "committing", "stuck"} =>
          Stored \cup DecryptJobs \subseteq Envs(batch.items)
    /\ batchPhase # "decrypting" => DecryptJobs = {}

DataType ==
    /\ ServerType /\ QueueType /\ BatchType /\ AppType /\ FlagType
    /\ RowType /\ TableType
    /\ BatchKnowsItems

LEMMA DataTypeTypes == DataType => TypeOK
  <1> SUFFICES ASSUME DataType PROVE TypeOK
    OBVIOUS
  <1>1. Envelopes \subseteq Nat /\ 0 \in Nat
    BY DEF Envelopes
  <1>2. \A e \in Envelopes : e \in Nat
    BY <1>1
  <1>3. ItemsOf(Envelopes) \subseteq Items
    BY <1>2, ReceiverAssumption DEF ItemsOf, Items
  <1>4. ASSUME NEW names, NEW idle, NEW q \in Seq(Tasks(Envelopes, names, idle))
        PROVE  q \in Seq(JobsOf(names \cup idle))
    <2>1. Tasks(Envelopes, names, idle) \subseteq JobsOf(names \cup idle)
      BY <1>2 DEF Tasks, JobsOf
    <2>2. QED
      BY <2>1, SeqWiden
  <1>5. addBatch \in Seq(Items)
    BY <1>3, SeqWiden DEF DataType, QueueType
  <1>6. zoneQueue \in Seq(Seq(Items))
    <2>1. Seq(ItemsOf(Envelopes)) \subseteq Seq(Items)
      BY <1>3, SeqWiden
    <2>2. QED
      BY <2>1, SeqWiden DEF DataType, QueueType
  <1>7. incoming \in Seq(JobsOf({"queueAllCached", "decryptAndCache", "onEmpty",
                                "waitForIncoming"}))
    <2>1. {"decryptAndCache"} \cup {"queueAllCached", "onEmpty", "waitForIncoming"}
             = {"queueAllCached", "decryptAndCache", "onEmpty", "waitForIncoming"}
      OBVIOUS
    <2>2. incoming \in Seq(JobsOf({"decryptAndCache"} \cup {"queueAllCached", "onEmpty", "waitForIncoming"}))
      BY <1>4 DEF DataType, QueueType, IncomingJobs, EncryptedJobs, DecryptedJobs, AppJobs
    <2>3. QED
      BY <2>1, <2>2
  <1>8. encrypted \in Seq(JobsOf({"decrypt", "queueDecrypted", "waitForEncrypted"}))
    <2>1. {"decrypt", "queueDecrypted"} \cup {"waitForEncrypted"}
             = {"decrypt", "queueDecrypted", "waitForEncrypted"}
      OBVIOUS
    <2>2. encrypted \in Seq(JobsOf({"decrypt", "queueDecrypted"} \cup {"waitForEncrypted"}))
      BY <1>4 DEF DataType, QueueType, IncomingJobs, EncryptedJobs, DecryptedJobs, AppJobs
    <2>3. QED
      BY <2>1, <2>2
  <1>9. decrypted \in Seq(JobsOf({"handle", "batchHandled", "decryptionError",
                                 "waitForDecrypted"}))
    <2>1. {"handle", "decryptionError"} \cup {"batchHandled", "waitForDecrypted"}
             = {"handle", "batchHandled", "decryptionError", "waitForDecrypted"}
      OBVIOUS
    <2>2. decrypted \in Seq(JobsOf({"handle", "decryptionError"} \cup {"batchHandled", "waitForDecrypted"}))
      BY <1>4 DEF DataType, QueueType, IncomingJobs, EncryptedJobs, DecryptedJobs, AppJobs
    <2>3. QED
      BY <2>1, <2>2
  <1>10. appQueue \in Seq(JobsOf({"message", "delivery", "emitEmpty"}))
    <2>1. {"message", "delivery"} \cup {"emitEmpty"} = {"message", "delivery", "emitEmpty"}
      OBVIOUS
    <2>2. appQueue \in Seq(JobsOf({"message", "delivery"} \cup {"emitEmpty"}))
      BY <1>4 DEF DataType, QueueType, IncomingJobs, EncryptedJobs, DecryptedJobs, AppJobs
    <2>3. QED
      BY <2>1, <2>2
  <1>11. batch \in [items : Seq(Items), plain : Seq(Envelopes),
                    failed : SUBSET Envelopes, keys : SUBSET Messages]
    <2>1. Seq(ItemsOf(Envelopes)) \subseteq Seq(Items)
      BY <1>3, SeqWiden
    <2>2. QED
      BY <2>1 DEF DataType, BatchType, Batches
  <1>12. \A e \in DOMAIN rows :
            rows[e] \in [attempts : 1 .. (MaxAttempts - 1), decrypted : BOOLEAN]
    BY DEF DataType, RowType, Rows
  <1>13. QED
    BY <1>5, <1>6, <1>7, <1>8, <1>9, <1>10, <1>11, <1>12
       DEF TypeOK, DataType, ServerType, BatchType, AppType, FlagType, RowType, TableType

LEMMA InitDataType == Init => DataType
  <1> SUFFICES ASSUME Init PROVE DataType
    OBVIOUS
  <1>1. incoming = <<Job("queueAllCached", 0)>>
    BY DEF Init
  <1>2. Job("queueAllCached", 0) \in IncomingJobs(Envelopes)
    BY DEF IncomingJobs, Tasks, Job
  <1>3. QueueType
    BY <1>1, <1>2 DEF Init, QueueType
  <1>4. BatchType
    BY DEF Init, BatchType, Batches, NoBatch
  <1>5. RowType
    BY DEF Init, RowType
  <1>6. BatchKnowsItems
    BY DEF Init, BatchKnowsItems, DecryptJobs, Labels
  <1>7. ServerType
    BY DEF Init, ServerType
  <1>8. AppType /\ TableType
    BY DEF Init, AppType, TableType
  <1>9. FlagType
    BY Zenon DEF Init, FlagType
  <1>10. QED
    BY <1>3, <1>4, <1>5, <1>6, <1>7, <1>8, <1>9 DEF DataType
-----------------------------------------------------------------------------
(* Jobs in a queue *)

\* At most one job of a name for each label.
Distinct(q, name, f) ==
    \A i, j \in DOMAIN q :
       (/\ q[i].do = name /\ q[j].do = name
        /\ f[q[i].envelope] = f[q[j].envelope])
       => i = j

LEMMA InLabels ==
    ASSUME NEW q, NEW name, NEW f, NEW x
    PROVE  x \in Labels(q, name, f) <=>
              \E i \in DOMAIN q : q[i].do = name /\ f[q[i].envelope] = x
  BY DEF Labels

LEMMA LabelsTail ==
    ASSUME NEW S, NEW q \in Seq(S), q # <<>>, NEW name, NEW f
    PROVE  /\ Labels(Tail(q), name, f) \subseteq Labels(q, name, f)
           /\ Head(q).do # name => Labels(Tail(q), name, f) = Labels(q, name, f)
           /\ Head(q).do = name =>
                 /\ f[Head(q).envelope] \in Labels(q, name, f)
                 /\ Labels(q, name, f) =
                       Labels(Tail(q), name, f) \cup {f[Head(q).envelope]}
  <1> DEFINE t == Tail(q)
  <1>1. /\ Head(q) = q[1] /\ 1 \in DOMAIN q
        /\ \A i \in DOMAIN t : i + 1 \in DOMAIN q /\ t[i] = q[i + 1]
        /\ \A i \in DOMAIN q : i = 1 \/ (i - 1 \in DOMAIN t /\ t[i - 1] = q[i])
    BY TailFacts
  <1> HIDE DEF t
  <1>2. ASSUME NEW x \in Labels(t, name, f) PROVE x \in Labels(q, name, f)
    <2>1. PICK i \in DOMAIN t : t[i].do = name /\ f[t[i].envelope] = x
      BY <1>2, InLabels
    <2>2. i + 1 \in DOMAIN q /\ t[i] = q[i + 1]
      BY <1>1
    <2>3. \E k \in DOMAIN q : q[k].do = name /\ f[q[k].envelope] = x
      BY <2>1, <2>2
    <2>4. QED
      BY <2>3, InLabels
  <1>3. ASSUME NEW x \in Labels(q, name, f)
        PROVE  x \in Labels(t, name, f) \/ (Head(q).do = name /\ x = f[Head(q).envelope])
    <2>1. PICK i \in DOMAIN q : q[i].do = name /\ f[q[i].envelope] = x
      BY <1>3, InLabels
    <2>2. CASE i = 1
      BY <1>1, <2>1, <2>2
    <2>3. CASE i # 1
      <3>1. i - 1 \in DOMAIN t /\ t[i - 1] = q[i]
        BY <1>1, <2>3
      <3>2. \E k \in DOMAIN t : t[k].do = name /\ f[t[k].envelope] = x
        BY <2>1, <3>1
      <3>3. QED
        BY <3>2, InLabels
    <2>4. QED
      BY <2>2, <2>3
  <1>4. Head(q).do = name => f[Head(q).envelope] \in Labels(q, name, f)
    <2>1. Head(q).do = name =>
             \E k \in DOMAIN q : q[k].do = name /\ f[q[k].envelope] = f[Head(q).envelope]
      BY <1>1
    <2>2. QED
      BY <2>1, InLabels
  <1>5. QED
    BY <1>2, <1>3, <1>4 DEF t

LEMMA LabelsAppend ==
    ASSUME NEW S, NEW q \in Seq(S), NEW x \in S, NEW name, NEW f
    PROVE  Labels(Append(q, x), name, f) =
              Labels(q, name, f) \cup (IF x.do = name THEN {f[x.envelope]} ELSE {})
  <1> DEFINE t == Append(q, x)
             n == Len(q) + 1
  <1>1. /\ DOMAIN t = DOMAIN q \cup {n} /\ t[n] = x /\ n \notin DOMAIN q
        /\ \A i \in DOMAIN q : t[i] = q[i]
    BY AppendFacts
  <1> HIDE DEF t, n
  <1>2. QED
    BY <1>1 DEF Labels, t

LEMMA JobAppended ==
    ASSUME NEW S, NEW q \in Seq(S), NEW job, NEW e, Job(job, e) \in S, NEW f
    PROVE  /\ Labels(Append(q, Job(job, e)), job, f) = Labels(q, job, f) \cup {f[e]}
           /\ \A name : name # job =>
                 Labels(Append(q, Job(job, e)), name, f) = Labels(q, name, f)
  <1>1. PICK x \in S : x = Job(job, e)
    OBVIOUS
  <1>2. x.do = job /\ x.envelope = e
    BY <1>1 DEF Job
  <1>3. \A name : Labels(Append(q, x), name, f) =
                     Labels(q, name, f) \cup (IF job = name THEN {f[e]} ELSE {})
    BY <1>2, LabelsAppend
  <1>4. QED
    BY <1>1, <1>3

LEMMA LabelsConcat ==
    ASSUME NEW S, NEW q \in Seq(S), NEW r \in Seq(S), NEW name, NEW f
    PROVE  Labels(q \o r, name, f) = Labels(q, name, f) \cup Labels(r, name, f)
  <1> DEFINE t == q \o r
  <1>1. /\ \A i \in DOMAIN q : i \in DOMAIN t /\ t[i] = q[i]
        /\ \A i \in DOMAIN r : i + Len(q) \in DOMAIN t /\ t[i + Len(q)] = r[i]
        /\ \A i \in DOMAIN t : i \in DOMAIN q \/ i - Len(q) \in DOMAIN r
    <2>1. \A i \in DOMAIN q : i \in DOMAIN t /\ t[i] = q[i]
      OBVIOUS
    <2>2. \A i \in DOMAIN r : i + Len(q) \in DOMAIN t /\ t[i + Len(q)] = r[i]
      OBVIOUS
    <2>3. \A i \in DOMAIN t : i \in DOMAIN q \/ i - Len(q) \in DOMAIN r
      OBVIOUS
    <2> HIDE DEF t
    <2>4. QED
      BY <2>1, <2>2, <2>3
  <1>2. \A i \in DOMAIN t : i \in DOMAIN q \/ (i - Len(q)) + Len(q) = i
    OBVIOUS
  <1> HIDE DEF t
  <1>3. ASSUME NEW x \in Labels(t, name, f)
        PROVE  x \in Labels(q, name, f) \/ x \in Labels(r, name, f)
    <2>1. PICK i \in DOMAIN t : t[i].do = name /\ f[t[i].envelope] = x
      BY <1>3, InLabels
    <2>2. CASE i \in DOMAIN q
      BY <1>1, <2>1, <2>2, InLabels
    <2>3. CASE i \notin DOMAIN q
      <3>1. i - Len(q) \in DOMAIN r /\ t[i] = r[i - Len(q)]
        BY <1>1, <1>2, <2>3
      <3>2. QED
        BY <2>1, <3>1, InLabels
    <2>4. QED
      BY <2>2, <2>3
  <1>4. ASSUME NEW x \in Labels(q, name, f) PROVE x \in Labels(t, name, f)
    BY <1>1, <1>4, InLabels
  <1>5. ASSUME NEW x \in Labels(r, name, f) PROVE x \in Labels(t, name, f)
    <2>1. PICK i \in DOMAIN r : r[i].do = name /\ f[r[i].envelope] = x
      BY <1>5, InLabels
    <2>2. i + Len(q) \in DOMAIN t /\ t[i + Len(q)] = r[i]
      BY <1>1
    <2>3. QED
      BY <2>1, <2>2, InLabels
  <1>6. QED
    BY <1>3, <1>4, <1>5 DEF t

\* A sequence of jobs of one name.
LEMMA LabelsOfJobs ==
    ASSUME NEW s, NEW job, NEW f
    PROVE  Labels([i \in DOMAIN s |-> Job(job, s[i])], job, f) = {f[s[i]] : i \in DOMAIN s}
  BY DEF Labels, Job

LEMMA LabelsOfOthers ==
    ASSUME NEW s, NEW job, NEW name, name # job, NEW f
    PROVE  Labels([i \in DOMAIN s |-> Job(job, s[i])], name, f) = {}
  BY DEF Labels, Job

LEMMA LabelsOfEmpty ==
    ASSUME NEW name, NEW f
    PROVE  Labels(<<>>, name, f) = {}
  BY DEF Labels

LEMMA HeadTask ==
    ASSUME NEW E, NEW names, NEW idle, NEW t \in Tasks(E, names, idle), t.do \notin idle
    PROVE  t.envelope \in E /\ t.do \in names
  BY DEF Tasks

LEMMA NewTask ==
    ASSUME NEW E, NEW names, NEW idle
    PROVE  /\ \A n \in names : \A e \in E : Job(n, e) \in Tasks(E, names, idle)
           /\ \A n \in idle : Job(n, 0) \in Tasks(E, names, idle)
  BY DEF Tasks, Job

LEMMA MoreTasks ==
    ASSUME NEW E, NEW F, E \subseteq F, NEW names, NEW idle
    PROVE  Tasks(E, names, idle) \subseteq Tasks(F, names, idle)
  BY DEF Tasks
-----------------------------------------------------------------------------
(* What an action leaves alone keeps its type *)

LEMMA SameEnvelopes ==
    ASSUME arrived' = arrived
    PROVE  Envelopes' = Envelopes /\ \A e : MessageOf(e)' = MessageOf(e)
  BY DEF Envelopes, MessageOf

LEMMA SameTypes ==
    ASSUME DataType, arrived' = arrived
    PROVE  /\ UNCHANGED <<onServer, live>> => ServerType'
           /\ UNCHANGED queueVars => QueueType'
           /\ UNCHANGED batchVars => BatchType'
           /\ UNCHANGED <<removeBatch, appVars, failedEver>> => AppType'
           /\ UNCHANGED <<emptySent, flagVars>> => FlagType'
           /\ UNCHANGED rows => RowType'
           /\ UNCHANGED <<advanced, saved, gaveUp>> => TableType'
  <1>1. Envelopes' = Envelopes
    BY SameEnvelopes
  <1>2. UNCHANGED <<onServer, live>> => ServerType'
    BY <1>1 DEF DataType, ServerType
  <1>3. UNCHANGED queueVars => QueueType'
    BY <1>1 DEF DataType, QueueType, queueVars
  <1>4. UNCHANGED batchVars => BatchType'
    BY <1>1 DEF DataType, BatchType, batchVars
  <1>5. UNCHANGED <<removeBatch, appVars, failedEver>> => AppType'
    BY <1>1 DEF DataType, AppType, appVars
  <1>6. UNCHANGED <<emptySent, flagVars>> => FlagType'
    BY <1>1 DEF DataType, FlagType, flagVars
  <1>7. UNCHANGED rows => RowType'
    BY <1>1 DEF DataType, RowType
  <1>8. UNCHANGED <<advanced, saved, gaveUp>> => TableType'
    BY <1>1 DEF DataType, TableType
  <1>9. QED
    BY <1>2, <1>3, <1>4, <1>5, <1>6, <1>7, <1>8

LEMMA SameItems ==
    ASSUME DataType, UNCHANGED batchVars, DecryptJobs' \subseteq DecryptJobs
    PROVE  BatchKnowsItems'
  BY DEF DataType, BatchKnowsItems, batchVars, Stored, Envs

LEMMA SameJobs ==
    ASSUME encrypted' = encrypted
    PROVE  DecryptJobs' = DecryptJobs
  BY DEF DecryptJobs

LEMMA FlagTypes ==
    FlagType <=>
       /\ emptySent \in BOOLEAN /\ waitForBatcher \in BOOLEAN /\ isEmptied \in BOOLEAN
       /\ retryTimer \in BOOLEAN /\ stoppingProcessing \in BOOLEAN
  BY Zenon DEF FlagType

LEMMA FlagTypesNext ==
    FlagType' <=>
       /\ emptySent' \in BOOLEAN /\ waitForBatcher' \in BOOLEAN /\ isEmptied' \in BOOLEAN
       /\ retryTimer' \in BOOLEAN /\ stoppingProcessing' \in BOOLEAN
  BY Zenon DEF FlagType
-----------------------------------------------------------------------------
(* Each action keeps the types *)

LEMMA TypeDeliverEmpty ==
    ASSUME DataType, DeliverEmpty
    PROVE  DataType'
  <1>1. /\ arrived' = arrived
        /\ UNCHANGED <<onServer, live>>
        /\ UNCHANGED batchVars
        /\ UNCHANGED <<removeBatch, appVars, failedEver>>
        /\ UNCHANGED rows
        /\ UNCHANGED <<advanced, saved, gaveUp>>
        /\ UNCHANGED encrypted
    BY DEF DeliverEmpty, serverVars, queueVars, batchVars, appVars, flagVars, dbVars, historyVars
  <1>2. Envelopes' = Envelopes
    BY <1>1, SameEnvelopes
  <1>3. Job("onEmpty", 0) \in IncomingJobs(Envelopes)
    BY NewTask DEF IncomingJobs
  <1>4. QueueType'
    BY <1>1, <1>2, <1>3, AppendFacts DEF DeliverEmpty, serverVars, queueVars, batchVars, appVars, flagVars, dbVars, historyVars, DataType, QueueType
  <1>5. FlagType'
    BY <1>1, FlagTypes, FlagTypesNext DEF DeliverEmpty, serverVars, queueVars, batchVars, appVars, flagVars, dbVars, historyVars, DataType
  <1>6. BatchKnowsItems'
    BY <1>1, SameItems, SameJobs
  <1>7. QED
    BY <1>1, <1>3, <1>4, <1>5, <1>6, SameTypes DEF DataType

LEMMA TypeReconnect ==
    ASSUME DataType, Reconnect
    PROVE  DataType'
  <1>1. /\ arrived' = arrived
        /\ UNCHANGED batchVars
        /\ UNCHANGED <<removeBatch, appVars, failedEver>>
        /\ UNCHANGED rows
        /\ UNCHANGED <<advanced, saved, gaveUp>>
        /\ UNCHANGED encrypted
    BY DEF Reconnect, serverVars, queueVars, batchVars, appVars, flagVars, dbVars, historyVars
  <1>2. Envelopes' = Envelopes
    BY <1>1, SameEnvelopes
  <1>3. Job("queueAllCached", 0) \in IncomingJobs(Envelopes)
    BY NewTask DEF IncomingJobs
  <1>4. QueueType'
    BY <1>1, <1>2, <1>3, AppendFacts DEF Reconnect, serverVars, queueVars, batchVars, appVars, flagVars, dbVars, historyVars, DataType, QueueType
  <1>5. FlagType'
    BY <1>1, FlagTypes, FlagTypesNext DEF Reconnect, serverVars, queueVars, batchVars, appVars, flagVars, dbVars, historyVars, DataType
  <1>6. ServerType'
    BY <1>1, <1>2 DEF Reconnect, serverVars, queueVars, batchVars, appVars, flagVars, dbVars, historyVars, DataType, ServerType
  <1>7. BatchKnowsItems'
    BY <1>1, SameItems, SameJobs
  <1>8. QED
    BY <1>1, <1>3, <1>4, <1>5, <1>6, <1>7, SameTypes DEF DataType

LEMMA TypeRetryTimeout ==
    ASSUME DataType, RetryTimeout
    PROVE  DataType'
  <1>1. /\ arrived' = arrived
        /\ UNCHANGED <<onServer, live>>
        /\ UNCHANGED batchVars
        /\ UNCHANGED <<removeBatch, appVars, failedEver>>
        /\ UNCHANGED rows
        /\ UNCHANGED <<advanced, saved, gaveUp>>
        /\ UNCHANGED encrypted
    BY DEF RetryTimeout, serverVars, queueVars, batchVars, appVars, flagVars, dbVars, historyVars
  <1>2. Envelopes' = Envelopes
    BY <1>1, SameEnvelopes
  <1>3. Job("queueAllCached", 0) \in IncomingJobs(Envelopes)
    BY NewTask DEF IncomingJobs
  <1>4. QueueType'
    BY <1>1, <1>2, <1>3, AppendFacts DEF RetryTimeout, serverVars, queueVars, batchVars, appVars, flagVars, dbVars, historyVars, DataType, QueueType
  <1>5. FlagType'
    BY <1>1, FlagTypes, FlagTypesNext DEF RetryTimeout, serverVars, queueVars, batchVars, appVars, flagVars, dbVars, historyVars, DataType
  <1>6. BatchKnowsItems'
    BY <1>1, SameItems, SameJobs
  <1>7. QED
    BY <1>1, <1>3, <1>4, <1>5, <1>6, SameTypes DEF DataType

LEMMA TypeStopProcessing ==
    ASSUME DataType, StopProcessing
    PROVE  DataType'
  <1>1. /\ arrived' = arrived
        /\ UNCHANGED <<onServer, live>>
        /\ UNCHANGED queueVars
        /\ UNCHANGED batchVars
        /\ UNCHANGED <<removeBatch, appVars, failedEver>>
        /\ UNCHANGED rows
        /\ UNCHANGED <<advanced, saved, gaveUp>>
        /\ UNCHANGED encrypted
    BY DEF StopProcessing, serverVars, queueVars, batchVars, appVars, flagVars, dbVars, historyVars
  <1>2. Envelopes' = Envelopes
    BY <1>1, SameEnvelopes
  <1>3. FlagType'
    BY <1>1, FlagTypes, FlagTypesNext DEF StopProcessing, serverVars, queueVars, batchVars, appVars, flagVars, dbVars, historyVars, DataType
  <1>4. BatchKnowsItems'
    BY <1>1, SameItems, SameJobs
  <1>5. QED
    BY <1>1, <1>3, <1>4, SameTypes DEF DataType

LEMMA TypeCrashAndRestart ==
    ASSUME DataType, CrashAndRestart
    PROVE  DataType'
  <1>1. /\ arrived' = arrived
        /\ UNCHANGED rows
        /\ UNCHANGED <<advanced, saved, gaveUp>>
    BY DEF CrashAndRestart, serverVars, queueVars, batchVars, appVars, flagVars, dbVars, historyVars
  <1>2. Envelopes' = Envelopes
    BY <1>1, SameEnvelopes
  <1>3. Job("queueAllCached", 0) \in IncomingJobs(Envelopes)
    BY NewTask DEF IncomingJobs
  <1>4. QueueType'
    BY <1>1, <1>2, <1>3 DEF CrashAndRestart, DataType, QueueType
  <1>5. FlagType'
    BY <1>1, FlagTypes, FlagTypesNext, Zenon DEF CrashAndRestart
  <1>6. ServerType'
    BY <1>1, <1>2 DEF CrashAndRestart, serverVars, queueVars, batchVars, appVars, flagVars, dbVars, historyVars, DataType, ServerType
  <1>7. BatchType'
    BY <1>1, <1>2 DEF CrashAndRestart, BatchType, Batches, NoBatch
  <1>8. AppType'
    BY <1>1, <1>2 DEF CrashAndRestart, DataType, AppType
  <1>9. BatchKnowsItems'
    BY DEF CrashAndRestart, BatchKnowsItems, DecryptJobs, Labels
  <1>10. QED
    BY <1>1, <1>3, <1>4, <1>5, <1>6, <1>7, <1>8, <1>9, SameTypes DEF DataType

LEMMA TypeDecryptAndCache ==
    ASSUME DataType, DecryptAndCache
    PROVE  DataType'
  <1>1. /\ arrived' = arrived
        /\ UNCHANGED <<onServer, live>>
        /\ UNCHANGED batchVars
        /\ UNCHANGED <<removeBatch, appVars, failedEver>>
        /\ UNCHANGED <<emptySent, flagVars>>
        /\ UNCHANGED rows
        /\ UNCHANGED <<advanced, saved, gaveUp>>
        /\ UNCHANGED encrypted
    BY DEF DecryptAndCache, serverVars, queueVars, batchVars, appVars, flagVars, dbVars, historyVars
  <1>2. Envelopes' = Envelopes
    BY <1>1, SameEnvelopes
  <1>3. incoming # <<>> /\ Head(incoming) \in IncomingJobs(Envelopes) /\ Tail(incoming) \in Seq(IncomingJobs(Envelopes))
    BY TailFacts DEF DecryptAndCache, Next1, DataType, QueueType
  <1>4. Head(incoming).envelope \in Envelopes
    BY <1>3, HeadTask DEF DecryptAndCache, Next1, IncomingJobs
  <1>5. Item(Head(incoming).envelope, 1) \in ItemsOf(Envelopes)
    BY <1>4, ReceiverAssumption DEF Item, ItemsOf
  <1>6. QueueType'
    BY <1>1, <1>2, <1>3, <1>5, AppendFacts DEF DecryptAndCache, serverVars, queueVars, batchVars, appVars, flagVars, dbVars, historyVars, DataType, QueueType
  <1>7. BatchKnowsItems'
    BY <1>1, SameItems, SameJobs
  <1>8. QED
    BY <1>1, <1>3, <1>4, <1>5, <1>6, <1>7, SameTypes DEF DataType

LEMMA TypeOnEmpty ==
    ASSUME DataType, OnEmpty
    PROVE  DataType'
  <1>1. /\ arrived' = arrived
        /\ UNCHANGED <<onServer, live>>
        /\ UNCHANGED batchVars
        /\ UNCHANGED <<removeBatch, appVars, failedEver>>
        /\ UNCHANGED rows
        /\ UNCHANGED <<advanced, saved, gaveUp>>
        /\ UNCHANGED encrypted
    BY DEF OnEmpty, serverVars, queueVars, batchVars, appVars, flagVars, dbVars, historyVars
  <1>2. Envelopes' = Envelopes
    BY <1>1, SameEnvelopes
  <1>3. incoming # <<>> /\ Head(incoming) \in IncomingJobs(Envelopes) /\ Tail(incoming) \in Seq(IncomingJobs(Envelopes))
    BY TailFacts DEF OnEmpty, Next1, DataType, QueueType
  <1>4. QueueType'
    BY <1>1, <1>2, <1>3 DEF OnEmpty, serverVars, queueVars, batchVars, appVars, flagVars, dbVars, historyVars, DataType, QueueType
  <1>5. FlagType'
    BY <1>1, FlagTypes, FlagTypesNext DEF OnEmpty, serverVars, queueVars, batchVars, appVars, flagVars, dbVars, historyVars, DataType
  <1>6. BatchKnowsItems'
    BY <1>1, SameItems, SameJobs
  <1>7. QED
    BY <1>1, <1>3, <1>4, <1>5, <1>6, SameTypes DEF DataType

LEMMA TypeBatcherIdle ==
    ASSUME DataType, BatcherIdle
    PROVE  DataType'
  <1>1. /\ arrived' = arrived
        /\ UNCHANGED <<onServer, live>>
        /\ UNCHANGED batchVars
        /\ UNCHANGED <<removeBatch, appVars, failedEver>>
        /\ UNCHANGED rows
        /\ UNCHANGED <<advanced, saved, gaveUp>>
        /\ UNCHANGED encrypted
    BY DEF BatcherIdle, serverVars, queueVars, batchVars, appVars, flagVars, dbVars, historyVars
  <1>2. Envelopes' = Envelopes
    BY <1>1, SameEnvelopes
  <1>3. Job("waitForIncoming", 0) \in IncomingJobs(Envelopes)
    BY NewTask DEF IncomingJobs
  <1>4. QueueType'
    BY <1>1, <1>2, <1>3, AppendFacts DEF BatcherIdle, serverVars, queueVars, batchVars, appVars, flagVars, dbVars, historyVars, DataType, QueueType
  <1>5. FlagType'
    BY <1>1, FlagTypes, FlagTypesNext DEF BatcherIdle, serverVars, queueVars, batchVars, appVars, flagVars, dbVars, historyVars, DataType
  <1>6. BatchKnowsItems'
    BY <1>1, SameItems, SameJobs
  <1>7. QED
    BY <1>1, <1>3, <1>4, <1>5, <1>6, SameTypes DEF DataType

LEMMA TypeWaitForIncoming ==
    ASSUME DataType, WaitForIncoming
    PROVE  DataType'
  <1>1. /\ arrived' = arrived
        /\ UNCHANGED <<onServer, live>>
        /\ UNCHANGED batchVars
        /\ UNCHANGED <<removeBatch, appVars, failedEver>>
        /\ UNCHANGED <<emptySent, flagVars>>
        /\ UNCHANGED rows
        /\ UNCHANGED <<advanced, saved, gaveUp>>
    BY DEF WaitForIncoming, serverVars, queueVars, batchVars, appVars, flagVars, dbVars, historyVars
  <1>2. Envelopes' = Envelopes
    BY <1>1, SameEnvelopes
  <1>3. incoming # <<>> /\ Head(incoming) \in IncomingJobs(Envelopes) /\ Tail(incoming) \in Seq(IncomingJobs(Envelopes))
    BY TailFacts DEF WaitForIncoming, Next1, DataType, QueueType
  <1>4. Job("waitForEncrypted", 0) \in EncryptedJobs(Envelopes)
    BY NewTask DEF EncryptedJobs
  <1>5. QueueType'
    BY <1>1, <1>2, <1>3, <1>4, AppendFacts DEF WaitForIncoming, serverVars, queueVars, batchVars, appVars, flagVars, dbVars, historyVars, DataType, QueueType
  <1>6. DecryptJobs' = DecryptJobs
    <2>1. encrypted \in Seq(EncryptedJobs(Envelopes))
      BY DEF DataType, QueueType
    <2>2. Labels(Append(encrypted, Job("waitForEncrypted", 0)), "decrypt", Id) =
             Labels(encrypted, "decrypt", Id)
      BY <1>4, <2>1, JobAppended
    <2>3. QED
      BY <2>2 DEF WaitForIncoming, DecryptJobs
  <1>7. BatchKnowsItems'
    BY <1>1, <1>6, SameItems
  <1>8. QED
    BY <1>1, <1>3, <1>4, <1>5, <1>6, <1>7, SameTypes DEF DataType

LEMMA TypeStartBatch ==
    ASSUME DataType, StartBatch
    PROVE  DataType'
  <1>1. /\ arrived' = arrived
        /\ UNCHANGED <<onServer, live>>
        /\ UNCHANGED batchVars
        /\ UNCHANGED <<removeBatch, appVars, failedEver>>
        /\ UNCHANGED <<emptySent, flagVars>>
        /\ UNCHANGED rows
        /\ UNCHANGED <<advanced, saved, gaveUp>>
        /\ UNCHANGED encrypted
    BY DEF StartBatch, serverVars, queueVars, batchVars, appVars, flagVars, dbVars, historyVars
  <1>2. Envelopes' = Envelopes
    BY <1>1, SameEnvelopes
  <1>3. QueueType'
    BY <1>1, <1>2, AppendFacts DEF StartBatch, serverVars, queueVars, batchVars, appVars, flagVars, dbVars, historyVars, DataType, QueueType
  <1>4. BatchKnowsItems'
    BY <1>1, SameItems, SameJobs
  <1>5. QED
    BY <1>1, <1>3, <1>4, SameTypes DEF DataType

LEMMA TypeQueueDecrypted ==
    ASSUME DataType, QueueDecrypted
    PROVE  DataType'
  <1>1. /\ arrived' = arrived
        /\ UNCHANGED <<onServer, live>>
        /\ UNCHANGED batchVars
        /\ UNCHANGED <<removeBatch, appVars, failedEver>>
        /\ UNCHANGED <<emptySent, flagVars>>
        /\ UNCHANGED rows
        /\ UNCHANGED <<advanced, saved, gaveUp>>
    BY DEF QueueDecrypted, serverVars, queueVars, batchVars, appVars, flagVars, dbVars, historyVars
  <1>2. Envelopes' = Envelopes
    BY <1>1, SameEnvelopes
  <1>3. encrypted # <<>> /\ Head(encrypted) \in EncryptedJobs(Envelopes) /\ Tail(encrypted) \in Seq(EncryptedJobs(Envelopes))
    BY TailFacts DEF QueueDecrypted, Next1, DataType, QueueType
  <1>4. Job("handle", Head(encrypted).envelope) \in DecryptedJobs(Envelopes)
    BY <1>3, HeadTask, NewTask DEF QueueDecrypted, Next1, EncryptedJobs, DecryptedJobs
  <1>5. QueueType'
    BY <1>1, <1>2, <1>3, <1>4, AppendFacts DEF QueueDecrypted, serverVars, queueVars, batchVars, appVars, flagVars, dbVars, historyVars, DataType, QueueType
  <1>6. DecryptJobs' \subseteq DecryptJobs
    BY <1>3, LabelsTail DEF QueueDecrypted, DecryptJobs, DataType, QueueType
  <1>7. BatchKnowsItems'
    BY <1>1, <1>6, SameItems
  <1>8. QED
    BY <1>1, <1>3, <1>4, <1>5, <1>6, <1>7, SameTypes DEF DataType

LEMMA TypeWaitForEncrypted ==
    ASSUME DataType, WaitForEncrypted
    PROVE  DataType'
  <1>1. /\ arrived' = arrived
        /\ UNCHANGED <<onServer, live>>
        /\ UNCHANGED batchVars
        /\ UNCHANGED <<removeBatch, appVars, failedEver>>
        /\ UNCHANGED <<emptySent, flagVars>>
        /\ UNCHANGED rows
        /\ UNCHANGED <<advanced, saved, gaveUp>>
    BY DEF WaitForEncrypted, serverVars, queueVars, batchVars, appVars, flagVars, dbVars, historyVars
  <1>2. Envelopes' = Envelopes
    BY <1>1, SameEnvelopes
  <1>3. encrypted # <<>> /\ Head(encrypted) \in EncryptedJobs(Envelopes) /\ Tail(encrypted) \in Seq(EncryptedJobs(Envelopes))
    BY TailFacts DEF WaitForEncrypted, Next1, DataType, QueueType
  <1>4. Job("waitForDecrypted", 0) \in DecryptedJobs(Envelopes)
    BY NewTask DEF DecryptedJobs
  <1>5. QueueType'
    BY <1>1, <1>2, <1>3, <1>4, AppendFacts DEF WaitForEncrypted, serverVars, queueVars, batchVars, appVars, flagVars, dbVars, historyVars, DataType, QueueType
  <1>6. DecryptJobs' \subseteq DecryptJobs
    BY <1>3, LabelsTail DEF WaitForEncrypted, DecryptJobs, DataType, QueueType
  <1>7. BatchKnowsItems'
    BY <1>1, <1>6, SameItems
  <1>8. QED
    BY <1>1, <1>3, <1>4, <1>5, <1>6, <1>7, SameTypes DEF DataType

LEMMA TypeSendCommit ==
    ASSUME DataType, SendCommit
    PROVE  DataType'
  <1>1. /\ arrived' = arrived
        /\ UNCHANGED <<onServer, live>>
        /\ UNCHANGED queueVars
        /\ UNCHANGED <<removeBatch, appVars, failedEver>>
        /\ UNCHANGED <<emptySent, flagVars>>
        /\ UNCHANGED rows
        /\ UNCHANGED <<advanced, saved, gaveUp>>
        /\ UNCHANGED encrypted
    BY DEF SendCommit, serverVars, queueVars, batchVars, appVars, flagVars, dbVars, historyVars
  <1>2. Envelopes' = Envelopes
    BY <1>1, SameEnvelopes
  <1>3. DecryptJobs' = {}
    BY <1>1 DEF SendCommit, DecryptJobs, Labels
  <1>4. BatchType'
    BY <1>1, <1>2 DEF SendCommit, serverVars, queueVars, batchVars, appVars, flagVars, dbVars, historyVars, DataType, BatchType
  <1>5. BatchKnowsItems'
    BY <1>1, <1>3 DEF SendCommit, DataType, BatchKnowsItems, Stored, Envs
  <1>6. QED
    BY <1>1, <1>3, <1>4, <1>5, SameTypes DEF DataType

LEMMA TypeAcknowledge ==
    ASSUME DataType, Acknowledge
    PROVE  DataType'
  <1>1. /\ arrived' = arrived
        /\ UNCHANGED queueVars
        /\ UNCHANGED <<removeBatch, appVars, failedEver>>
        /\ UNCHANGED <<emptySent, flagVars>>
        /\ UNCHANGED rows
        /\ UNCHANGED <<advanced, saved, gaveUp>>
        /\ UNCHANGED encrypted
    BY DEF Acknowledge, serverVars, queueVars, batchVars, appVars, flagVars, dbVars, historyVars
  <1>2. Envelopes' = Envelopes
    BY <1>1, SameEnvelopes
  <1>3. batch.items # <<>> /\ batch.items \in Seq(ItemsOf(Envelopes))
    BY DEF Acknowledge, DataType, BatchType, Batches
  <1>4. Tail(batch.items) \in Seq(ItemsOf(Envelopes))
    BY <1>3, TailFacts
  <1>5. BatchType'
    BY <1>1, <1>2, <1>4 DEF Acknowledge, DataType, BatchType, Batches
  <1>6. ServerType'
    BY <1>1, <1>2 DEF Acknowledge, DataType, ServerType
  <1>7. BatchKnowsItems'
    BY <1>1, SameJobs DEF Acknowledge, DataType, BatchKnowsItems
  <1>8. QED
    BY <1>1, <1>3, <1>4, <1>5, <1>6, <1>7, SameTypes DEF DataType

LEMMA TypeEndBatch ==
    ASSUME DataType, EndBatch
    PROVE  DataType'
  <1>1. /\ arrived' = arrived
        /\ UNCHANGED <<onServer, live>>
        /\ UNCHANGED <<removeBatch, appVars, failedEver>>
        /\ UNCHANGED rows
        /\ UNCHANGED <<advanced, saved, gaveUp>>
        /\ UNCHANGED encrypted
    BY DEF EndBatch, serverVars, queueVars, batchVars, appVars, flagVars, dbVars, historyVars
  <1>2. Envelopes' = Envelopes
    BY <1>1, SameEnvelopes
  <1>3. \A i \in DOMAIN batch.plain : batch.plain[i] \in Envelopes /\ Job("handle", batch.plain[i]) \in DecryptedJobs(Envelopes)
    <2>1. batch.plain \in Seq(Envelopes)
      BY DEF DataType, BatchType, Batches
    <2>2. \A e \in Envelopes : Job("handle", e) \in DecryptedJobs(Envelopes)
      BY NewTask DEF DecryptedJobs
    <2>3. QED
      BY <2>1, <2>2
  <1>4. [i \in DOMAIN batch.plain |-> Job("handle", batch.plain[i])] \in Seq(DecryptedJobs(Envelopes))
    BY <1>3 DEF DataType, BatchType, Batches
  <1>5. (IF batch.plain = <<>> THEN <<>> ELSE <<Job("batchHandled", 0)>>) \in Seq(DecryptedJobs(Envelopes))
    <2>1. Job("batchHandled", 0) \in DecryptedJobs(Envelopes)
      BY NewTask DEF DecryptedJobs
    <2>2. QED
      BY <2>1
  <1>6. decrypted' \in Seq(DecryptedJobs(Envelopes))
    BY <1>4, <1>5, ConcatFacts DEF EndBatch, DataType, QueueType
  <1>7. QueueType'
    BY <1>1, <1>2, <1>6 DEF EndBatch, serverVars, queueVars, batchVars, appVars, flagVars, dbVars, historyVars, DataType, QueueType
  <1>8. FlagType'
    BY <1>1, FlagTypes, FlagTypesNext, Zenon DEF EndBatch, serverVars, queueVars, batchVars, appVars, flagVars, dbVars, historyVars, DataType
  <1>9. BatchType'
    BY <1>1, <1>2 DEF EndBatch, NoBatch, BatchType, Batches
  <1>10. BatchKnowsItems'
    BY <1>1, SameJobs DEF EndBatch, NoBatch, DataType, BatchKnowsItems
  <1>11. QED
    BY <1>1, <1>3, <1>4, <1>5, <1>6, <1>7, <1>8, <1>9, <1>10, SameTypes DEF DataType

LEMMA TypeBatchHandled ==
    ASSUME DataType, BatchHandled
    PROVE  DataType'
  <1>1. /\ arrived' = arrived
        /\ UNCHANGED <<onServer, live>>
        /\ UNCHANGED batchVars
        /\ UNCHANGED <<removeBatch, appVars, failedEver>>
        /\ UNCHANGED rows
        /\ UNCHANGED <<advanced, saved, gaveUp>>
        /\ UNCHANGED encrypted
    BY DEF BatchHandled, serverVars, queueVars, batchVars, appVars, flagVars, dbVars, historyVars
  <1>2. Envelopes' = Envelopes
    BY <1>1, SameEnvelopes
  <1>3. decrypted # <<>> /\ Head(decrypted) \in DecryptedJobs(Envelopes) /\ Tail(decrypted) \in Seq(DecryptedJobs(Envelopes))
    BY TailFacts DEF BatchHandled, Next1, DataType, QueueType
  <1>4. QueueType'
    BY <1>1, <1>2, <1>3 DEF BatchHandled, serverVars, queueVars, batchVars, appVars, flagVars, dbVars, historyVars, DataType, QueueType
  <1>5. FlagType'
    BY <1>1, FlagTypes, FlagTypesNext, Zenon DEF BatchHandled, serverVars, queueVars, batchVars, appVars, flagVars, dbVars, historyVars, DataType
  <1>6. BatchKnowsItems'
    BY <1>1, SameItems, SameJobs
  <1>7. QED
    BY <1>1, <1>3, <1>4, <1>5, <1>6, SameTypes DEF DataType

LEMMA TypeHandle ==
    ASSUME DataType, Handle
    PROVE  DataType'
  <1>1. /\ arrived' = arrived
        /\ UNCHANGED <<onServer, live>>
        /\ UNCHANGED batchVars
        /\ UNCHANGED <<removeBatch, appVars, failedEver>>
        /\ UNCHANGED <<emptySent, flagVars>>
        /\ UNCHANGED rows
        /\ UNCHANGED <<advanced, saved, gaveUp>>
        /\ UNCHANGED encrypted
    BY DEF Handle, serverVars, queueVars, batchVars, appVars, flagVars, dbVars, historyVars
  <1>2. Envelopes' = Envelopes
    BY <1>1, SameEnvelopes
  <1>3. decrypted # <<>> /\ Head(decrypted) \in DecryptedJobs(Envelopes) /\ Tail(decrypted) \in Seq(DecryptedJobs(Envelopes))
    BY TailFacts DEF Handle, Next1, DataType, QueueType
  <1>4. Job("message", Head(decrypted).envelope) \in AppJobs(Envelopes)
    BY <1>3, HeadTask, NewTask DEF Handle, Next1, DecryptedJobs, AppJobs
  <1>5. QueueType'
    BY <1>1, <1>2, <1>3, <1>4, AppendFacts DEF Handle, serverVars, queueVars, batchVars, appVars, flagVars, dbVars, historyVars, DataType, QueueType
  <1>6. BatchKnowsItems'
    BY <1>1, SameItems, SameJobs
  <1>7. QED
    BY <1>1, <1>3, <1>4, <1>5, <1>6, SameTypes DEF DataType

LEMMA TypeDecryptionError ==
    ASSUME DataType, DecryptionError
    PROVE  DataType'
  <1>1. /\ arrived' = arrived
        /\ UNCHANGED <<onServer, live>>
        /\ UNCHANGED batchVars
        /\ UNCHANGED <<emptySent, flagVars>>
        /\ UNCHANGED rows
        /\ UNCHANGED <<advanced, saved, gaveUp>>
        /\ UNCHANGED encrypted
    BY DEF DecryptionError, serverVars, queueVars, batchVars, appVars, flagVars, dbVars, historyVars
  <1>2. Envelopes' = Envelopes
    BY <1>1, SameEnvelopes
  <1>3. decrypted # <<>> /\ Head(decrypted) \in DecryptedJobs(Envelopes) /\ Tail(decrypted) \in Seq(DecryptedJobs(Envelopes))
    BY TailFacts DEF DecryptionError, Next1, DataType, QueueType
  <1>4. Head(decrypted).envelope \in Envelopes
    BY <1>3, HeadTask DEF DecryptionError, Next1, DecryptedJobs
  <1>5. QueueType'
    BY <1>1, <1>2, <1>3 DEF DecryptionError, serverVars, queueVars, batchVars, appVars, flagVars, dbVars, historyVars, DataType, QueueType
  <1>6. AppType'
    BY <1>1, <1>2, <1>4 DEF DecryptionError, serverVars, queueVars, batchVars, appVars, flagVars, dbVars, historyVars, DataType, AppType
  <1>7. BatchKnowsItems'
    BY <1>1, SameItems, SameJobs
  <1>8. QED
    BY <1>1, <1>3, <1>4, <1>5, <1>6, <1>7, SameTypes DEF DataType

LEMMA TypeWaitForDecrypted ==
    ASSUME DataType, WaitForDecrypted
    PROVE  DataType'
  <1>1. /\ arrived' = arrived
        /\ UNCHANGED <<onServer, live>>
        /\ UNCHANGED batchVars
        /\ UNCHANGED <<removeBatch, appVars, failedEver>>
        /\ UNCHANGED <<emptySent, flagVars>>
        /\ UNCHANGED rows
        /\ UNCHANGED <<advanced, saved, gaveUp>>
        /\ UNCHANGED encrypted
    BY DEF WaitForDecrypted, serverVars, queueVars, batchVars, appVars, flagVars, dbVars, historyVars
  <1>2. Envelopes' = Envelopes
    BY <1>1, SameEnvelopes
  <1>3. decrypted # <<>> /\ Head(decrypted) \in DecryptedJobs(Envelopes) /\ Tail(decrypted) \in Seq(DecryptedJobs(Envelopes))
    BY TailFacts DEF WaitForDecrypted, Next1, DataType, QueueType
  <1>4. Job("emitEmpty", 0) \in AppJobs(Envelopes)
    BY NewTask DEF AppJobs
  <1>5. QueueType'
    BY <1>1, <1>2, <1>3, <1>4, AppendFacts DEF WaitForDecrypted, serverVars, queueVars, batchVars, appVars, flagVars, dbVars, historyVars, DataType, QueueType
  <1>6. BatchKnowsItems'
    BY <1>1, SameItems, SameJobs
  <1>7. QED
    BY <1>1, <1>3, <1>4, <1>5, <1>6, SameTypes DEF DataType

LEMMA TypeOnMessageReceived ==
    ASSUME DataType, OnMessageReceived
    PROVE  DataType'
  <1> DEFINE e == Head(appQueue).envelope
             c == ConversationOf[MessageOf(e)]
  <1>1. /\ arrived' = arrived
        /\ UNCHANGED <<onServer, live>>
        /\ UNCHANGED batchVars
        /\ UNCHANGED <<emptySent, flagVars>>
        /\ UNCHANGED rows
        /\ UNCHANGED <<advanced, saved, gaveUp>>
        /\ UNCHANGED <<removeBatch, inMemory, saving, failedHere, failedEver>>
        /\ UNCHANGED <<incoming, addBatch, zoneQueue, encrypted, decrypted>>
        /\ appQueue # <<>> /\ appQueue' = Tail(appQueue) /\ Head(appQueue).do = "message"
        /\ jobQueue' = [jobQueue EXCEPT ![c] = Append(@, e)]
    BY DEF OnMessageReceived, Next1, serverVars, batchVars, flagVars, dbVars, historyVars
  <1>2. Envelopes' = Envelopes
    BY <1>1, SameEnvelopes
  <1>3. Head(appQueue) \in AppJobs(Envelopes) /\ Tail(appQueue) \in Seq(AppJobs(Envelopes))
    BY <1>1, TailFacts DEF DataType, QueueType
  <1>4. e \in Envelopes
    BY <1>1, <1>3, HeadTask DEF AppJobs
  <1>5. QueueType'
    BY <1>1, <1>2, <1>3 DEF DataType, QueueType
  <1>6. jobQueue' \in [Conversations -> Seq(Envelopes)]
    <2>1. jobQueue \in [Conversations -> Seq(Envelopes)]
      BY DEF DataType, AppType
    <2> HIDE DEF e, c
    <2>2. \A q \in Seq(Envelopes) : Append(q, e) \in Seq(Envelopes)
      BY <1>4, AppendFacts
    <2>3. QED
      BY <1>1, <2>1, <2>2
  <1>7. AppType'
    BY <1>1, <1>2, <1>6 DEF DataType, AppType
  <1>8. BatchKnowsItems'
    BY <1>1, SameItems, SameJobs
  <1>9. QED
    BY <1>1, <1>5, <1>7, <1>8, SameTypes DEF DataType

\* The first envelope of a conversation's queue.
LEMMA FirstOfConversation ==
    ASSUME DataType, NEW c \in Conversations, jobQueue[c] # <<>>
    PROVE  /\ jobQueue[c] \in Seq(Envelopes)
           /\ Head(jobQueue[c]) \in Envelopes
           /\ MessageOf(Head(jobQueue[c])) \in Messages
           /\ [jobQueue EXCEPT ![c] = Tail(@)] \in [Conversations -> Seq(Envelopes)]
  <1>1. jobQueue \in [Conversations -> Seq(Envelopes)] /\ jobQueue[c] \in Seq(Envelopes)
    BY DEF DataType, AppType
  <1>2. Head(jobQueue[c]) \in Envelopes /\ Tail(jobQueue[c]) \in Seq(Envelopes)
    BY <1>1, TailFacts
  <1>3. MessageOf(Head(jobQueue[c])) \in Messages
    BY <1>2 DEF MessageOf, Envelopes, DataType, ServerType
  <1>4. QED
    BY <1>1, <1>2, <1>3

LEMMA TypeHandleDataMessage ==
    ASSUME DataType, NEW c \in Conversations, HandleDataMessage(c)
    PROVE  DataType'
  <1>1. /\ arrived' = arrived
        /\ UNCHANGED <<onServer, live>>
        /\ UNCHANGED queueVars
        /\ UNCHANGED batchVars
        /\ UNCHANGED <<emptySent, flagVars>>
        /\ UNCHANGED rows
        /\ UNCHANGED <<advanced, saved, gaveUp>>
        /\ UNCHANGED encrypted
        /\ UNCHANGED <<failedHere, failedEver>>
    BY DEF HandleDataMessage, serverVars, queueVars, flagVars, dbVars, historyVars
  <1>2. Envelopes' = Envelopes
    BY <1>1, SameEnvelopes
  <1> DEFINE e == Head(jobQueue[c])
  <1>3. e \in Envelopes /\ MessageOf(e) \in Messages
        /\ jobQueue' \in [Conversations -> Seq(Envelopes)]
    BY FirstOfConversation DEF HandleDataMessage
  <1>4. /\ inMemory' \in {inMemory, inMemory \cup {MessageOf(e)}}
        /\ saving' \in {saving, Append(saving, e)}
        /\ removeBatch' \in {removeBatch, removeBatch \cup {e}}
    BY DEF HandleDataMessage
  <1> HIDE DEF e
  <1>5. saving' \in Seq(Envelopes)
    <2>1. saving \in Seq(Envelopes)
      BY DEF DataType, AppType
    <2>2. Append(saving, e) \in Seq(Envelopes)
      BY <1>3, <2>1, AppendFacts
    <2>3. QED
      BY <1>4, <2>1, <2>2
  <1>6. AppType'
    BY <1>1, <1>2, <1>3, <1>4, <1>5 DEF DataType, AppType
  <1>7. BatchKnowsItems'
    BY <1>1, SameItems, SameJobs
  <1>8. QED
    BY <1>1, <1>6, <1>7, SameTypes DEF DataType

LEMMA TypeHandleThrows ==
    ASSUME DataType, NEW c \in Conversations, HandleThrows(c)
    PROVE  DataType'
  <1>1. /\ arrived' = arrived
        /\ UNCHANGED <<onServer, live>>
        /\ UNCHANGED queueVars
        /\ UNCHANGED batchVars
        /\ UNCHANGED <<emptySent, flagVars>>
        /\ UNCHANGED rows
        /\ UNCHANGED <<advanced, saved, gaveUp>>
        /\ UNCHANGED encrypted
        /\ UNCHANGED <<removeBatch, saving>>
    BY DEF HandleThrows, serverVars, queueVars, flagVars, dbVars
  <1>2. Envelopes' = Envelopes
    BY <1>1, SameEnvelopes
  <1> DEFINE m == MessageOf(Head(jobQueue[c]))
  <1>3. m \in Messages /\ jobQueue' \in [Conversations -> Seq(Envelopes)]
    BY FirstOfConversation DEF HandleThrows
  <1>4. /\ inMemory' \in {inMemory, inMemory \cup {m}}
        /\ failedHere' = failedHere \cup {m} /\ failedEver' = failedEver \cup {m}
    BY DEF HandleThrows
  <1> HIDE DEF m
  <1>5. AppType'
    BY <1>1, <1>2, <1>3, <1>4 DEF DataType, AppType
  <1>6. BatchKnowsItems'
    BY <1>1, SameItems, SameJobs
  <1>7. QED
    BY <1>1, <1>5, <1>6, SameTypes DEF DataType

LEMMA TypeSaveAndConfirm ==
    ASSUME DataType, SaveAndConfirm
    PROVE  DataType'
  <1>1. /\ arrived' = arrived
        /\ UNCHANGED <<onServer, live>>
        /\ UNCHANGED queueVars
        /\ UNCHANGED batchVars
        /\ UNCHANGED <<emptySent, flagVars>>
        /\ UNCHANGED rows
        /\ UNCHANGED encrypted
    BY DEF SaveAndConfirm, serverVars, queueVars, batchVars, appVars, flagVars, dbVars, historyVars
  <1>2. Envelopes' = Envelopes
    BY <1>1, SameEnvelopes
  <1>3. saving # <<>> /\ Head(saving) \in Envelopes /\ Tail(saving) \in Seq(Envelopes)
    BY TailFacts DEF SaveAndConfirm, DataType, AppType
  <1>4. MessageOf(Head(saving)) \in Messages
    BY <1>3 DEF MessageOf, Envelopes, DataType, ServerType
  <1>5. Append(saved, MessageOf(Head(saving))) \in Seq(Messages)
    BY <1>4, AppendFacts DEF DataType, TableType
  <1>6. AppType'
    BY <1>1, <1>2, <1>3 DEF SaveAndConfirm, serverVars, queueVars, batchVars, appVars, flagVars, dbVars, historyVars, DataType, AppType
  <1>7. TableType'
    BY <1>1, <1>2, <1>5 DEF SaveAndConfirm, serverVars, queueVars, batchVars, appVars, flagVars, dbVars, historyVars, DataType, TableType
  <1>8. BatchKnowsItems'
    BY <1>1, SameItems, SameJobs
  <1>9. QED
    BY <1>1, <1>3, <1>4, <1>5, <1>6, <1>7, <1>8, SameTypes DEF DataType

LEMMA TypeSaveRejected ==
    ASSUME DataType, SaveRejected
    PROVE  DataType'
  <1>1. /\ arrived' = arrived
        /\ UNCHANGED <<onServer, live>>
        /\ UNCHANGED queueVars
        /\ UNCHANGED batchVars
        /\ UNCHANGED <<emptySent, flagVars>>
        /\ UNCHANGED rows
        /\ UNCHANGED encrypted
    BY DEF SaveRejected, serverVars, queueVars, batchVars, appVars, flagVars, dbVars, historyVars
  <1>2. Envelopes' = Envelopes
    BY <1>1, SameEnvelopes
  <1>3. saving # <<>> /\ Head(saving) \in Envelopes /\ Tail(saving) \in Seq(Envelopes)
    BY TailFacts DEF SaveRejected, DataType, AppType
  <1>4. MessageOf(Head(saving)) \in Messages
    BY <1>3 DEF MessageOf, Envelopes, DataType, ServerType
  <1>5. Append(saved, MessageOf(Head(saving))) \in Seq(Messages)
    BY <1>4, AppendFacts DEF DataType, TableType
  <1>6. AppType'
    <2>1. /\ UNCHANGED <<removeBatch, jobQueue, inMemory>> /\ saving' = Tail(saving)
          /\ failedHere' = failedHere \cup {MessageOf(Head(saving))}
          /\ failedEver' = failedEver \cup {MessageOf(Head(saving))}
      BY DEF SaveRejected
    <2>2. saving' \in Seq(Envelopes)
      BY <1>3, <2>1
    <2>3. QED
      BY <1>1, <1>2, <1>4, <2>1, <2>2 DEF DataType, AppType
  <1>7. TableType'
    BY <1>1, <1>2, <1>5 DEF SaveRejected, serverVars, queueVars, batchVars, appVars, flagVars, dbVars, historyVars, DataType, TableType
  <1>8. BatchKnowsItems'
    BY <1>1, SameItems, SameJobs
  <1>9. QED
    BY <1>1, <1>3, <1>4, <1>5, <1>6, <1>7, <1>8, SameTypes DEF DataType

LEMMA TypeDelivery ==
    ASSUME DataType, Delivery
    PROVE  DataType'
  <1>1. /\ arrived' = arrived
        /\ UNCHANGED <<onServer, live>>
        /\ UNCHANGED batchVars
        /\ UNCHANGED <<emptySent, flagVars>>
        /\ UNCHANGED rows
        /\ UNCHANGED <<advanced, saved, gaveUp>>
        /\ UNCHANGED encrypted
    BY DEF Delivery, serverVars, queueVars, batchVars, appVars, flagVars, dbVars, historyVars
  <1>2. Envelopes' = Envelopes
    BY <1>1, SameEnvelopes
  <1>3. appQueue # <<>> /\ Head(appQueue) \in AppJobs(Envelopes) /\ Tail(appQueue) \in Seq(AppJobs(Envelopes))
    BY TailFacts DEF Delivery, Next1, DataType, QueueType
  <1>4. Head(appQueue).envelope \in Envelopes
    BY <1>3, HeadTask DEF Delivery, Next1, AppJobs
  <1>5. QueueType'
    BY <1>1, <1>2, <1>3 DEF Delivery, serverVars, queueVars, batchVars, appVars, flagVars, dbVars, historyVars, DataType, QueueType
  <1>6. AppType'
    BY <1>1, <1>2, <1>4 DEF Delivery, serverVars, queueVars, batchVars, appVars, flagVars, dbVars, historyVars, DataType, AppType
  <1>7. BatchKnowsItems'
    BY <1>1, SameItems, SameJobs
  <1>8. QED
    BY <1>1, <1>3, <1>4, <1>5, <1>6, <1>7, SameTypes DEF DataType

LEMMA TypeEmitEmpty ==
    ASSUME DataType, EmitEmpty
    PROVE  DataType'
  <1>1. /\ arrived' = arrived
        /\ UNCHANGED <<onServer, live>>
        /\ UNCHANGED batchVars
        /\ UNCHANGED <<removeBatch, appVars, failedEver>>
        /\ UNCHANGED rows
        /\ UNCHANGED <<advanced, saved, gaveUp>>
        /\ UNCHANGED encrypted
    BY DEF EmitEmpty, serverVars, queueVars, batchVars, appVars, flagVars, dbVars, historyVars
  <1>2. Envelopes' = Envelopes
    BY <1>1, SameEnvelopes
  <1>3. appQueue # <<>> /\ Head(appQueue) \in AppJobs(Envelopes) /\ Tail(appQueue) \in Seq(AppJobs(Envelopes))
    BY TailFacts DEF EmitEmpty, Next1, DataType, QueueType
  <1>4. QueueType'
    BY <1>1, <1>2, <1>3 DEF EmitEmpty, serverVars, queueVars, batchVars, appVars, flagVars, dbVars, historyVars, DataType, QueueType
  <1>5. FlagType'
    BY <1>1, FlagTypes, FlagTypesNext DEF EmitEmpty, serverVars, queueVars, batchVars, appVars, flagVars, dbVars, historyVars, DataType
  <1>6. BatchKnowsItems'
    BY <1>1, SameItems, SameJobs
  <1>7. QED
    BY <1>1, <1>3, <1>4, <1>5, <1>6, SameTypes DEF DataType

LEMMA TypeCacheRemove ==
    ASSUME DataType, CacheRemove
    PROVE  DataType'
  <1>1. /\ arrived' = arrived
        /\ UNCHANGED <<onServer, live>>
        /\ UNCHANGED queueVars
        /\ UNCHANGED batchVars
        /\ UNCHANGED <<emptySent, flagVars>>
        /\ UNCHANGED <<advanced, saved, gaveUp>>
        /\ UNCHANGED encrypted
    BY DEF CacheRemove, serverVars, queueVars, batchVars, appVars, flagVars, dbVars, historyVars
  <1>2. Envelopes' = Envelopes
    BY <1>1, SameEnvelopes
  <1>3. AppType'
    BY <1>1, <1>2 DEF CacheRemove, serverVars, queueVars, batchVars, appVars, flagVars, dbVars, historyVars, DataType, AppType
  <1>4. RowType'
    BY <1>1, <1>2 DEF CacheRemove, DataType, RowType
  <1>5. BatchKnowsItems'
    BY <1>1, SameItems, SameJobs
  <1>6. QED
    BY <1>1, <1>3, <1>4, <1>5, SameTypes DEF DataType

LEMMA TypeCacheRemoveRejected ==
    ASSUME DataType, CacheRemoveRejected
    PROVE  DataType'
  <1>1. /\ arrived' = arrived
        /\ UNCHANGED <<onServer, live>>
        /\ UNCHANGED queueVars
        /\ UNCHANGED batchVars
        /\ UNCHANGED <<emptySent, flagVars>>
        /\ UNCHANGED rows
        /\ UNCHANGED <<advanced, saved, gaveUp>>
        /\ UNCHANGED encrypted
    BY DEF CacheRemoveRejected, serverVars, queueVars, batchVars, appVars, flagVars, dbVars, historyVars
  <1>2. Envelopes' = Envelopes
    BY <1>1, SameEnvelopes
  <1>3. AppType'
    BY <1>1, <1>2 DEF CacheRemoveRejected, serverVars, queueVars, batchVars, appVars, flagVars, dbVars, historyVars, DataType, AppType
  <1>4. BatchKnowsItems'
    BY <1>1, SameItems, SameJobs
  <1>5. QED
    BY <1>1, <1>3, <1>4, SameTypes DEF DataType

\* A set of numbers up to n that is not empty has a least element.
LEMMA LeastOf ==
    ASSUME NEW n \in Nat, NEW S \in SUBSET (1 .. n), S # {}
    PROVE  \E x \in S : \A y \in S : x <= y
  <1>1. PICK s \in Seq(S) : Ordered(s) /\ Range(s) = S
    BY InOrderLists
  <1>2. 1 \in DOMAIN s /\ \A i \in DOMAIN s : i = 1 \/ 1 < i
    <2>1. DOMAIN s # {}
      BY <1>1 DEF Range
    <2>2. QED
      BY <2>1
  <1>3. \A i \in DOMAIN s : s[1] <= s[i]
    <2>1. \A i \in DOMAIN s : s[i] \in S
      OBVIOUS
    <2>2. \A x \in S : x \in Int
      OBVIOUS
    <2>3. \A i \in DOMAIN s : s[i] \in Int
      BY <2>1, <2>2, Zenon
    <2>4. ASSUME NEW i \in DOMAIN s PROVE s[1] <= s[i]
      <3>1. i = 1 \/ s[1] < s[i]
        BY <1>1, <1>2 DEF Ordered
      <3>2. QED
        BY <1>2, <2>3, <3>1
    <2>5. QED
      BY <2>4
  <1>4. QED
    BY <1>1, <1>2, <1>3 DEF Range

LEMMA MoreItems ==
    ASSUME NEW E, NEW F, E \subseteq F
    PROVE  ItemsOf(E) \subseteq ItemsOf(F)
  BY DEF ItemsOf

LEMMA MoreBatches ==
    ASSUME NEW E, NEW F, E \subseteq F
    PROVE  Batches(E) \subseteq Batches(F)
  <1>1. Seq(ItemsOf(E)) \subseteq Seq(ItemsOf(F)) /\ Seq(E) \subseteq Seq(F)
    BY MoreItems, SeqWiden
  <1>2. QED
    BY <1>1 DEF Batches

\* The envelope that arrives is a new one, of a message the server has.
LEMMA NewEnvelope ==
    ASSUME DataType, Deliver
    PROVE  \E m \in onServer :
              /\ m \in Messages
              /\ arrived' = Append(arrived, m)
              /\ \A e \in live : MessageOf(e) # m
              /\ live' = live \cup {Len(arrived) + 1}
              /\ incoming' = Append(incoming, Job("decryptAndCache", Len(arrived) + 1))
              /\ arrived'[Len(arrived) + 1] = m
  <1>1. Messages = 1 .. Len(Kind) /\ Len(Kind) \in Nat
    BY ReceiverAssumption DEF Messages
  <1>2. Undelivered \in SUBSET (1 .. Len(Kind)) /\ Undelivered # {}
    BY <1>1 DEF Undelivered, DataType, ServerType, Deliver
  <1>3. \E x \in Undelivered : \A y \in Undelivered : x <= y
    BY <1>1, <1>2, LeastOf
  <1> DEFINE m == CHOOSE x \in Undelivered : \A y \in Undelivered : x <= y
  <1>4. m \in Undelivered
    BY <1>3
  <1>5. /\ arrived' = Append(arrived, m)
        /\ live' = live \cup {Len(arrived) + 1}
        /\ incoming' = Append(incoming, Job("decryptAndCache", Len(arrived) + 1))
    BY DEF Deliver
  <1> HIDE DEF m
  <1>6. m \in Messages /\ m \in onServer /\ \A e \in live : MessageOf(e) # m
    BY <1>4 DEF Undelivered, DataType, ServerType
  <1>7. arrived'[Len(arrived) + 1] = m
    BY <1>5, <1>6, AppendFacts DEF DataType, ServerType
  <1>8. QED
    BY <1>5, <1>6, <1>7

LEMMA MoreEnvelopes ==
    ASSUME DataType, Deliver
    PROVE  /\ arrived' \in Seq(Messages)
           /\ Envelopes \subseteq Envelopes'
           /\ Len(arrived) + 1 \in Envelopes' \ Envelopes
           /\ Envelopes' = Envelopes \cup {Len(arrived) + 1}
           /\ \A e \in Envelopes : arrived'[e] = arrived[e]
  <1>1. PICK m \in Messages : arrived' = Append(arrived, m)
    BY NewEnvelope
  <1>2. arrived \in Seq(Messages)
    BY DEF DataType, ServerType
  <1>3. QED
    BY <1>1, <1>2 DEF Envelopes

LEMMA TypeDeliver ==
    ASSUME DataType, Deliver
    PROVE  DataType'
  <1> DEFINE e == Len(arrived) + 1
  <1>1. /\ arrived' \in Seq(Messages) /\ Envelopes \subseteq Envelopes'
        /\ e \in Envelopes'
    BY MoreEnvelopes
  <1>2. live' = live \cup {e} /\ incoming' = Append(incoming, Job("decryptAndCache", e))
    BY NewEnvelope
  <1>3. /\ UNCHANGED <<onServer, emptySent, addBatch, zoneQueue, encrypted, decrypted,
                   appQueue, batchVars, removeBatch, appVars, flagVars, dbVars, gaveUp>>
    BY DEF Deliver
  <1> HIDE DEF e
  <1>4. ServerType'
    BY <1>1, <1>2, <1>3 DEF DataType, ServerType
  <1>5. QueueType'
    <2>1. /\ incoming \in Seq(IncomingJobs(Envelopes'))
          /\ encrypted' \in Seq(EncryptedJobs(Envelopes'))
          /\ decrypted' \in Seq(DecryptedJobs(Envelopes'))
          /\ appQueue' \in Seq(AppJobs(Envelopes'))
      BY <1>1, <1>3, MoreTasks, SeqWiden
         DEF DataType, QueueType, IncomingJobs, EncryptedJobs, DecryptedJobs, AppJobs
    <2>2. Job("decryptAndCache", e) \in IncomingJobs(Envelopes')
      BY <1>1, NewTask DEF IncomingJobs
    <2>3. incoming' \in Seq(IncomingJobs(Envelopes'))
      BY <1>2, <2>1, <2>2, AppendFacts
    <2>4. ItemsOf(Envelopes) \subseteq ItemsOf(Envelopes')
      BY <1>1, MoreItems
    <2>5. addBatch' \in Seq(ItemsOf(Envelopes'))
      BY <1>3, <2>4, SeqWiden DEF DataType, QueueType
    <2>6. zoneQueue' \in Seq(Seq(ItemsOf(Envelopes')))
      <3>1. Seq(ItemsOf(Envelopes)) \subseteq Seq(ItemsOf(Envelopes'))
        BY <2>4, SeqWiden
      <3>2. QED
        BY <1>3, <3>1, SeqWiden DEF DataType, QueueType
    <2>7. QED
      BY <2>1, <2>3, <2>5, <2>6 DEF QueueType
  <1>6. BatchType'
    BY <1>1, <1>3, MoreBatches DEF DataType, BatchType, batchVars
  <1>7. AppType'
    <2>1. Seq(Envelopes) \subseteq Seq(Envelopes')
      BY <1>1, SeqWiden
    <2>2. jobQueue' \in [Conversations -> Seq(Envelopes')]
      BY <1>3, <2>1 DEF DataType, AppType, appVars
    <2>3. failedEver' = failedEver
      BY DEF Deliver
    <2>4. QED
      BY <1>1, <1>3, <2>1, <2>2, <2>3 DEF DataType, AppType, appVars
  <1>8. FlagType'
    BY <1>3 DEF DataType, FlagType, flagVars
  <1>9. RowType' /\ TableType'
    BY <1>1, <1>3 DEF DataType, RowType, TableType, dbVars
  <1>10. BatchKnowsItems'
    BY <1>3, SameItems, SameJobs
  <1>11. QED
    BY <1>4, <1>5, <1>6, <1>7, <1>8, <1>9, <1>10 DEF DataType

\* What queueAllCached queues.
DoneRows == InOrder({e \in DOMAIN Kept : Kept[e].decrypted})
AgainRows == InOrder({e \in DOMAIN Kept : ~Kept[e].decrypted})

LEMMA RowsRead ==
    ASSUME DataType
    PROVE  /\ DOMAIN Kept \subseteq DOMAIN rows
           /\ Kept \in [DOMAIN Kept -> Rows]
           /\ \A e \in DOMAIN Kept : Kept[e].decrypted = rows[e].decrypted
  <1>1. ASSUME NEW e \in DOMAIN rows, rows[e].attempts + 1 < MaxAttempts
        PROVE  /\ [rows[e] EXCEPT !.attempts = @ + 1] \in Rows
               /\ [rows[e] EXCEPT !.attempts = @ + 1].decrypted = rows[e].decrypted
    <2>1. rows[e] \in Rows
      BY DEF DataType, RowType
    <2>2. QED
      BY <1>1, <2>1, ReceiverAssumption DEF Rows
  <1>2. CASE Cardinality(DOMAIN rows) > MaxCached
    BY <1>2 DEF Kept
  <1>3. CASE ~(Cardinality(DOMAIN rows) > MaxCached)
    <2> DEFINE kept == {e \in DOMAIN rows : rows[e].attempts + 1 < MaxAttempts}
    <2>1. Kept = [e \in kept |-> [rows[e] EXCEPT !.attempts = @ + 1]]
      BY <1>3 DEF Kept, Retried
    <2>2. QED
      BY <1>1, <2>1
  <1>4. QED
    BY <1>2, <1>3

\* The rows are listed by their envelopes, each once.
LEMMA RowsListed ==
    ASSUME DataType, NEW S \in SUBSET DOMAIN Kept
    PROVE  /\ InOrder(S) \in Seq(S)
           /\ Ordered(InOrder(S))
           /\ Range(InOrder(S)) = S
           /\ \A i, j \in DOMAIN InOrder(S) : InOrder(S)[i] = InOrder(S)[j] => i = j
  <1>1. S \in SUBSET (1 .. Len(arrived)) /\ Len(arrived) \in Nat
    BY RowsRead DEF DataType, RowType, ServerType, Envelopes
  <1>2. QED
    BY <1>1, InOrderLists

LEMMA TypeQueueAllCached ==
    ASSUME DataType, QueueAllCached
    PROVE  DataType'
  <1>1. /\ arrived' = arrived
        /\ UNCHANGED <<onServer, live>>
        /\ UNCHANGED batchVars
        /\ UNCHANGED <<removeBatch, appVars, failedEver>>
        /\ UNCHANGED <<emptySent, flagVars>>
    BY Zenon DEF QueueAllCached, serverVars, appVars
  <1>2. Envelopes' = Envelopes
    BY <1>1, SameEnvelopes
  <1>3. /\ incoming # <<>> /\ incoming' = Tail(incoming)
        /\ UNCHANGED <<zoneQueue, decrypted, appQueue, advanced, saved>>
        /\ rows' = Kept
        /\ gaveUp' = gaveUp \cup {MessageOf(e) : e \in DOMAIN rows \ DOMAIN Kept}
        /\ encrypted' = encrypted \o
              [i \in DOMAIN DoneRows |-> Job("queueDecrypted", DoneRows[i])]
        /\ addBatch' = addBatch \o
              [i \in DOMAIN AgainRows |-> Item(AgainRows[i], Kept[AgainRows[i]].attempts)]
    BY Zenon DEF QueueAllCached, Next1, DoneRows, AgainRows
  <1>4. DOMAIN Kept \subseteq Envelopes /\ Kept \in [DOMAIN Kept -> Rows]
    BY RowsRead DEF DataType, RowType
  <1>5. RowType'
    BY <1>2, <1>3, <1>4 DEF RowType
  <1>6. TableType'
    <2>1. \A e \in DOMAIN rows : MessageOf(e) \in Messages
      BY DEF DataType, RowType, ServerType, Envelopes, MessageOf
    <2>2. QED
      BY <1>3, <2>1 DEF DataType, TableType
  <1>7. /\ DoneRows \in Seq({e \in DOMAIN Kept : Kept[e].decrypted})
        /\ AgainRows \in Seq({e \in DOMAIN Kept : ~Kept[e].decrypted})
    BY RowsListed DEF DoneRows, AgainRows
  <1> DEFINE new == [i \in DOMAIN DoneRows |-> Job("queueDecrypted", DoneRows[i])]
             again == [i \in DOMAIN AgainRows |->
                          Item(AgainRows[i], Kept[AgainRows[i]].attempts)]
  <1>8. new \in Seq(EncryptedJobs(Envelopes))
    <2>1. \A e \in Envelopes : Job("queueDecrypted", e) \in EncryptedJobs(Envelopes)
      BY NewTask DEF EncryptedJobs
    <2>2. \A i \in DOMAIN DoneRows : DoneRows[i] \in Envelopes
      BY <1>4, <1>7
    <2>3. \A i \in DOMAIN DoneRows : Job("queueDecrypted", DoneRows[i]) \in EncryptedJobs(Envelopes)
      BY <2>1, <2>2
    <2>4. QED
      BY <1>7, <2>3
  <1>9. again \in Seq(ItemsOf(Envelopes))
    <2>1. \A i \in DOMAIN AgainRows : AgainRows[i] \in Envelopes /\ AgainRows[i] \in DOMAIN Kept
      BY <1>4, <1>7
    <2>2. \A e \in DOMAIN Kept : Kept[e].attempts \in 1 .. (MaxAttempts - 1)
      BY <1>4 DEF Rows
    <2>3. \A i \in DOMAIN AgainRows :
             Item(AgainRows[i], Kept[AgainRows[i]].attempts) \in ItemsOf(Envelopes)
      BY <2>1, <2>2 DEF Item, ItemsOf
    <2>4. QED
      BY <1>7, <2>3
  <1>10. QueueType'
    <2>1. incoming' \in Seq(IncomingJobs(Envelopes))
      BY <1>3, TailFacts DEF DataType, QueueType
    <2>2. encrypted' \in Seq(EncryptedJobs(Envelopes))
      BY <1>3, <1>8, ConcatFacts DEF DataType, QueueType
    <2>3. addBatch' \in Seq(ItemsOf(Envelopes))
      BY <1>3, <1>9, ConcatFacts DEF DataType, QueueType
    <2>4. QED
      BY <1>2, <1>3, <2>1, <2>2, <2>3 DEF DataType, QueueType
  <1>11. DecryptJobs' = DecryptJobs
    <2>1. Labels(new, "decrypt", Id) = {}
      BY LabelsOfOthers
    <2>2. encrypted \in Seq(EncryptedJobs(Envelopes))
      BY DEF DataType, QueueType
    <2> HIDE DEF new
    <2>5. Labels(encrypted \o new, "decrypt", Id) =
             Labels(encrypted, "decrypt", Id) \cup Labels(new, "decrypt", Id)
      BY <1>8, <2>2, LabelsConcat
    <2>3. Labels(encrypted \o new, "decrypt", Id) = Labels(encrypted, "decrypt", Id)
      BY <2>1, <2>5
    <2>4. QED
      BY <1>3, <2>3 DEF DecryptJobs, new
  <1>12. QED
    BY <1>1, <1>5, <1>6, <1>10, <1>11, SameTypes, SameItems DEF DataType

LEMMA TypeQueueAllCachedRejected ==
    ASSUME DataType, QueueAllCachedRejected
    PROVE  DataType'
  <1>1. /\ arrived' = arrived
        /\ UNCHANGED <<onServer, live>>
        /\ UNCHANGED batchVars
        /\ UNCHANGED <<removeBatch, appVars, failedEver>>
        /\ UNCHANGED <<emptySent, flagVars>>
        /\ UNCHANGED <<addBatch, zoneQueue, encrypted, decrypted, appQueue, advanced, saved>>
        /\ incoming # <<>> /\ incoming' = Tail(incoming)
        /\ rows' \in {rows, Kept}
        /\ gaveUp' = gaveUp \cup {MessageOf(e) : e \in DOMAIN rows \ DOMAIN rows'}
    BY DEF QueueAllCachedRejected, Next1, serverVars
  <1>2. Envelopes' = Envelopes
    BY <1>1, SameEnvelopes
  <1>3. rows' \in [DOMAIN rows' -> Rows] /\ DOMAIN rows' \subseteq Envelopes
    BY <1>1, RowsRead DEF DataType, RowType
  <1>4. RowType'
    BY <1>2, <1>3 DEF RowType
  <1>5. TableType'
    <2>1. \A e \in DOMAIN rows : MessageOf(e) \in Messages
      BY DEF DataType, RowType, ServerType, Envelopes, MessageOf
    <2>2. QED
      BY <1>1, <2>1 DEF DataType, TableType
  <1>6. QueueType'
    BY <1>1, <1>2, TailFacts DEF DataType, QueueType
  <1>7. BatchKnowsItems'
    BY <1>1, SameItems, SameJobs
  <1>8. QED
    BY <1>1, <1>4, <1>5, <1>6, <1>7, SameTypes DEF DataType

\* The items of the batch that enters the zone, and those it decrypts.
FirstBatch == Head(zoneQueue)
Decryptable ==
    InOrder({i \in DOMAIN FirstBatch :
                Kind[MessageOf(FirstBatch[i].envelope)] # "unknownUuid"})

LEMMA BatchListed ==
    ASSUME DataType, zoneQueue # <<>>
    PROVE  /\ FirstBatch \in Seq(ItemsOf(Envelopes))
           /\ Decryptable \in Seq(DOMAIN FirstBatch)
           /\ Range(Decryptable) = {i \in DOMAIN FirstBatch :
                  Kind[MessageOf(FirstBatch[i].envelope)] # "unknownUuid"}
           /\ \A i, j \in DOMAIN Decryptable : Decryptable[i] = Decryptable[j] => i = j
           /\ \A i \in DOMAIN Decryptable : FirstBatch[Decryptable[i]].envelope \in Envelopes
           /\ Tail(zoneQueue) \in Seq(Seq(ItemsOf(Envelopes)))
  <1>1. FirstBatch \in Seq(ItemsOf(Envelopes)) /\ Tail(zoneQueue) \in Seq(Seq(ItemsOf(Envelopes)))
    BY TailFacts DEF DataType, QueueType, FirstBatch
  <1> DEFINE S == {i \in DOMAIN FirstBatch :
                      Kind[MessageOf(FirstBatch[i].envelope)] # "unknownUuid"}
  <1>2. Len(FirstBatch) \in Nat /\ S \in SUBSET (1 .. Len(FirstBatch)) /\ S \subseteq DOMAIN FirstBatch
    BY <1>1
  <1>3. Decryptable = InOrder(S)
    BY DEF Decryptable
  <1> HIDE DEF S
  <1>4. /\ Decryptable \in Seq(S) /\ Range(Decryptable) = S
        /\ \A i, j \in DOMAIN Decryptable : Decryptable[i] = Decryptable[j] => i = j
    BY <1>2, <1>3, InOrderLists
  <1>5. \A i \in DOMAIN Decryptable : Decryptable[i] \in DOMAIN FirstBatch
    BY <1>2, <1>4
  <1>6. \A i \in DOMAIN FirstBatch : FirstBatch[i].envelope \in Envelopes
    <2>1. \A i \in DOMAIN FirstBatch : FirstBatch[i] \in ItemsOf(Envelopes)
      BY <1>1
    <2>2. \A x \in ItemsOf(Envelopes) : x.envelope \in Envelopes
      BY DEF ItemsOf
    <2>3. QED
      BY <2>1, <2>2
  <1>7. \A i \in DOMAIN Decryptable : FirstBatch[Decryptable[i]].envelope \in Envelopes
    BY <1>5, <1>6
  <1>8. Decryptable \in Seq(DOMAIN FirstBatch)
    BY <1>2, <1>4, SeqWiden
  <1>9. QED
    BY <1>1, <1>4, <1>7, <1>8 DEF S

LEMMA TypeEnterZone ==
    ASSUME DataType, EnterZone
    PROVE  DataType'
  <1> DEFINE new == [i \in DOMAIN Decryptable |->
                        Job("decrypt", FirstBatch[Decryptable[i]].envelope)]
  <1>1. /\ arrived' = arrived
        /\ UNCHANGED <<onServer, live>>
        /\ UNCHANGED <<removeBatch, appVars, failedEver>>
        /\ UNCHANGED <<emptySent, flagVars>>
        /\ UNCHANGED rows
        /\ UNCHANGED <<advanced, saved, gaveUp>>
    BY Zenon DEF EnterZone, serverVars, appVars, dbVars, historyVars
  <1>2. Envelopes' = Envelopes
    BY <1>1, SameEnvelopes
  <1>3. /\ batchPhase = "none" /\ batchPhase' = "decrypting" /\ zoneQueue # <<>>
        /\ zoneQueue' = Tail(zoneQueue)
        /\ UNCHANGED <<incoming, addBatch, decrypted, appQueue>>
        /\ batch' = [NoBatch EXCEPT !.items = FirstBatch]
        /\ encrypted' = encrypted \o new
    BY Zenon DEF EnterZone, FirstBatch, Decryptable
  <1>11. batch' = [items |-> FirstBatch, plain |-> <<>>, failed |-> {}, keys |-> {}]
    BY <1>3 DEF NoBatch
  <1>4. new \in Seq(EncryptedJobs(Envelopes))
    <2>1. \A e \in Envelopes : Job("decrypt", e) \in EncryptedJobs(Envelopes)
      BY NewTask DEF EncryptedJobs
    <2>2. \A i \in DOMAIN Decryptable :
             Job("decrypt", FirstBatch[Decryptable[i]].envelope) \in EncryptedJobs(Envelopes)
      BY <1>3, <2>1, BatchListed
    <2>3. Decryptable \in Seq(DOMAIN FirstBatch)
      BY <1>3, BatchListed
    <2>4. QED
      BY <2>2, <2>3
  <1>5. encrypted \in Seq(EncryptedJobs(Envelopes))
    BY DEF DataType, QueueType
  <1>6. Labels(new, "decrypt", Id) \subseteq Envs(FirstBatch)
    <2>1. ASSUME NEW x \in Labels(new, "decrypt", Id)
          PROVE  x \in Envs(FirstBatch)
      <3>1. PICK i \in DOMAIN new : Id[new[i].envelope] = x
        BY <2>1, InLabels
      <3>2. i \in DOMAIN Decryptable /\ new[i].envelope = FirstBatch[Decryptable[i]].envelope
        BY DEF Job
      <3>3. FirstBatch[Decryptable[i]].envelope \in Nat
        BY <1>3, <3>2, BatchListed DEF Envelopes
      <3>4. Decryptable[i] \in DOMAIN FirstBatch
        <4>1. Decryptable \in Seq(DOMAIN FirstBatch)
          BY <1>3, BatchListed
        <4>2. QED
          BY <3>2, <4>1
      <3>5. x = FirstBatch[Decryptable[i]].envelope
        BY <3>1, <3>2, <3>3 DEF Id
      <3>6. QED
        BY <3>4, <3>5 DEF Envs
    <2>2. QED
      BY <2>1
  <1> HIDE DEF new
  <1>7. QueueType'
    <2>1. encrypted' \in Seq(EncryptedJobs(Envelopes))
      BY <1>3, <1>4, <1>5, ConcatFacts
    <2>2. zoneQueue' \in Seq(Seq(ItemsOf(Envelopes)))
      BY <1>3, BatchListed
    <2>3. QED
      BY <1>2, <1>3, <2>1, <2>2 DEF DataType, QueueType
  <1>8. BatchType'
    <2>1. FirstBatch \in Seq(ItemsOf(Envelopes))
      BY <1>3, BatchListed
    <2>2. QED
      <3>1. <<>> \in Seq(Envelopes) /\ {} \in SUBSET Envelopes /\ {} \in SUBSET Messages
        OBVIOUS
      <3>2. batch' \in Batches(Envelopes)
        BY <1>11, <2>1, <3>1 DEF Batches
      <3>3. QED
        BY <1>2, <1>3, <3>2 DEF BatchType
  <1>9. BatchKnowsItems'
    <2>1. DecryptJobs = {}
      BY <1>3 DEF DataType, BatchKnowsItems
    <2>2. DecryptJobs' = DecryptJobs \cup Labels(new, "decrypt", Id)
      BY <1>3, <1>4, <1>5, LabelsConcat DEF DecryptJobs
    <2>3. DecryptJobs' \subseteq Envs(batch'.items)
      BY <1>6, <1>11, <2>1, <2>2
    <2>4. Stored' = {}
      BY <1>11 DEF Stored, Range
    <2>5. QED
      BY <1>3, <2>3, <2>4 DEF BatchKnowsItems
  <1>10. QED
    BY <1>1, <1>7, <1>8, <1>9, SameTypes DEF DataType

\* What a decryption changes in its batch.
LEMMA Decrypted ==
    ASSUME DataType, Decrypt
    PROVE  LET e == Head(encrypted).envelope
               m == MessageOf(e)
               o == Outcome(m)
           IN  /\ encrypted # <<>> /\ Head(encrypted).do = "decrypt"
               /\ e \in Envelopes /\ m \in Messages
               /\ e \in DecryptJobs
               /\ batchPhase = "decrypting" /\ batchPhase' = batchPhase
               /\ encrypted' = Tail(encrypted)
               /\ encrypted' \in Seq(EncryptedJobs(Envelopes))
               /\ DecryptJobs' \subseteq DecryptJobs
               /\ batch'.items = batch.items
               /\ batch'.plain = IF o = "plaintext" THEN Append(batch.plain, e) ELSE batch.plain
               /\ batch'.failed = IF Fails(o) THEN batch.failed \cup {e} ELSE batch.failed
               /\ batch'.keys = IF o \in {"plaintext", "blocked"}
                                THEN batch.keys \cup {m} ELSE batch.keys
               /\ batch'.plain \in Seq(Envelopes)
               /\ Range(batch'.plain) =
                     Range(batch.plain) \cup (IF o = "plaintext" THEN {e} ELSE {})
               /\ batch' \in Batches(Envelopes)
  <1> DEFINE e == Head(encrypted).envelope
             m == MessageOf(e)
             o == Outcome(m)
  <1>1. encrypted # <<>> /\ Head(encrypted).do = "decrypt" /\ encrypted' = Tail(encrypted)
    BY DEF Decrypt, Next1
  <1>2. /\ encrypted \in Seq(EncryptedJobs(Envelopes))
        /\ Head(encrypted) \in EncryptedJobs(Envelopes)
        /\ encrypted' \in Seq(EncryptedJobs(Envelopes))
    BY <1>1, TailFacts DEF DataType, QueueType
  <1>3. e \in Envelopes
    BY <1>1, <1>2, HeadTask DEF EncryptedJobs
  <1>4. m \in Messages
    BY <1>3 DEF MessageOf, Envelopes, DataType, ServerType
  <1>5. e \in Nat /\ Id[e] = e
    BY <1>3 DEF Id, Envelopes
  <1>6. e \in DecryptJobs /\ DecryptJobs' \subseteq DecryptJobs
    BY <1>1, <1>2, <1>5, LabelsTail DEF DecryptJobs
  <1>7. batchPhase = "decrypting" /\ batchPhase' = batchPhase
    BY <1>6 DEF DataType, BatchKnowsItems, Decrypt
  <1>8. batch \in Batches(Envelopes)
    BY DEF DataType, BatchType
  <1>9. batch' = [batch EXCEPT
                 !.plain = IF o = "plaintext" THEN Append(@, e) ELSE @,
                 !.failed = IF Fails(o) THEN @ \cup {e} ELSE @,
                 !.keys = IF o \in {"plaintext", "blocked"} THEN @ \cup {m} ELSE @]
    BY DEF Decrypt
  <1> HIDE DEF e, m, o
  <1>10. /\ batch'.items = batch.items
         /\ batch'.plain = IF o = "plaintext" THEN Append(batch.plain, e) ELSE batch.plain
         /\ batch'.failed = IF Fails(o) THEN batch.failed \cup {e} ELSE batch.failed
         /\ batch'.keys = IF o \in {"plaintext", "blocked"}
                          THEN batch.keys \cup {m} ELSE batch.keys
    BY <1>8, <1>9 DEF Batches
  <1>11. /\ batch'.plain \in Seq(Envelopes)
         /\ Range(batch'.plain) =
               Range(batch.plain) \cup (IF o = "plaintext" THEN {e} ELSE {})
    <2>1. batch.plain \in Seq(Envelopes)
      BY <1>8 DEF Batches
    <2>2. Append(batch.plain, e) \in Seq(Envelopes)
          /\ Range(Append(batch.plain, e)) = Range(batch.plain) \cup {e}
      BY <1>3, <2>1, AppendFacts, RangeFacts
    <2>3. QED
      BY <1>10, <2>1, <2>2
  <1>12. batch' \in Batches(Envelopes)
    BY <1>3, <1>4, <1>8, <1>9, <1>10, <1>11 DEF Batches
  <1>13. QED
    BY <1>1, <1>2, <1>3, <1>4, <1>6, <1>7, <1>10, <1>11, <1>12 DEF e, m, o

LEMMA TypeDecrypt ==
    ASSUME DataType, Decrypt
    PROVE  DataType'
  <1> DEFINE e == Head(encrypted).envelope
  <1>1. /\ arrived' = arrived
        /\ UNCHANGED <<onServer, live>>
        /\ UNCHANGED <<incoming, addBatch, zoneQueue, inMemory, saving>>
        /\ UNCHANGED <<emptySent, flagVars>>
        /\ UNCHANGED rows
        /\ UNCHANGED <<advanced, saved, gaveUp>>
    BY DEF Decrypt, serverVars, appVars, dbVars, historyVars
  <1>2. Envelopes' = Envelopes
    BY <1>1, SameEnvelopes
  <1>3. /\ e \in Envelopes /\ e \in DecryptJobs
        /\ batchPhase = "decrypting" /\ batchPhase' = batchPhase
        /\ encrypted' \in Seq(EncryptedJobs(Envelopes))
        /\ DecryptJobs' \subseteq DecryptJobs
        /\ batch'.items = batch.items
        /\ Range(batch'.plain) \subseteq Range(batch.plain) \cup {e}
        /\ batch'.failed \subseteq batch.failed \cup {e}
        /\ batch' \in Batches(Envelopes)
    BY Decrypted
  <1>4. QueueType'
    <2>1. /\ Job("decryptionError", e) \in DecryptedJobs(Envelopes)
          /\ Job("delivery", e) \in AppJobs(Envelopes)
      BY <1>3, NewTask DEF DecryptedJobs, AppJobs
    <2>2. decrypted' \in {decrypted, Append(decrypted, Job("decryptionError", e))}
          /\ appQueue' \in {appQueue, Append(appQueue, Job("delivery", e))}
      BY DEF Decrypt
    <2>3. Append(decrypted, Job("decryptionError", e)) \in Seq(DecryptedJobs(Envelopes))
      BY <2>1, AppendFacts DEF DataType, QueueType
    <2>4. Append(appQueue, Job("delivery", e)) \in Seq(AppJobs(Envelopes))
      BY <2>1, AppendFacts DEF DataType, QueueType
    <2>5. QED
      BY <1>1, <1>2, <1>3, <2>2, <2>3, <2>4 DEF DataType, QueueType
  <1>5. BatchType'
    BY <1>2, <1>3 DEF BatchType
  <1>6. AppType'
    <2>1. removeBatch' \subseteq removeBatch \cup {e}
      BY DEF Decrypt
    <2>2. UNCHANGED <<jobQueue, inMemory, saving, failedHere, failedEver>>
      BY DEF Decrypt, appVars, historyVars
    <2>3. QED
      BY <1>1, <1>2, <1>3, <2>1, <2>2 DEF DataType, AppType
  <1>7. BatchKnowsItems'
    <2>1. Stored' \subseteq Stored \cup {e}
      BY <1>3 DEF Stored
    <2>2. Stored \cup DecryptJobs \subseteq Envs(batch.items)
      BY <1>3 DEF DataType, BatchKnowsItems
    <2>3. Stored' \cup DecryptJobs' \subseteq Envs(batch'.items)
      BY <1>3, <2>1, <2>2
    <2>4. QED
      BY <1>3, <2>3 DEF BatchKnowsItems
  <1>8. QED
    BY <1>1, <1>4, <1>5, <1>6, <1>7, SameTypes DEF DataType

\* The commit stores each row, its attempts being fewer than the limit.
LEMMA RowsSaved ==
    ASSUME DataType, batchPhase \in {"decrypting", "committing", "stuck"}
    PROVE  /\ DOMAIN SavedRows = DOMAIN rows \cup Stored
           /\ SavedRows \in [DOMAIN SavedRows -> Rows]
           /\ \A e \in Stored : SavedRows[e].decrypted = (e \in Range(batch.plain))
           /\ \A e \in DOMAIN rows \ Stored : SavedRows[e] = rows[e]
           /\ Stored \subseteq Envelopes
  <1> DEFINE item(e) == CHOOSE i \in Range(batch.items) : i.envelope = e
             attempts == [e \in Stored |-> item(e).attempts]
             keep == {e \in Stored : attempts[e] < MaxAttempts}
  <1>1. batch.items \in Seq(ItemsOf(Envelopes)) /\ batch.plain \in Seq(Envelopes)
        /\ batch.failed \subseteq Envelopes
    BY DEF DataType, BatchType, Batches
  <1>2. ASSUME NEW e \in Stored
        PROVE  attempts[e] \in 1 .. (MaxAttempts - 1)
    <2>1. e \in Envs(batch.items)
      BY DEF DataType, BatchKnowsItems
    <2>2. \E i \in Range(batch.items) : i.envelope = e
      BY <2>1 DEF Envs, Range
    <2>3. item(e) \in Range(batch.items)
      BY <2>2
    <2>4. item(e) \in ItemsOf(Envelopes)
      BY <1>1, <2>3, RangeFacts
    <2>5. attempts[e] = item(e).attempts
      OBVIOUS
    <2> HIDE DEF item, attempts
    <2>6. QED
      BY <2>4, <2>5 DEF ItemsOf
  <1>3. SavedRows = [e \in (DOMAIN rows \ Stored) \cup keep |->
            IF e \in keep
            THEN [attempts |-> attempts[e], decrypted |-> e \in Range(batch.plain)]
            ELSE rows[e]]
    BY DEF SavedRows
  <1> HIDE DEF attempts
  <1>4. keep = Stored
    BY <1>2, ReceiverAssumption
  <1> HIDE DEF keep
  <1>5. Stored \subseteq Envelopes
    BY <1>1, RangeFacts DEF Stored
  <1>6. \A e \in Stored :
           [attempts |-> attempts[e], decrypted |-> e \in Range(batch.plain)] \in Rows
    BY <1>2 DEF Rows
  <1>7. \A e \in DOMAIN rows : rows[e] \in Rows
    BY DEF DataType, RowType
  <1>8. DOMAIN SavedRows = DOMAIN rows \cup Stored
    BY <1>3, <1>4
  <1>9. \A e \in DOMAIN SavedRows : SavedRows[e] \in Rows
    BY <1>3, <1>4, <1>6, <1>7
  <1>10. SavedRows \in [DOMAIN SavedRows -> Rows]
    BY <1>3, <1>9
  <1>11. \A e \in Stored : SavedRows[e].decrypted = (e \in Range(batch.plain))
    BY <1>3, <1>4
  <1>12. \A e \in DOMAIN rows \ Stored : SavedRows[e] = rows[e]
    BY <1>3, <1>4
  <1>13. QED
    BY <1>5, <1>8, <1>10, <1>11, <1>12

LEMMA TypeCommitDone ==
    ASSUME DataType, CommitDone
    PROVE  DataType'
  <1>1. /\ arrived' = arrived
        /\ UNCHANGED <<onServer, live>>
        /\ UNCHANGED queueVars
        /\ UNCHANGED <<removeBatch, appVars, failedEver>>
        /\ UNCHANGED <<emptySent, flagVars>>
        /\ UNCHANGED <<batch, encrypted, saved, gaveUp>>
        /\ batchPhase = "committing" /\ batchPhase' = "acking"
        /\ rows' = SavedRows /\ advanced' = advanced \cup batch.keys
    BY DEF CommitDone, serverVars, queueVars, appVars, historyVars
  <1>2. Envelopes' = Envelopes
    BY <1>1, SameEnvelopes
  <1>3. BatchType'
    BY <1>1, <1>2 DEF DataType, BatchType
  <1>4. RowType'
    BY <1>1, <1>2, RowsSaved DEF DataType, RowType
  <1>5. TableType'
    BY <1>1 DEF DataType, TableType, BatchType, Batches
  <1>6. BatchKnowsItems'
    BY <1>1, SameJobs DEF DataType, BatchKnowsItems
  <1>7. QED
    BY <1>1, <1>3, <1>4, <1>5, <1>6, SameTypes DEF DataType

LEMMA TypeCommitRejected ==
    ASSUME DataType, CommitRejected
    PROVE  DataType'
  <1>1. /\ arrived' = arrived
        /\ UNCHANGED <<onServer, live>>
        /\ UNCHANGED queueVars
        /\ UNCHANGED <<removeBatch, appVars, failedEver>>
        /\ UNCHANGED <<emptySent, flagVars>>
        /\ UNCHANGED <<batch, encrypted, saved, gaveUp>>
        /\ batchPhase = "committing" /\ batchPhase' = "stuck"
        /\ \/ UNCHANGED <<rows, advanced>>
           \/ rows' = SavedRows /\ advanced' = advanced \cup batch.keys
    BY DEF CommitRejected, serverVars, queueVars, appVars, historyVars
  <1>2. Envelopes' = Envelopes
    BY <1>1, SameEnvelopes
  <1>3. BatchType'
    BY <1>1, <1>2 DEF DataType, BatchType
  <1>4. RowType'
    BY <1>1, <1>2, RowsSaved DEF DataType, RowType
  <1>5. TableType'
    BY <1>1 DEF DataType, TableType, BatchType, Batches
  <1>6. BatchKnowsItems'
    BY <1>1, SameJobs DEF DataType, BatchKnowsItems, Stored, Envs
  <1>7. QED
    BY <1>1, <1>3, <1>4, <1>5, <1>6, SameTypes DEF DataType

LEMMA StepKeepsDataType ==
    ASSUME DataType, [Next]_vars
    PROVE  DataType'
  <1>1. CASE Progress
    BY <1>1, TypeDecryptAndCache, TypeQueueAllCached, TypeOnEmpty, TypeBatcherIdle,
       TypeWaitForIncoming, TypeStartBatch, TypeEnterZone, TypeDecrypt, TypeQueueDecrypted,
       TypeWaitForEncrypted, TypeSendCommit, TypeCommitDone, TypeAcknowledge, TypeEndBatch,
       TypeHandle, TypeBatchHandled, TypeDecryptionError, TypeWaitForDecrypted,
       TypeOnMessageReceived, TypeHandleDataMessage, TypeSaveAndConfirm, TypeDelivery,
       TypeEmitEmpty, TypeCacheRemove, Zenon DEF Progress
  <1>2. CASE UNCHANGED vars
    <2>1. /\ arrived' = arrived
          /\ UNCHANGED <<onServer, live>>
          /\ UNCHANGED queueVars
          /\ UNCHANGED batchVars
          /\ UNCHANGED <<removeBatch, appVars, failedEver>>
          /\ UNCHANGED <<emptySent, flagVars>>
          /\ UNCHANGED rows
          /\ UNCHANGED <<advanced, saved, gaveUp>>
          /\ UNCHANGED encrypted
      BY <1>2 DEF vars, serverVars, queueVars, appVars, dbVars, historyVars
    <2>2. QED
      BY <2>1, SameTypes, SameItems, SameJobs DEF DataType
  <1>3. QED
    BY <1>1, <1>2, TypeDeliver, TypeDeliverEmpty, TypeReconnect, TypeRetryTimeout,
       TypeStopProcessing, TypeCrashAndRestart, TypeCommitRejected, TypeSaveRejected,
       TypeCacheRemoveRejected, TypeQueueAllCachedRejected, TypeHandleThrows,
       Zenon DEF Next

LEMMA DataTypeCorrect == Spec => []DataType
  <1>1. QED
    BY InitDataType, StepKeepsDataType, PTL DEF Spec

\* The receiver's state is what it is meant to be: whatever is delivered, read
\* again, rejected or lost, the items of a batch are those it asked the table for,
\* and a row it stores has attempts left.
THEOREM TypeCorrect == Spec => []TypeOK
  <1>1. QED
    BY DataTypeCorrect, DataTypeTypes, PTL
-----------------------------------------------------------------------------
(* A message is saved once *)

\* A message that is being saved is registered, is being saved once, and is not in
\* the table.
SavingOnce ==
    \A i, j \in DOMAIN saving : MessageOf(saving[i]) = MessageOf(saving[j]) => i = j
SavingIsNew ==
    \A i \in DOMAIN saving : MessageOf(saving[i]) \in inMemory \ Range(saved)
SaveInv == SavedOnce /\ SavingOnce /\ SavingIsNew

LEMMA SameSaves ==
    ASSUME SaveInv, UNCHANGED <<saved, saving, inMemory, arrived>>
    PROVE  SaveInv'
  BY DEF SaveInv, SavedOnce, SavingOnce, SavingIsNew, MessageOf

LEMMA SavesDeliver ==
    ASSUME DataType, SaveInv, Deliver
    PROVE  SaveInv'
  <1>1. UNCHANGED <<saved, saving, inMemory>>
    BY DEF Deliver, appVars, dbVars
  <1>2. \A i \in DOMAIN saving : MessageOf(saving[i])' = MessageOf(saving[i])
    <2>1. \A i \in DOMAIN saving : saving[i] \in Envelopes
      BY DEF DataType, AppType
    <2>2. QED
      BY <1>1, <2>1, MoreEnvelopes DEF MessageOf
  <1>3. QED
    BY <1>1, <1>2 DEF SaveInv, SavedOnce, SavingOnce, SavingIsNew

LEMMA SavesCrashAndRestart ==
    ASSUME SaveInv, CrashAndRestart
    PROVE  SaveInv'
  BY DEF CrashAndRestart, dbVars, SaveInv, SavedOnce, SavingOnce, SavingIsNew

LEMMA SavesHandleDataMessage ==
    ASSUME DataType, SaveInv, NEW c \in Conversations, HandleDataMessage(c)
    PROVE  SaveInv'
  <1> DEFINE e == Head(jobQueue[c])
             m == MessageOf(e)
  <1>1. saved' = saved /\ arrived' = arrived
    BY DEF HandleDataMessage, dbVars, historyVars
  <1>2. CASE Known(m)
    BY <1>1, <1>2, SameSaves DEF HandleDataMessage
  <1>3. CASE ~Known(m)
    <2>1. /\ inMemory' = inMemory \cup {m} /\ saving' = Append(saving, e)
          /\ m \notin inMemory /\ m \notin Range(saved)
      BY <1>3 DEF HandleDataMessage, Known
    <2>2. e \in Envelopes
      BY FirstOfConversation DEF HandleDataMessage
    <2> DEFINE n == Len(saving) + 1
    <2>3. /\ DOMAIN saving' = DOMAIN saving \cup {n} /\ saving'[n] = e
          /\ \A i \in DOMAIN saving : saving'[i] = saving[i]
      BY <2>1, <2>2, AppendFacts DEF DataType, AppType
    <2> HIDE DEF n, e
    <2>4. \A i \in DOMAIN saving : MessageOf(saving[i]) # m
      BY <2>1 DEF SaveInv, SavingIsNew
    <2>5. \A x : MessageOf(x)' = MessageOf(x)
      BY <1>1 DEF MessageOf
    <2>6. SavingOnce'
      BY <1>1, <2>3, <2>4 DEF SaveInv, SavingOnce, MessageOf
    <2>7. SavingIsNew'
      BY <1>1, <2>1, <2>3 DEF SaveInv, SavingIsNew, MessageOf
    <2>8. QED
      BY <1>1, <2>6, <2>7 DEF SaveInv, SavedOnce
  <1>4. QED
    BY <1>2, <1>3

\* A message may stay registered though it is not saved.
LEMMA SavesHandleThrows ==
    ASSUME SaveInv, NEW c \in Conversations, HandleThrows(c)
    PROVE  SaveInv'
  <1>1. UNCHANGED <<saved, saving, arrived>> /\ inMemory \subseteq inMemory'
    BY DEF HandleThrows, dbVars
  <1>2. QED
    BY <1>1 DEF SaveInv, SavedOnce, SavingOnce, SavingIsNew, MessageOf

\* The first save ends, in the table or not.
LEMMA SavesEnd ==
    ASSUME DataType, SaveInv, saving # <<>>, saving' = Tail(saving),
           arrived' = arrived, inMemory' = inMemory,
           saved' \in {saved, Append(saved, MessageOf(Head(saving)))}
    PROVE  SaveInv'
  <1> DEFINE m == MessageOf(Head(saving))
  <1>1. saving \in Seq(Envelopes) /\ saved \in Seq(Messages)
    BY DEF DataType, AppType, TableType
  <1>2. /\ Head(saving) = saving[1] /\ Head(saving) \in Envelopes /\ 1 \in DOMAIN saving
        /\ \A i \in DOMAIN saving' : i + 1 \in DOMAIN saving /\ saving'[i] = saving[i + 1]
        /\ saving' \in Seq(Envelopes)
    BY <1>1, TailFacts
  <1>3. m \in Messages /\ m \notin Range(saved)
    BY <1>2 DEF SaveInv, SavingIsNew, MessageOf, Envelopes, DataType, ServerType
  <1>4. \A i \in DOMAIN saving' : MessageOf(saving'[i]) # m
    <2>1. \A i \in DOMAIN saving' : i + 1 # 1
      BY <1>2
    <2>2. QED
      BY <1>2, <2>1 DEF SaveInv, SavingOnce
  <1>5. SavingOnce'
    <2>1. ASSUME NEW i \in DOMAIN saving', NEW j \in DOMAIN saving',
                 arrived[saving'[i]] = arrived[saving'[j]]
          PROVE  i = j
      <3>1. i + 1 = j + 1
        BY <1>2, <2>1 DEF SaveInv, SavingOnce, MessageOf
      <3>2. i \in Int /\ j \in Int
        BY <1>2
      <3>3. QED
        BY <3>1, <3>2
    <2>2. QED
      BY <2>1 DEF SavingOnce, MessageOf
  <1> HIDE DEF m
  <1>6. Range(saved') \subseteq Range(saved) \cup {m}
    <2>1. Range(Append(saved, m)) = Range(saved) \cup {m}
      BY <1>1, <1>3, RangeFacts DEF m
    <2>2. saved' \in {saved, Append(saved, m)}
      BY DEF m
    <2>3. QED
      BY <2>1, <2>2
  <1>7. SavingIsNew'
    <2>1. \A i \in DOMAIN saving' : arrived[saving'[i]] \in inMemory \ Range(saved)
      BY <1>2 DEF SaveInv, SavingIsNew, MessageOf
    <2>2. \A i \in DOMAIN saving' : arrived[saving'[i]] # m
      BY <1>4 DEF MessageOf
    <2>3. QED
      BY <1>6, <2>1, <2>2 DEF SavingIsNew, MessageOf
  <1>8. SavedOnce'
    <2>1. CASE saved' = saved
      BY <2>1 DEF SaveInv, SavedOnce
    <2>2. CASE saved' = Append(saved, m)
      <3> DEFINE n == Len(saved) + 1
      <3>1. /\ DOMAIN saved' = DOMAIN saved \cup {n} /\ saved'[n] = m
            /\ \A i \in DOMAIN saved : saved'[i] = saved[i]
        BY <1>1, <1>3, <2>2, AppendFacts
      <3>2. \A i \in DOMAIN saved : saved[i] # m
        BY <1>3 DEF Range
      <3> HIDE DEF n
      <3>3. QED
        BY <3>1, <3>2 DEF SaveInv, SavedOnce
    <2>3. QED
      BY <2>1, <2>2 DEF m
  <1>9. QED
    BY <1>5, <1>7, <1>8 DEF SaveInv

LEMMA StepKeepsSaveInv ==
    ASSUME DataType, SaveInv, [Next]_vars
    PROVE  SaveInv'
  <1>1. CASE SaveAndConfirm
    BY <1>1, SavesEnd DEF SaveAndConfirm, historyVars
  <1>2. CASE SaveRejected
    BY <1>2, SavesEnd DEF SaveRejected, historyVars
  <1>3. \/ Deliver \/ CrashAndRestart \/ SaveAndConfirm \/ SaveRejected
        \/ \E c \in Conversations : HandleDataMessage(c) \/ HandleThrows(c)
        \/ UNCHANGED <<saved, saving, inMemory, arrived>>
    <2>1. CASE UNCHANGED vars
      BY <2>1 DEF vars, appVars, dbVars, historyVars
    <2>2. CASE Progress
      BY <2>2, Zenon DEF Progress, DecryptAndCache, QueueAllCached, OnEmpty, BatcherIdle,
         WaitForIncoming, StartBatch, EnterZone, Decrypt, QueueDecrypted, WaitForEncrypted,
         SendCommit, CommitDone, Acknowledge, EndBatch, Handle, BatchHandled,
         DecryptionError, WaitForDecrypted, OnMessageReceived, Delivery, EmitEmpty,
         CacheRemove, appVars, dbVars, historyVars
    <2>3. QED
      BY <2>1, <2>2, Zenon DEF Next, DeliverEmpty, Reconnect, RetryTimeout, StopProcessing,
         CommitRejected, CacheRemoveRejected, QueueAllCachedRejected, appVars, dbVars,
         historyVars
  <1>4. QED
    BY <1>1, <1>2, <1>3, SameSaves, SavesDeliver, SavesCrashAndRestart,
       SavesHandleDataMessage, SavesHandleThrows

LEMMA SaveInvCorrect == Spec => []SaveInv
  <1>1. Init => SaveInv
    BY DEF Init, SaveInv, SavedOnce, SavingOnce, SavingIsNew
  <1>2. QED
    BY <1>1, DataTypeCorrect, StepKeepsSaveInv, PTL DEF Spec

\* However often an envelope is delivered or its row read again, whatever the
\* table rejects and whenever the process crashes, handleDataMessage and
\* saveAndNotify put a message in the table at most once.
THEOREM MessagesSavedOnce == Spec => []SavedOnce
  <1>1. SaveInv => SavedOnce
    BY DEF SaveInv
  <1>2. QED
    BY <1>1, SaveInvCorrect, PTL
-----------------------------------------------------------------------------
(* Jobs and items of different envelopes *)

LEMMA DistinctTail ==
    ASSUME NEW S, NEW q \in Seq(S), q # <<>>, NEW name, NEW f, Distinct(q, name, f)
    PROVE  /\ Distinct(Tail(q), name, f)
           /\ Head(q).do = name =>
                 /\ f[Head(q).envelope] \notin Labels(Tail(q), name, f)
                 /\ Labels(Tail(q), name, f) = Labels(q, name, f) \ {f[Head(q).envelope]}
  <1> DEFINE t == Tail(q)
  <1>1. /\ Head(q) = q[1] /\ 1 \in DOMAIN q
        /\ \A i \in DOMAIN t : i + 1 \in DOMAIN q /\ t[i] = q[i + 1] /\ i \in Nat /\ i + 1 # 1
    BY TailFacts
  <1> HIDE DEF t
  <1>2. Distinct(t, name, f)
    <2>1. ASSUME NEW i \in DOMAIN t, NEW j \in DOMAIN t, t[i].do = name, t[j].do = name,
                 f[t[i].envelope] = f[t[j].envelope]
          PROVE  i = j
      <3>1. i + 1 = j + 1
        BY <1>1, <2>1 DEF Distinct
      <3>2. QED
        BY <1>1, <3>1
    <2>2. QED
      BY <2>1 DEF Distinct
  <1>3. ASSUME Head(q).do = name, f[Head(q).envelope] \in Labels(t, name, f)
        PROVE  FALSE
    <2>1. PICK i \in DOMAIN t : t[i].do = name /\ f[t[i].envelope] = f[Head(q).envelope]
      BY <1>3, InLabels
    <2>2. QED
      BY <1>1, <1>3, <2>1 DEF Distinct
  <1>4. QED
    BY <1>2, <1>3, LabelsTail DEF t

LEMMA DistinctAppend ==
    ASSUME NEW S, NEW q \in Seq(S), NEW job, NEW e, Job(job, e) \in S, NEW name, NEW f,
           Distinct(q, name, f),
           job = name => f[e] \notin Labels(q, name, f)
    PROVE  Distinct(Append(q, Job(job, e)), name, f)
  <1>1. PICK x \in S : x = Job(job, e)
    OBVIOUS
  <1>2. x.do = job /\ x.envelope = e
    BY <1>1 DEF Job
  <1> DEFINE t == Append(q, x)
             n == Len(q) + 1
  <1>3. /\ DOMAIN t = DOMAIN q \cup {n} /\ t[n] = x
        /\ \A i \in DOMAIN q : t[i] = q[i]
    BY AppendFacts
  <1>4. job = name => \A i \in DOMAIN q : q[i].do = name => f[q[i].envelope] # f[e]
    BY InLabels
  <1> HIDE DEF t, n
  <1>5. Distinct(t, name, f)
    BY <1>2, <1>3, <1>4 DEF Distinct
  <1>6. QED
    BY <1>1, <1>5 DEF t

LEMMA DistinctConcat ==
    ASSUME NEW S, NEW q \in Seq(S), NEW r \in Seq(S), NEW name, NEW f,
           Distinct(q, name, f), Distinct(r, name, f),
           Labels(q, name, f) \cap Labels(r, name, f) = {}
    PROVE  Distinct(q \o r, name, f)
  <1> DEFINE t == q \o r
             n == Len(q)
  <1>1. /\ \A i \in DOMAIN q : t[i] = q[i]
        /\ \A i \in DOMAIN t : \/ i \in DOMAIN q
                               \/ i - n \in DOMAIN r /\ t[i] = r[i - n]
    <2>1. \A i \in DOMAIN t : i \in DOMAIN q \/ (i - n) + n = i
      OBVIOUS
    <2>2. QED
      BY <2>1, ConcatFacts
  <1>2. \A i, j \in DOMAIN t : i - n = j - n => i = j
    OBVIOUS
  <1> HIDE DEF t, n
  <1>3. \A i \in DOMAIN q : q[i].do = name => f[q[i].envelope] \in Labels(q, name, f)
    BY InLabels
  <1>4. \A i \in DOMAIN r : r[i].do = name => f[r[i].envelope] \in Labels(r, name, f)
    BY InLabels
  <1>5. ASSUME NEW i \in DOMAIN t, NEW j \in DOMAIN t, t[i].do = name, t[j].do = name,
               f[t[i].envelope] = f[t[j].envelope]
        PROVE  i = j
    <2>1. CASE i \in DOMAIN q /\ j \in DOMAIN q
      BY <1>1, <1>5, <2>1 DEF Distinct
    <2>2. CASE i \notin DOMAIN q /\ j \notin DOMAIN q
      <3>1. i - n = j - n
        BY <1>1, <1>5, <2>2 DEF Distinct
      <3>2. QED
        BY <1>2, <3>1
    <2>3. CASE i \in DOMAIN q /\ j \notin DOMAIN q
      BY <1>1, <1>3, <1>4, <1>5, <2>3
    <2>4. CASE i \notin DOMAIN q /\ j \in DOMAIN q
      BY <1>1, <1>3, <1>4, <1>5, <2>4
    <2>5. QED
      BY <2>1, <2>2, <2>3, <2>4
  <1>6. QED
    BY <1>5 DEF Distinct, t

LEMMA DistinctJobs ==
    ASSUME NEW s, NEW job, NEW name, NEW f,
           \A i, j \in DOMAIN s : f[s[i]] = f[s[j]] => i = j
    PROVE  Distinct([i \in DOMAIN s |-> Job(job, s[i])], name, f)
  BY DEF Distinct, Job

LEMMA DistinctEmpty ==
    ASSUME NEW name, NEW f
    PROVE  Distinct(<<>>, name, f)
  BY DEF Distinct

\* Labels that agree on the envelopes there are.
LEMMA Relabelled ==
    ASSUME NEW E, NEW names, NEW idle, NEW q \in Seq(Tasks(E, names, idle)),
           NEW name, name \notin idle, NEW f, NEW g, \A e \in E : f[e] = g[e]
    PROVE  /\ Labels(q, name, f) = Labels(q, name, g)
           /\ Distinct(q, name, f) => Distinct(q, name, g)
  <1>1. \A i \in DOMAIN q : q[i].do = name => q[i].envelope \in E
    <2>1. \A i \in DOMAIN q : q[i] \in Tasks(E, names, idle)
      OBVIOUS
    <2>2. QED
      BY <2>1, HeadTask
  <1>2. \A i \in DOMAIN q : q[i].do = name => f[q[i].envelope] = g[q[i].envelope]
    BY <1>1
  <1>3. ASSUME NEW x PROVE x \in Labels(q, name, f) <=> x \in Labels(q, name, g)
    BY <1>2, InLabels
  <1>4. QED
    BY <1>2, <1>3 DEF Distinct

\* The items of a batch are of different envelopes.
Once(s) == \A i, j \in DOMAIN s : s[i].envelope = s[j].envelope => i = j

LEMMA OnceAppend ==
    ASSUME NEW S, NEW q \in Seq(S), NEW x \in S, Once(q), x.envelope \notin Envs(q)
    PROVE  Once(Append(q, x)) /\ Envs(Append(q, x)) = Envs(q) \cup {x.envelope}
  <1> DEFINE t == Append(q, x)
             n == Len(q) + 1
  <1>1. /\ DOMAIN t = DOMAIN q \cup {n} /\ t[n] = x
        /\ \A i \in DOMAIN q : t[i] = q[i]
    BY AppendFacts
  <1> HIDE DEF t, n
  <1>2. QED
    BY <1>1 DEF Once, Envs, t

\* No two batches that wait have an envelope in common.
Zoned(z) == UNION {Envs(z[k]) : k \in DOMAIN z}
ZoneOnce(z) ==
    /\ \A k \in DOMAIN z : Once(z[k])
    /\ \A k, l \in DOMAIN z : k # l => Envs(z[k]) \cap Envs(z[l]) = {}

LEMMA ZoneAppend ==
    ASSUME NEW S, NEW z \in Seq(S), NEW b \in S, ZoneOnce(z), Once(b),
           Envs(b) \cap Zoned(z) = {}
    PROVE  ZoneOnce(Append(z, b)) /\ Zoned(Append(z, b)) = Zoned(z) \cup Envs(b)
  <1> DEFINE t == Append(z, b)
             n == Len(z) + 1
  <1>1. /\ DOMAIN t = DOMAIN z \cup {n} /\ t[n] = b
        /\ \A i \in DOMAIN z : t[i] = z[i]
    BY AppendFacts
  <1> HIDE DEF t, n
  <1>2. \A k \in DOMAIN z : Envs(z[k]) \subseteq Zoned(z)
    BY DEF Zoned
  <1>3. ZoneOnce(t)
    BY <1>1, <1>2 DEF ZoneOnce
  <1>4. Zoned(t) = Zoned(z) \cup Envs(b)
    BY <1>1 DEF Zoned
  <1>5. QED
    BY <1>3, <1>4 DEF t

LEMMA ZoneTail ==
    ASSUME NEW S, NEW z \in Seq(S), z # <<>>, ZoneOnce(z)
    PROVE  /\ ZoneOnce(Tail(z)) /\ Once(Head(z))
           /\ Zoned(Tail(z)) \cap Envs(Head(z)) = {}
           /\ Zoned(Tail(z)) \cup Envs(Head(z)) = Zoned(z)
  <1> DEFINE t == Tail(z)
  <1>1. /\ Head(z) = z[1] /\ 1 \in DOMAIN z
        /\ \A i \in DOMAIN t : i + 1 \in DOMAIN z /\ t[i] = z[i + 1] /\ i \in Nat /\ i + 1 # 1
        /\ \A i \in DOMAIN z : i = 1 \/ (i - 1 \in DOMAIN t /\ t[i - 1] = z[i])
    BY TailFacts
  <1>2. \A i, j \in DOMAIN t : i # j => i + 1 # j + 1
    BY <1>1
  <1> HIDE DEF t
  <1>3. ZoneOnce(t)
    BY <1>1, <1>2 DEF ZoneOnce
  <1>4. Once(Head(z))
    BY <1>1 DEF ZoneOnce
  <1>5. \A i \in DOMAIN t : Envs(t[i]) \cap Envs(Head(z)) = {}
    BY <1>1 DEF ZoneOnce
  <1>6. Zoned(t) \cap Envs(Head(z)) = {}
    BY <1>5 DEF Zoned
  <1>7. Zoned(t) \cup Envs(Head(z)) = Zoned(z)
    <2>1. Zoned(t) \subseteq Zoned(z)
      BY <1>1 DEF Zoned
    <2>2. Envs(Head(z)) \subseteq Zoned(z)
      BY <1>1 DEF Zoned
    <2>3. \A k \in DOMAIN z : Envs(z[k]) \subseteq Zoned(t) \cup Envs(Head(z))
      <3>1. \A k \in DOMAIN t : Envs(t[k]) \subseteq Zoned(t)
        BY DEF Zoned
      <3>2. \A k \in DOMAIN z : Envs(z[k]) = Envs(Head(z)) \/ Envs(z[k]) \subseteq Zoned(t)
        BY <1>1, <3>1
      <3>3. QED
        BY <3>2
    <2>4. Zoned(z) \subseteq Zoned(t) \cup Envs(Head(z))
      BY <2>3 DEF Zoned
    <2>5. QED
      BY <2>1, <2>2, <2>4
  <1>8. QED
    BY <1>3, <1>4, <1>6, <1>7 DEF t
-----------------------------------------------------------------------------
(* Where an envelope is, without a replay in one process                     *)
(*                                                                           *)
(* An envelope waits to be decrypted in one place: incomingQueue, the items  *)
(* of the batcher, a batch that waits for the zone, or encryptedQueue.  Once *)
(* its plaintext is on the way, the message is in one place too: among the   *)
(* plaintexts of the batch, a job of encryptedQueue, decryptedQueue or       *)
(* appQueue, or given to the application: in the queue of its conversation,  *)
(* registered in memory, or failed.                                          *)

Incoming == Labels(incoming, "decryptAndCache", Id)
Adding == Envs(addBatch)
Waiting == Zoned(zoneQueue)
Pending == Incoming \cup Adding \cup Waiting \cup DecryptJobs

Plain == Range(batch.plain)
Plaintexts == {MessageOf(e) : e \in Plain}
Queued == Labels(encrypted, "queueDecrypted", arrived)
Handling == Labels(decrypted, "handle", arrived)
Dispatched == Labels(appQueue, "message", arrived)
JobMessages(q) == {MessageOf(q[i]) : i \in DOMAIN q}
InJobs == UNION {JobMessages(jobQueue[c]) : c \in Conversations}
Given == inMemory \cup InJobs \cup failedHere
Errors == Labels(decrypted, "decryptionError", arrived)
Deliveries == Labels(appQueue, "delivery", arrived)

DecryptedRows == {e \in DOMAIN rows : rows[e].decrypted}
Open == batchPhase \in {"decrypting", "committing", "stuck"}
Consumed == advanced \cup (IF Open THEN batch.keys ELSE {})

\* The table is read by a process that has done nothing yet.
Idle ==
    /\ addBatch = <<>> /\ zoneQueue = <<>> /\ batchPhase = "none"
    /\ encrypted = <<>> /\ decrypted = <<>> /\ appQueue = <<>>
    /\ removeBatch = {} /\ inMemory = {} /\ saving = <<>>
    /\ InJobs = {} /\ failedHere = {}
ReadFirst ==
    \A i \in DOMAIN incoming : incoming[i].do = "queueAllCached" => i = 1 /\ Idle

ItemsOnce ==
    /\ Distinct(incoming, "decryptAndCache", Id)
    /\ Once(addBatch)
    /\ ZoneOnce(zoneQueue)
    /\ Distinct(encrypted, "decrypt", Id)
ItemsApart ==
    /\ Incoming \cap (Adding \cup Waiting \cup DecryptJobs) = {}
    /\ Adding \cap (Waiting \cup DecryptJobs) = {}
    /\ Waiting \cap DecryptJobs = {}

\* What is still to be decrypted has no plaintext and no row of its own.
PendingNotDone ==
    /\ Pending \cap (DecryptedRows \cup Stored) = {}
    /\ Incoming \cap DOMAIN rows = {}
    /\ batchPhase \in {"decrypting", "committing"} => Stored \cap DecryptedRows = {}

PlaintextsOnce ==
    /\ Distinct(encrypted, "queueDecrypted", arrived)
    /\ Distinct(decrypted, "handle", arrived)
    /\ Distinct(appQueue, "message", arrived)
    /\ \A i, j \in DOMAIN batch.plain :
          MessageOf(batch.plain[i]) = MessageOf(batch.plain[j]) => i = j

\* The queue of a conversation has messages of it, each once.
JobsOnce ==
    \A c \in Conversations :
       /\ \A m \in JobMessages(jobQueue[c]) : ConversationOf[m] = c
       /\ \A i, j \in DOMAIN jobQueue[c] :
             MessageOf(jobQueue[c][i]) = MessageOf(jobQueue[c][j]) => i = j
PlaintextsApart ==
    /\ Queued \cap (Handling \cup Dispatched \cup Plaintexts \cup Given) = {}
    /\ Handling \cap (Dispatched \cup Plaintexts \cup Given) = {}
    /\ Dispatched \cap (Plaintexts \cup Given) = {}
    /\ Plaintexts \cap Given = {}
    /\ InJobs \cap inMemory = {}
    /\ Queued \cup Handling \cup Dispatched \cup Given \subseteq advanced
    /\ JobsOnce

\* The keys of an open batch are new, and so are its plaintexts; the row of a
\* plaintext is of a message whose key is gone, and it is the only one.
KeysInv ==
    /\ batchPhase \in {"decrypting", "committing"} => batch.keys \cap advanced = {}
    /\ batchPhase \in {"decrypting", "committing"} =>
          batch.keys \cap ToSave \subseteq Plaintexts
    /\ Open => Plaintexts \subseteq batch.keys
    /\ batchPhase = "acking" => Plaintexts \subseteq advanced
    /\ batchPhase = "none" => batch = NoBatch
RowsInv ==
    /\ \A e \in DecryptedRows : MessageOf(e) \in advanced
    /\ \A e, f \in DecryptedRows : MessageOf(e) = MessageOf(f) => e = f

\* Only what is done with is removed: no plaintext was made of it, and the key of
\* its message had been consumed already; or its message is in the table; or there
\* is nothing to save.
Done(e) ==
    \/ Kind[MessageOf(e)] \in {"broken", "receipt"}
    \/ MessageOf(e) \in Range(saved)
    \/ /\ e \notin Pending \cup Plain \cup DecryptedRows
       /\ MessageOf(e) \in Consumed
RemovedIsDone == \A e \in removeBatch : Done(e)
KindsInv ==
    /\ \A m \in Errors : Kind[m] = "broken"
    /\ \A m \in Deliveries : Kind[m] = "receipt"

\* Kept where a crash does not reach it.
Durable(m) ==
    \/ \E e \in DecryptedRows : MessageOf(e) = m
    \/ m \in Range(saved)
    \/ m \in gaveUp
ConsumedIsDurable == \A m \in ToSave \cap advanced : Durable(m)

KeptHere(m) == Durable(m) \/ \E e \in DOMAIN rows : MessageOf(e) = m
ToBeSaved(e) == MessageOf(e) \in ToSave
AnsweredIsKept ==
    /\ \A m \in ToSave \ onServer : KeptHere(m)
    /\ batchPhase = "decrypting" =>
          \A e \in Envs(batch.items) : ToBeSaved(e) => e \in Stored \cup DecryptJobs
    /\ batchPhase = "committing" =>
          \A e \in Envs(batch.items) : ToBeSaved(e) => e \in Stored
    /\ batchPhase = "acking" =>
          \A e \in Envs(batch.items) : ToBeSaved(e) => KeptHere(MessageOf(e))

IInv ==
    /\ ReadFirst /\ ItemsOnce /\ ItemsApart /\ PendingNotDone
    /\ PlaintextsOnce /\ PlaintextsApart /\ KeysInv /\ RowsInv
    /\ RemovedIsDone /\ KindsInv
    /\ ConsumedIsDurable /\ AnsweredIsKept
-----------------------------------------------------------------------------
(* What an action leaves alone *)

LEMMA SameViews ==
    ASSUME arrived' = arrived
    PROVE  /\ incoming' = incoming =>
                 /\ Incoming' = Incoming
                 /\ Distinct(incoming', "decryptAndCache", Id)
                       = Distinct(incoming, "decryptAndCache", Id)
           /\ addBatch' = addBatch => Adding' = Adding /\ Once(addBatch') = Once(addBatch)
           /\ zoneQueue' = zoneQueue =>
                 Waiting' = Waiting /\ ZoneOnce(zoneQueue') = ZoneOnce(zoneQueue)
           /\ encrypted' = encrypted => DecryptJobs' = DecryptJobs /\ Queued' = Queued
           /\ decrypted' = decrypted => Handling' = Handling /\ Errors' = Errors
           /\ appQueue' = appQueue => Dispatched' = Dispatched /\ Deliveries' = Deliveries
           /\ batch' = batch =>
                 Plain' = Plain /\ Plaintexts' = Plaintexts /\ Stored' = Stored
           /\ rows' = rows => DecryptedRows' = DecryptedRows
           /\ batchPhase' = batchPhase => Open' = Open
           /\ batchVars' = batchVars /\ advanced' = advanced => Consumed' = Consumed
           /\ jobQueue' = jobQueue => InJobs' = InJobs /\ (JobsOnce => JobsOnce')
           /\ appVars' = appVars =>
                 /\ InJobs' = InJobs /\ Given' = Given /\ (JobsOnce => JobsOnce')
                 /\ inMemory' = inMemory /\ failedHere' = failedHere
  <1>1. incoming' = incoming => Incoming' = Incoming
    BY DEF Incoming
  <1>2. addBatch' = addBatch => Adding' = Adding
    BY DEF Adding
  <1>3. zoneQueue' = zoneQueue => Waiting' = Waiting
    BY DEF Waiting
  <1>4. encrypted' = encrypted => DecryptJobs' = DecryptJobs /\ Queued' = Queued
    BY DEF DecryptJobs, Queued
  <1>5. decrypted' = decrypted => Handling' = Handling /\ Errors' = Errors
    BY DEF Handling, Errors
  <1>6. appQueue' = appQueue => Dispatched' = Dispatched /\ Deliveries' = Deliveries
    BY DEF Dispatched, Deliveries
  <1>7. batch' = batch => Plain' = Plain /\ Plaintexts' = Plaintexts /\ Stored' = Stored
    BY DEF Plain, Plaintexts, Stored, MessageOf
  <1>8. rows' = rows => DecryptedRows' = DecryptedRows
    BY DEF DecryptedRows
  <1>9. batchPhase' = batchPhase => Open' = Open
    BY DEF Open
  <1>10. batchVars' = batchVars /\ advanced' = advanced => Consumed' = Consumed
    BY DEF Consumed, batchVars, Open
  <1>11. jobQueue' = jobQueue => InJobs' = InJobs
    BY DEF InJobs, JobMessages, MessageOf
  <1>12. jobQueue' = jobQueue => (JobsOnce => JobsOnce')
    BY DEF JobsOnce, JobMessages, MessageOf
  <1>13. appVars' = appVars =>
            jobQueue' = jobQueue /\ inMemory' = inMemory /\ failedHere' = failedHere
    BY DEF appVars
  <1>14. appVars' = appVars => Given' = Given
    BY <1>11, <1>13 DEF Given
  <1>15. QED
    BY <1>1, <1>2, <1>3, <1>4, <1>5, <1>6, <1>7, <1>8, <1>9, <1>10, <1>11, <1>12, <1>13,
       <1>14

LEMMA NotIdle ==
    ASSUME ReadFirst, incoming' = incoming, Idle => Idle'
    PROVE  ReadFirst'
  BY DEF ReadFirst

\* Only the first job of incomingQueue reads the table.
LEMMA FirstRuns ==
    ASSUME DataType, ReadFirst, incoming # <<>>, incoming' = Tail(incoming)
    PROVE  ReadFirst'
  <1>1. \A i \in DOMAIN incoming' :
           i + 1 \in DOMAIN incoming /\ incoming'[i] = incoming[i + 1] /\ i + 1 # 1
    BY TailFacts DEF DataType, QueueType
  <1>2. QED
    BY <1>1 DEF ReadFirst

LEMMA JobJoins ==
    ASSUME DataType, ReadFirst, Idle => Idle', NEW job, NEW e, job # "queueAllCached",
           NEW S, incoming \in Seq(S), Job(job, e) \in S,
           incoming' = Append(incoming, Job(job, e))
    PROVE  ReadFirst'
  <1>1. PICK x \in S : x = Job(job, e)
    OBVIOUS
  <1>2. x.do = job
    BY <1>1 DEF Job
  <1>3. /\ DOMAIN incoming' = DOMAIN incoming \cup {Len(incoming) + 1}
        /\ incoming'[Len(incoming) + 1] = x
        /\ \A i \in DOMAIN incoming : incoming'[i] = incoming[i]
    BY <1>1, AppendFacts
  <1>4. QED
    BY <1>2, <1>3 DEF ReadFirst

LEMMA StayApart ==
    ASSUME ItemsApart, Incoming' \subseteq Incoming, Adding' \subseteq Adding,
           Waiting' \subseteq Waiting, DecryptJobs' \subseteq DecryptJobs
    PROVE  ItemsApart'
  BY DEF ItemsApart

LEMMA StayPending ==
    ASSUME PendingNotDone, Pending' \subseteq Pending, Incoming' \subseteq Incoming,
           DecryptedRows' \subseteq DecryptedRows, Stored' \subseteq Stored,
           DOMAIN rows' \subseteq DOMAIN rows,
           batchPhase' \in {"decrypting", "committing"} =>
              batchPhase \in {"decrypting", "committing"}
    PROVE  PendingNotDone'
  BY DEF PendingNotDone

LEMMA StayPlaintexts ==
    ASSUME PlaintextsApart, UNCHANGED <<arrived, appVars>>,
           Queued' \subseteq Queued, Handling' \subseteq Handling,
           Dispatched' \subseteq Dispatched, Plaintexts' \subseteq Plaintexts,
           advanced \subseteq advanced'
    PROVE  PlaintextsApart'
  <1>1. Given' = Given /\ InJobs' = InJobs /\ inMemory' = inMemory
        /\ (JobsOnce => JobsOnce')
    BY SameViews
  <1>2. QED
    BY <1>1 DEF PlaintextsApart

LEMMA StayKeys ==
    ASSUME KeysInv, UNCHANGED batchVars, UNCHANGED <<advanced, arrived>>
    PROVE  KeysInv'
  <1>1. UNCHANGED <<batch, batchPhase>> /\ Plaintexts' = Plaintexts /\ Open' = Open
    BY SameViews DEF batchVars
  <1>2. QED
    BY <1>1 DEF KeysInv

LEMMA StayRows ==
    ASSUME RowsInv, arrived' = arrived, DecryptedRows' \subseteq DecryptedRows,
           advanced \subseteq advanced'
    PROVE  RowsInv'
  BY DEF RowsInv, MessageOf

LEMMA StayKinds ==
    ASSUME KindsInv, Errors' \subseteq Errors, Deliveries' \subseteq Deliveries
    PROVE  KindsInv'
  BY DEF KindsInv

\* What is done with stays done with.
LEMMA StayDone ==
    ASSUME arrived' = arrived, NEW e, Done(e),
           Range(saved) \subseteq Range(saved'), Consumed \subseteq Consumed',
           e \in Pending' \cup Plain' \cup DecryptedRows' =>
              e \in Pending \cup Plain \cup DecryptedRows
    PROVE  Done(e)'
  BY DEF Done, MessageOf

LEMMA StayRemoved ==
    ASSUME RemovedIsDone, arrived' = arrived, removeBatch' \subseteq removeBatch,
           Range(saved) \subseteq Range(saved'), Consumed \subseteq Consumed',
           Pending' \cup Plain' \cup DecryptedRows' \subseteq
              Pending \cup Plain \cup DecryptedRows
    PROVE  RemovedIsDone'
  <1>1. ASSUME NEW e \in removeBatch' PROVE Done(e)'
    <2>1. Done(e)
      BY <1>1 DEF RemovedIsDone
    <2>2. QED
      BY <2>1, StayDone
  <1>2. QED
    BY <1>1 DEF RemovedIsDone

LEMMA StayDurable ==
    ASSUME arrived' = arrived, NEW m, Durable(m), DecryptedRows \subseteq DecryptedRows',
           Range(saved) \subseteq Range(saved'), gaveUp \subseteq gaveUp'
    PROVE  Durable(m)'
  BY DEF Durable, MessageOf

LEMMA StayKept ==
    ASSUME arrived' = arrived, NEW m, KeptHere(m), DecryptedRows \subseteq DecryptedRows',
           Range(saved) \subseteq Range(saved'), gaveUp \subseteq gaveUp',
           DOMAIN rows \subseteq DOMAIN rows'
    PROVE  KeptHere(m)'
  <1>1. CASE Durable(m)
    BY <1>1, StayDurable DEF KeptHere
  <1>2. CASE \E e \in DOMAIN rows : MessageOf(e) = m
    BY <1>2 DEF KeptHere, MessageOf
  <1>3. QED
    BY <1>1, <1>2 DEF KeptHere

LEMMA StayConsumed ==
    ASSUME ConsumedIsDurable, arrived' = arrived, advanced' = advanced,
           DecryptedRows \subseteq DecryptedRows',
           Range(saved) \subseteq Range(saved'), gaveUp \subseteq gaveUp'
    PROVE  ConsumedIsDurable'
  <1>1. ASSUME NEW m \in ToSave \cap advanced PROVE Durable(m)'
    BY <1>1, StayDurable DEF ConsumedIsDurable
  <1>2. QED
    BY <1>1 DEF ConsumedIsDurable

LEMMA StayAnswered ==
    ASSUME AnsweredIsKept, arrived' = arrived, onServer' = onServer, UNCHANGED batchVars,
           DecryptJobs' = DecryptJobs,
           DecryptedRows \subseteq DecryptedRows', DOMAIN rows \subseteq DOMAIN rows',
           Range(saved) \subseteq Range(saved'), gaveUp \subseteq gaveUp'
    PROVE  AnsweredIsKept'
  <1>1. \A m : KeptHere(m) => KeptHere(m)'
    BY StayKept
  <1>2. UNCHANGED <<batch, batchPhase>> /\ Stored' = Stored
    BY SameViews DEF batchVars
  <1>3. \A e : MessageOf(e)' = MessageOf(e) /\ ToBeSaved(e)' = ToBeSaved(e)
    BY DEF MessageOf, ToBeSaved
  <1>4. \A m \in ToSave \ onServer : KeptHere(m)'
    BY <1>1 DEF AnsweredIsKept
  <1>5. batchPhase = "acking" =>
           \A e \in Envs(batch.items) : ToBeSaved(e) => KeptHere(arrived[e])'
    BY <1>1 DEF AnsweredIsKept, MessageOf
  <1>6. QED
    BY <1>2, <1>3, <1>4, <1>5 DEF AnsweredIsKept, ToBeSaved, MessageOf
-----------------------------------------------------------------------------
(* A queue takes its first job, or gets another *)

\* The first job of incoming is taken.
LEMMA PopIncoming ==
    ASSUME DataType, arrived' = arrived, incoming # <<>>, incoming' = Tail(incoming),
           Distinct(incoming, "decryptAndCache", Id)
    PROVE  /\ Head(incoming) \in IncomingJobs(Envelopes)
           /\ Head(incoming).do # "decryptAndCache" => Incoming' = Incoming
           /\ Head(incoming).do = "decryptAndCache" => 
                 /\ Head(incoming).envelope \in Envelopes
                 /\ Head(incoming).envelope \in Incoming
                 /\ Incoming' = Incoming \ {Head(incoming).envelope}
           /\ Incoming' \subseteq Incoming
           /\ Distinct(incoming', "decryptAndCache", Id)
  <1>1. incoming \in Seq(IncomingJobs(Envelopes))
    BY DEF DataType, QueueType
  <1>2. Head(incoming) \in IncomingJobs(Envelopes)
    BY <1>1, TailFacts
  <1>3. ASSUME Head(incoming).do = "decryptAndCache"
        PROVE  Head(incoming).envelope \in Envelopes /\ Id[Head(incoming).envelope] = Head(incoming).envelope
    <2>1. Head(incoming).envelope \in Envelopes
      BY <1>2, <1>3, HeadTask DEF IncomingJobs
    <2>2. QED
      BY <2>1 DEF Id, MessageOf, Envelopes
  <1>4. /\ Head(incoming).do # "decryptAndCache" => Incoming' = Incoming
        /\ Incoming' \subseteq Incoming
        /\ Head(incoming).do = "decryptAndCache" => Head(incoming).envelope \in Incoming
    BY <1>1, <1>3, LabelsTail DEF Incoming
  <1>5. /\ Distinct(incoming', "decryptAndCache", Id)
        /\ Head(incoming).do = "decryptAndCache" => Incoming' = Incoming \ {Head(incoming).envelope}
    BY <1>1, <1>3, DistinctTail DEF Incoming
  <1>6. QED
    BY <1>2, <1>3, <1>4, <1>5

\* A job is added to incoming.
LEMMA PushIncoming ==
    ASSUME DataType, arrived' = arrived, NEW job, NEW e, Job(job, e) \in IncomingJobs(Envelopes),
           incoming' = Append(incoming, Job(job, e))
    PROVE  /\ job # "decryptAndCache" => Incoming' = Incoming
           /\ job = "decryptAndCache" /\ e \in Envelopes => Incoming' = Incoming \cup {e}
           /\ job # "decryptAndCache" => (Distinct(incoming, "decryptAndCache", Id) => Distinct(incoming', "decryptAndCache", Id))
           /\ job = "decryptAndCache" /\ e \in Envelopes /\ e \notin Incoming =>
                 (Distinct(incoming, "decryptAndCache", Id) => Distinct(incoming', "decryptAndCache", Id))
  <1>1. incoming \in Seq(IncomingJobs(Envelopes))
    BY DEF DataType, QueueType
  <1>2. e \in Envelopes => Id[e] = e /\ arrived[e] = MessageOf(e)
    BY DEF Id, MessageOf, Envelopes
  <1>3. /\ job # "decryptAndCache" => Incoming' = Incoming
        /\ job = "decryptAndCache" /\ e \in Envelopes => Incoming' = Incoming \cup {e}
    BY <1>1, <1>2, JobAppended DEF Incoming
  <1>4. ASSUME Distinct(incoming, "decryptAndCache", Id),
               job = "decryptAndCache" => e \in Envelopes /\ e \notin Incoming
        PROVE  Distinct(incoming', "decryptAndCache", Id)
    BY <1>1, <1>2, <1>4, DistinctAppend DEF Incoming
  <1>5. QED
    BY <1>3, <1>4

\* The first job of encrypted is taken.
LEMMA PopEncrypted ==
    ASSUME DataType, arrived' = arrived, encrypted # <<>>, encrypted' = Tail(encrypted),
           Distinct(encrypted, "decrypt", Id),
           Distinct(encrypted, "queueDecrypted", arrived)
    PROVE  /\ Head(encrypted) \in EncryptedJobs(Envelopes)
           /\ Head(encrypted).do # "decrypt" => DecryptJobs' = DecryptJobs
           /\ Head(encrypted).do = "decrypt" => 
                 /\ Head(encrypted).envelope \in Envelopes
                 /\ Head(encrypted).envelope \in DecryptJobs
                 /\ DecryptJobs' = DecryptJobs \ {Head(encrypted).envelope}
           /\ DecryptJobs' \subseteq DecryptJobs
           /\ Head(encrypted).do # "queueDecrypted" => Queued' = Queued
           /\ Head(encrypted).do = "queueDecrypted" => 
                 /\ Head(encrypted).envelope \in Envelopes
                 /\ MessageOf(Head(encrypted).envelope) \in Queued
                 /\ Queued' = Queued \ {MessageOf(Head(encrypted).envelope)}
           /\ Queued' \subseteq Queued
           /\ Distinct(encrypted', "decrypt", Id)
           /\ Distinct(encrypted', "queueDecrypted", arrived)
  <1>1. encrypted \in Seq(EncryptedJobs(Envelopes))
    BY DEF DataType, QueueType
  <1>2. Head(encrypted) \in EncryptedJobs(Envelopes)
    BY <1>1, TailFacts
  <1>3. ASSUME Head(encrypted).do = "decrypt"
        PROVE  Head(encrypted).envelope \in Envelopes /\ Id[Head(encrypted).envelope] = Head(encrypted).envelope
    <2>1. Head(encrypted).envelope \in Envelopes
      BY <1>2, <1>3, HeadTask DEF EncryptedJobs
    <2>2. QED
      BY <2>1 DEF Id, MessageOf, Envelopes
  <1>4. /\ Head(encrypted).do # "decrypt" => DecryptJobs' = DecryptJobs
        /\ DecryptJobs' \subseteq DecryptJobs
        /\ Head(encrypted).do = "decrypt" => Head(encrypted).envelope \in DecryptJobs
    BY <1>1, <1>3, LabelsTail DEF DecryptJobs
  <1>5. /\ Distinct(encrypted', "decrypt", Id)
        /\ Head(encrypted).do = "decrypt" => DecryptJobs' = DecryptJobs \ {Head(encrypted).envelope}
    BY <1>1, <1>3, DistinctTail DEF DecryptJobs
  <1>6. ASSUME Head(encrypted).do = "queueDecrypted"
        PROVE  Head(encrypted).envelope \in Envelopes /\ arrived[Head(encrypted).envelope] = MessageOf(Head(encrypted).envelope)
    <2>1. Head(encrypted).envelope \in Envelopes
      BY <1>2, <1>6, HeadTask DEF EncryptedJobs
    <2>2. QED
      BY <2>1 DEF Id, MessageOf, Envelopes
  <1>7. /\ Head(encrypted).do # "queueDecrypted" => Queued' = Queued
        /\ Queued' \subseteq Queued
        /\ Head(encrypted).do = "queueDecrypted" => MessageOf(Head(encrypted).envelope) \in Queued
    BY <1>1, <1>6, LabelsTail DEF Queued
  <1>8. /\ Distinct(encrypted', "queueDecrypted", arrived)
        /\ Head(encrypted).do = "queueDecrypted" => Queued' = Queued \ {MessageOf(Head(encrypted).envelope)}
    BY <1>1, <1>6, DistinctTail DEF Queued
  <1>9. QED
    BY <1>2, <1>3, <1>4, <1>5, <1>6, <1>7, <1>8

\* A job is added to encrypted.
LEMMA PushEncrypted ==
    ASSUME DataType, arrived' = arrived, NEW job, NEW e, Job(job, e) \in EncryptedJobs(Envelopes),
           encrypted' = Append(encrypted, Job(job, e))
    PROVE  /\ job # "decrypt" => DecryptJobs' = DecryptJobs
           /\ job = "decrypt" /\ e \in Envelopes => DecryptJobs' = DecryptJobs \cup {e}
           /\ job # "decrypt" => (Distinct(encrypted, "decrypt", Id) => Distinct(encrypted', "decrypt", Id))
           /\ job = "decrypt" /\ e \in Envelopes /\ e \notin DecryptJobs =>
                 (Distinct(encrypted, "decrypt", Id) => Distinct(encrypted', "decrypt", Id))
           /\ job # "queueDecrypted" => Queued' = Queued
           /\ job = "queueDecrypted" /\ e \in Envelopes => Queued' = Queued \cup {MessageOf(e)}
           /\ job # "queueDecrypted" => (Distinct(encrypted, "queueDecrypted", arrived) => Distinct(encrypted', "queueDecrypted", arrived))
           /\ job = "queueDecrypted" /\ e \in Envelopes /\ MessageOf(e) \notin Queued =>
                 (Distinct(encrypted, "queueDecrypted", arrived) => Distinct(encrypted', "queueDecrypted", arrived))
  <1>1. encrypted \in Seq(EncryptedJobs(Envelopes))
    BY DEF DataType, QueueType
  <1>2. e \in Envelopes => Id[e] = e /\ arrived[e] = MessageOf(e)
    BY DEF Id, MessageOf, Envelopes
  <1>3. /\ job # "decrypt" => DecryptJobs' = DecryptJobs
        /\ job = "decrypt" /\ e \in Envelopes => DecryptJobs' = DecryptJobs \cup {e}
    BY <1>1, <1>2, JobAppended DEF DecryptJobs
  <1>4. ASSUME Distinct(encrypted, "decrypt", Id),
               job = "decrypt" => e \in Envelopes /\ e \notin DecryptJobs
        PROVE  Distinct(encrypted', "decrypt", Id)
    BY <1>1, <1>2, <1>4, DistinctAppend DEF DecryptJobs
  <1>5. /\ job # "queueDecrypted" => Queued' = Queued
        /\ job = "queueDecrypted" /\ e \in Envelopes => Queued' = Queued \cup {MessageOf(e)}
    BY <1>1, <1>2, JobAppended DEF Queued
  <1>6. ASSUME Distinct(encrypted, "queueDecrypted", arrived),
               job = "queueDecrypted" => e \in Envelopes /\ MessageOf(e) \notin Queued
        PROVE  Distinct(encrypted', "queueDecrypted", arrived)
    BY <1>1, <1>2, <1>6, DistinctAppend DEF Queued
  <1>7. QED
    BY <1>3, <1>4, <1>5, <1>6

\* The first job of decrypted is taken.
LEMMA PopDecrypted ==
    ASSUME DataType, arrived' = arrived, decrypted # <<>>, decrypted' = Tail(decrypted),
           Distinct(decrypted, "handle", arrived)
    PROVE  /\ Head(decrypted) \in DecryptedJobs(Envelopes)
           /\ Head(decrypted).do # "handle" => Handling' = Handling
           /\ Head(decrypted).do = "handle" => 
                 /\ Head(decrypted).envelope \in Envelopes
                 /\ MessageOf(Head(decrypted).envelope) \in Handling
                 /\ Handling' = Handling \ {MessageOf(Head(decrypted).envelope)}
           /\ Handling' \subseteq Handling
           /\ Head(decrypted).do # "decryptionError" => Errors' = Errors
           /\ Head(decrypted).do = "decryptionError" => 
                 /\ Head(decrypted).envelope \in Envelopes
                 /\ MessageOf(Head(decrypted).envelope) \in Errors
           /\ Errors' \subseteq Errors
           /\ Distinct(decrypted', "handle", arrived)
  <1>1. decrypted \in Seq(DecryptedJobs(Envelopes))
    BY DEF DataType, QueueType
  <1>2. Head(decrypted) \in DecryptedJobs(Envelopes)
    BY <1>1, TailFacts
  <1>3. ASSUME Head(decrypted).do = "handle"
        PROVE  Head(decrypted).envelope \in Envelopes /\ arrived[Head(decrypted).envelope] = MessageOf(Head(decrypted).envelope)
    <2>1. Head(decrypted).envelope \in Envelopes
      BY <1>2, <1>3, HeadTask DEF DecryptedJobs
    <2>2. QED
      BY <2>1 DEF Id, MessageOf, Envelopes
  <1>4. /\ Head(decrypted).do # "handle" => Handling' = Handling
        /\ Handling' \subseteq Handling
        /\ Head(decrypted).do = "handle" => MessageOf(Head(decrypted).envelope) \in Handling
    BY <1>1, <1>3, LabelsTail DEF Handling
  <1>5. /\ Distinct(decrypted', "handle", arrived)
        /\ Head(decrypted).do = "handle" => Handling' = Handling \ {MessageOf(Head(decrypted).envelope)}
    BY <1>1, <1>3, DistinctTail DEF Handling
  <1>6. ASSUME Head(decrypted).do = "decryptionError"
        PROVE  Head(decrypted).envelope \in Envelopes /\ arrived[Head(decrypted).envelope] = MessageOf(Head(decrypted).envelope)
    <2>1. Head(decrypted).envelope \in Envelopes
      BY <1>2, <1>6, HeadTask DEF DecryptedJobs
    <2>2. QED
      BY <2>1 DEF Id, MessageOf, Envelopes
  <1>7. /\ Head(decrypted).do # "decryptionError" => Errors' = Errors
        /\ Errors' \subseteq Errors
        /\ Head(decrypted).do = "decryptionError" => MessageOf(Head(decrypted).envelope) \in Errors
    BY <1>1, <1>6, LabelsTail DEF Errors
  <1>8. QED
    BY <1>2, <1>3, <1>4, <1>5, <1>6, <1>7

\* A job is added to decrypted.
LEMMA PushDecrypted ==
    ASSUME DataType, arrived' = arrived, NEW job, NEW e, Job(job, e) \in DecryptedJobs(Envelopes),
           decrypted' = Append(decrypted, Job(job, e))
    PROVE  /\ job # "handle" => Handling' = Handling
           /\ job = "handle" /\ e \in Envelopes => Handling' = Handling \cup {MessageOf(e)}
           /\ job # "handle" => (Distinct(decrypted, "handle", arrived) => Distinct(decrypted', "handle", arrived))
           /\ job = "handle" /\ e \in Envelopes /\ MessageOf(e) \notin Handling =>
                 (Distinct(decrypted, "handle", arrived) => Distinct(decrypted', "handle", arrived))
           /\ job # "decryptionError" => Errors' = Errors
           /\ job = "decryptionError" /\ e \in Envelopes => Errors' = Errors \cup {MessageOf(e)}
  <1>1. decrypted \in Seq(DecryptedJobs(Envelopes))
    BY DEF DataType, QueueType
  <1>2. e \in Envelopes => Id[e] = e /\ arrived[e] = MessageOf(e)
    BY DEF Id, MessageOf, Envelopes
  <1>3. /\ job # "handle" => Handling' = Handling
        /\ job = "handle" /\ e \in Envelopes => Handling' = Handling \cup {MessageOf(e)}
    BY <1>1, <1>2, JobAppended DEF Handling
  <1>4. ASSUME Distinct(decrypted, "handle", arrived),
               job = "handle" => e \in Envelopes /\ MessageOf(e) \notin Handling
        PROVE  Distinct(decrypted', "handle", arrived)
    BY <1>1, <1>2, <1>4, DistinctAppend DEF Handling
  <1>5. /\ job # "decryptionError" => Errors' = Errors
        /\ job = "decryptionError" /\ e \in Envelopes => Errors' = Errors \cup {MessageOf(e)}
    BY <1>1, <1>2, JobAppended DEF Errors
  <1>6. QED
    BY <1>3, <1>4, <1>5

\* The first job of appQueue is taken.
LEMMA PopApp ==
    ASSUME DataType, arrived' = arrived, appQueue # <<>>, appQueue' = Tail(appQueue),
           Distinct(appQueue, "message", arrived)
    PROVE  /\ Head(appQueue) \in AppJobs(Envelopes)
           /\ Head(appQueue).do # "message" => Dispatched' = Dispatched
           /\ Head(appQueue).do = "message" => 
                 /\ Head(appQueue).envelope \in Envelopes
                 /\ MessageOf(Head(appQueue).envelope) \in Dispatched
                 /\ Dispatched' = Dispatched \ {MessageOf(Head(appQueue).envelope)}
           /\ Dispatched' \subseteq Dispatched
           /\ Head(appQueue).do # "delivery" => Deliveries' = Deliveries
           /\ Head(appQueue).do = "delivery" => 
                 /\ Head(appQueue).envelope \in Envelopes
                 /\ MessageOf(Head(appQueue).envelope) \in Deliveries
           /\ Deliveries' \subseteq Deliveries
           /\ Distinct(appQueue', "message", arrived)
  <1>1. appQueue \in Seq(AppJobs(Envelopes))
    BY DEF DataType, QueueType
  <1>2. Head(appQueue) \in AppJobs(Envelopes)
    BY <1>1, TailFacts
  <1>3. ASSUME Head(appQueue).do = "message"
        PROVE  Head(appQueue).envelope \in Envelopes /\ arrived[Head(appQueue).envelope] = MessageOf(Head(appQueue).envelope)
    <2>1. Head(appQueue).envelope \in Envelopes
      BY <1>2, <1>3, HeadTask DEF AppJobs
    <2>2. QED
      BY <2>1 DEF Id, MessageOf, Envelopes
  <1>4. /\ Head(appQueue).do # "message" => Dispatched' = Dispatched
        /\ Dispatched' \subseteq Dispatched
        /\ Head(appQueue).do = "message" => MessageOf(Head(appQueue).envelope) \in Dispatched
    BY <1>1, <1>3, LabelsTail DEF Dispatched
  <1>5. /\ Distinct(appQueue', "message", arrived)
        /\ Head(appQueue).do = "message" => Dispatched' = Dispatched \ {MessageOf(Head(appQueue).envelope)}
    BY <1>1, <1>3, DistinctTail DEF Dispatched
  <1>6. ASSUME Head(appQueue).do = "delivery"
        PROVE  Head(appQueue).envelope \in Envelopes /\ arrived[Head(appQueue).envelope] = MessageOf(Head(appQueue).envelope)
    <2>1. Head(appQueue).envelope \in Envelopes
      BY <1>2, <1>6, HeadTask DEF AppJobs
    <2>2. QED
      BY <2>1 DEF Id, MessageOf, Envelopes
  <1>7. /\ Head(appQueue).do # "delivery" => Deliveries' = Deliveries
        /\ Deliveries' \subseteq Deliveries
        /\ Head(appQueue).do = "delivery" => MessageOf(Head(appQueue).envelope) \in Deliveries
    BY <1>1, <1>6, LabelsTail DEF Deliveries
  <1>8. QED
    BY <1>2, <1>3, <1>4, <1>5, <1>6, <1>7

\* A job is added to appQueue.
LEMMA PushApp ==
    ASSUME DataType, arrived' = arrived, NEW job, NEW e, Job(job, e) \in AppJobs(Envelopes),
           appQueue' = Append(appQueue, Job(job, e))
    PROVE  /\ job # "message" => Dispatched' = Dispatched
           /\ job = "message" /\ e \in Envelopes => Dispatched' = Dispatched \cup {MessageOf(e)}
           /\ job # "message" => (Distinct(appQueue, "message", arrived) => Distinct(appQueue', "message", arrived))
           /\ job = "message" /\ e \in Envelopes /\ MessageOf(e) \notin Dispatched =>
                 (Distinct(appQueue, "message", arrived) => Distinct(appQueue', "message", arrived))
           /\ job # "delivery" => Deliveries' = Deliveries
           /\ job = "delivery" /\ e \in Envelopes => Deliveries' = Deliveries \cup {MessageOf(e)}
  <1>1. appQueue \in Seq(AppJobs(Envelopes))
    BY DEF DataType, QueueType
  <1>2. e \in Envelopes => Id[e] = e /\ arrived[e] = MessageOf(e)
    BY DEF Id, MessageOf, Envelopes
  <1>3. /\ job # "message" => Dispatched' = Dispatched
        /\ job = "message" /\ e \in Envelopes => Dispatched' = Dispatched \cup {MessageOf(e)}
    BY <1>1, <1>2, JobAppended DEF Dispatched
  <1>4. ASSUME Distinct(appQueue, "message", arrived),
               job = "message" => e \in Envelopes /\ MessageOf(e) \notin Dispatched
        PROVE  Distinct(appQueue', "message", arrived)
    BY <1>1, <1>2, <1>4, DistinctAppend DEF Dispatched
  <1>5. /\ job # "delivery" => Deliveries' = Deliveries
        /\ job = "delivery" /\ e \in Envelopes => Deliveries' = Deliveries \cup {MessageOf(e)}
    BY <1>1, <1>2, JobAppended DEF Deliveries
  <1>6. QED
    BY <1>3, <1>4, <1>5

\* The queue of a conversation takes its first envelope.
LEMMA PopJob ==
    ASSUME DataType, JobsOnce, arrived' = arrived, NEW c \in Conversations,
           jobQueue[c] # <<>>, jobQueue' = [jobQueue EXCEPT ![c] = Tail(@)]
    PROVE  /\ MessageOf(Head(jobQueue[c])) \in InJobs
           /\ MessageOf(Head(jobQueue[c])) \in JobMessages(jobQueue[c])
           /\ InJobs' = InJobs \ {MessageOf(Head(jobQueue[c]))}
           /\ JobsOnce'
  <1> DEFINE q == jobQueue[c]
             m == MessageOf(Head(q))
  <1>1. q \in Seq(Envelopes) /\ jobQueue \in [Conversations -> Seq(Envelopes)]
    BY FirstOfConversation DEF DataType, AppType
  <1>2. /\ Head(q) = q[1] /\ 1 \in DOMAIN q
        /\ \A i \in DOMAIN Tail(q) : i + 1 \in DOMAIN q /\ Tail(q)[i] = q[i + 1] /\ i + 1 # 1
        /\ \A i \in DOMAIN q :
              i = 1 \/ (i - 1 \in DOMAIN Tail(q) /\ Tail(q)[i - 1] = q[i])
    <2> HIDE DEF q
    <2>1. QED
      BY <1>1, TailFacts DEF q
  <1>3. \A i, j \in DOMAIN q : MessageOf(q[i]) = MessageOf(q[j]) => i = j
    BY DEF JobsOnce
  <1>4. /\ jobQueue'[c] = Tail(q)
        /\ \A d \in Conversations : d # c => jobQueue'[d] = jobQueue[d]
    BY <1>1
  <1>5. \A x : MessageOf(x)' = MessageOf(x)
    BY DEF MessageOf
  <1>6. m \in JobMessages(q) /\ JobMessages(Tail(q)) = JobMessages(q) \ {m}
    <2> HIDE DEF q
    <2>1. m \in JobMessages(q)
      BY <1>2 DEF JobMessages
    <2>2. ASSUME NEW x \in JobMessages(Tail(q)) PROVE x \in JobMessages(q) \ {m}
      <3>1. PICK i \in DOMAIN Tail(q) : MessageOf(Tail(q)[i]) = x
        BY <2>2 DEF JobMessages
      <3>2. i + 1 \in DOMAIN q /\ MessageOf(q[i + 1]) = x /\ i + 1 # 1
        BY <1>2, <3>1
      <3>3. QED
        BY <1>2, <1>3, <3>2 DEF JobMessages
    <2>3. ASSUME NEW x \in JobMessages(q), x # m PROVE x \in JobMessages(Tail(q))
      <3>1. PICK i \in DOMAIN q : MessageOf(q[i]) = x
        BY <2>3 DEF JobMessages
      <3>2. i - 1 \in DOMAIN Tail(q) /\ Tail(q)[i - 1] = q[i]
        BY <1>2, <2>3, <3>1
      <3>3. QED
        BY <3>1, <3>2 DEF JobMessages
    <2>4. QED
      BY <2>1, <2>2, <2>3
  <1>7. \A d \in Conversations : d # c => m \notin JobMessages(jobQueue[d])
    BY <1>6 DEF JobsOnce
  <1> DEFINE J(d) == JobMessages(jobQueue'[d])
  <1>8. /\ J(c) = JobMessages(q) \ {m}
        /\ \A d \in Conversations : d # c => J(d) = JobMessages(jobQueue[d])
    BY <1>4, <1>6
  <1>9. InJobs' = UNION {J(d) : d \in Conversations}
    BY <1>5 DEF InJobs, JobMessages
  <1> HIDE DEF J, m
  <1>10. InJobs' = InJobs \ {m}
    BY <1>7, <1>8, <1>9 DEF InJobs
  <1>11. JobsOnce'
    <2>1. \A d \in Conversations : \A x \in J(d) : ConversationOf[x] = d
      BY <1>8 DEF JobsOnce
    <2>2. \A i, j \in DOMAIN Tail(q) : MessageOf(Tail(q)[i]) = MessageOf(Tail(q)[j]) => i = j
      <3>1. ASSUME NEW i \in DOMAIN Tail(q), NEW j \in DOMAIN Tail(q),
                   MessageOf(Tail(q)[i]) = MessageOf(Tail(q)[j])
            PROVE  i = j
        <4>1. i + 1 = j + 1
          BY <1>2, <1>3, <3>1
        <4>2. i \in Nat /\ j \in Nat
          BY <1>1, TailFacts
        <4>3. QED
          BY <4>1, <4>2
      <3>2. QED
        BY <3>1
    <2>3. \A d \in Conversations : \A i, j \in DOMAIN jobQueue'[d] :
             MessageOf(jobQueue'[d][i]) = MessageOf(jobQueue'[d][j]) => i = j
      BY <1>4, <2>2 DEF JobsOnce
    <2>4. QED
      BY <1>5, <2>1, <2>3 DEF JobsOnce, JobMessages, J
  <1>12. QED
    BY <1>6, <1>10, <1>11 DEF InJobs, m

\* It gets another.
LEMMA PushJob ==
    ASSUME DataType, JobsOnce, arrived' = arrived, NEW e \in Envelopes,
           MessageOf(e) \notin InJobs,
           jobQueue' = [jobQueue EXCEPT ![ConversationOf[MessageOf(e)]] = Append(@, e)]
    PROVE  /\ InJobs' = InJobs \cup {MessageOf(e)}
           /\ JobsOnce'
  <1> DEFINE m == MessageOf(e)
             c == ConversationOf[m]
             q == jobQueue[c]
             n == Len(q) + 1
  <1>1. m \in Messages /\ c \in Conversations
    BY DEF MessageOf, Envelopes, DataType, ServerType, Conversations
  <1>2. q \in Seq(Envelopes) /\ jobQueue \in [Conversations -> Seq(Envelopes)]
    BY <1>1 DEF DataType, AppType
  <1> HIDE DEF q, c
  <1>3. /\ DOMAIN Append(q, e) = DOMAIN q \cup {n} /\ Append(q, e)[n] = e
        /\ n \notin DOMAIN q /\ \A i \in DOMAIN q : Append(q, e)[i] = q[i]
    BY <1>2, AppendFacts
  <1>4. /\ jobQueue'[c] = Append(q, e)
        /\ \A d \in Conversations : d # c => jobQueue'[d] = jobQueue[d]
    BY <1>1, <1>2 DEF q, c
  <1>5. \A x : MessageOf(x)' = MessageOf(x)
    BY DEF MessageOf
  <1> DEFINE a == Append(q, e)
  <1> HIDE DEF n, a
  <1>6. /\ DOMAIN a = DOMAIN q \cup {n} /\ a[n] = e
        /\ n \notin DOMAIN q /\ \A i \in DOMAIN q : a[i] = q[i]
    BY <1>3 DEF a
  <1>7. JobMessages(a) = JobMessages(q) \cup {m}
    BY <1>6 DEF JobMessages
  <1>8. m \notin JobMessages(q)
    BY <1>1 DEF InJobs, q
  <1> DEFINE J(d) == JobMessages(jobQueue'[d])
  <1>9. /\ J(c) = JobMessages(q) \cup {m}
        /\ \A d \in Conversations : d # c => J(d) = JobMessages(jobQueue[d])
    BY <1>4, <1>7 DEF a
  <1>10. InJobs' = UNION {J(d) : d \in Conversations}
    BY <1>5 DEF InJobs, JobMessages
  <1> HIDE DEF J, m
  <1>11. InJobs' = InJobs \cup {m}
    BY <1>1, <1>9, <1>10 DEF InJobs, q
  <1>12. JobsOnce'
    <2>1. \A d \in Conversations : \A x \in J(d) : ConversationOf[x] = d
      BY <1>9 DEF JobsOnce, q, c
    <2>2. \A i, j \in DOMAIN a : MessageOf(a[i]) = MessageOf(a[j]) => i = j
      <3>1. \A i \in DOMAIN q : MessageOf(q[i]) # m
        BY <1>8 DEF JobMessages
      <3>2. \A i, j \in DOMAIN q : MessageOf(q[i]) = MessageOf(q[j]) => i = j
        BY <1>1 DEF JobsOnce, q
      <3>3. QED
        BY <1>6, <3>1, <3>2 DEF m
    <2>3. \A d \in Conversations : \A i, j \in DOMAIN jobQueue'[d] :
             MessageOf(jobQueue'[d][i]) = MessageOf(jobQueue'[d][j]) => i = j
      <3>1. jobQueue'[c] = a
        BY <1>4 DEF a
      <3>2. ASSUME NEW d \in Conversations, d # c
            PROVE  \A i, j \in DOMAIN jobQueue'[d] :
                      MessageOf(jobQueue'[d][i]) = MessageOf(jobQueue'[d][j]) => i = j
        BY <1>4, <3>2 DEF JobsOnce
      <3>3. QED
        BY <2>2, <3>1, <3>2
    <2>4. QED
      BY <1>5, <2>1, <2>3 DEF JobsOnce, JobMessages, J
  <1>13. QED
    BY <1>11, <1>12 DEF m

-----------------------------------------------------------------------------
(* Actions that leave every envelope where it is *)

LEMMA PlainMoves ==
    ASSUME IInv, ReadFirst', ItemsOnce', PlaintextsOnce', PlaintextsApart', RemovedIsDone',
           UNCHANGED <<arrived, batchVars, rows, advanced, gaveUp, onServer>>,
           UNCHANGED <<Incoming, Adding, Waiting, DecryptJobs>>,
           Errors' \subseteq Errors, Deliveries' \subseteq Deliveries,
           Range(saved) \subseteq Range(saved')
    PROVE  IInv'
  <1>1. UNCHANGED <<batch, batchPhase>>
    BY DEF batchVars
  <1>2. DecryptedRows' = DecryptedRows /\ Stored' = Stored /\ Plaintexts' = Plaintexts
    BY <1>1, SameViews
  <1>3. Pending' = Pending
    BY DEF Pending
  <1>4. ItemsApart'
    BY StayApart DEF IInv
  <1>5. PendingNotDone'
    BY <1>1, <1>2, <1>3, StayPending DEF IInv
  <1>6. KeysInv'
    BY StayKeys DEF IInv
  <1>7. RowsInv'
    BY <1>2, StayRows DEF IInv
  <1>8. KindsInv'
    BY StayKinds DEF IInv
  <1>9. ConsumedIsDurable'
    BY <1>2, StayConsumed DEF IInv
  <1>10. AnsweredIsKept'
    BY <1>2, StayAnswered DEF IInv
  <1>11. QED
    BY <1>4, <1>5, <1>6, <1>7, <1>8, <1>9, <1>10 DEF IInv

LEMMA Calm ==
    ASSUME IInv, ReadFirst', ItemsOnce', PlaintextsOnce', RemovedIsDone',
           UNCHANGED <<arrived, batchVars, rows, advanced, gaveUp, onServer, appVars>>,
           UNCHANGED <<Incoming, Adding, Waiting, DecryptJobs>>,
           UNCHANGED <<Queued, Handling, Dispatched>>,
           Errors' \subseteq Errors, Deliveries' \subseteq Deliveries,
           Range(saved) \subseteq Range(saved')
    PROVE  IInv'
  <1>1. Plaintexts' = Plaintexts
    BY SameViews DEF batchVars
  <1>2. PlaintextsApart'
    BY <1>1, StayPlaintexts DEF IInv
  <1>3. QED
    BY <1>2, PlainMoves

\* Nothing moves and nothing is removed.
LEMMA StillRemoved ==
    ASSUME IInv, UNCHANGED <<arrived, batchVars, rows, advanced>>,
           UNCHANGED <<Incoming, Adding, Waiting, DecryptJobs>>,
           removeBatch' \subseteq removeBatch, Range(saved) \subseteq Range(saved')
    PROVE  RemovedIsDone'
  <1>1. Pending' = Pending
    BY DEF Pending
  <1>2. Plain' = Plain /\ DecryptedRows' = DecryptedRows /\ Consumed' = Consumed
    BY SameViews DEF batchVars
  <1>3. QED
    BY <1>1, <1>2, StayRemoved DEF IInv

\* One more is done with.
LEMMA OneRemoved ==
    ASSUME IInv, UNCHANGED <<arrived, batchVars, rows, advanced>>,
           UNCHANGED <<Incoming, Adding, Waiting, DecryptJobs>>,
           NEW e, Done(e)', removeBatch' \subseteq removeBatch \cup {e},
           Range(saved) \subseteq Range(saved')
    PROVE  RemovedIsDone'
  <1>1. Pending' = Pending
    BY DEF Pending
  <1>2. Plain' = Plain /\ DecryptedRows' = DecryptedRows /\ Consumed' = Consumed
    BY SameViews DEF batchVars
  <1>3. ASSUME NEW x \in removeBatch' PROVE Done(x)'
    <2>1. CASE x \in removeBatch
      <3>1. Done(x)
        BY <2>1 DEF IInv, RemovedIsDone
      <3>2. QED
        BY <1>1, <1>2, <3>1, StayDone
    <2>2. CASE x = e
      BY <2>2
    <2>3. QED
      BY <1>3, <2>1, <2>2
  <1>4. QED
    BY <1>3 DEF RemovedIsDone

LEMMA InvDeliverEmpty ==
    ASSUME DataType, IInv, DeliverEmpty
    PROVE  IInv'
  <1>1. UNCHANGED <<addBatch, zoneQueue, encrypted, decrypted, appQueue, arrived, batchVars, rows, advanced, gaveUp, onServer, appVars>>
        /\ batch' = batch
    BY DEF DeliverEmpty, serverVars, queueVars, batchVars, appVars, flagVars, dbVars, historyVars
  <1>2. incoming' = Append(incoming, Job("onEmpty", 0)) /\ Job("onEmpty", 0) \in IncomingJobs(Envelopes)
    BY NewTask DEF DeliverEmpty, IncomingJobs
  <1>3. /\ Incoming' = Incoming
        /\ Distinct(incoming', "decryptAndCache", Id)
    BY <1>1, <1>2, PushIncoming DEF IInv, ItemsOnce, PlaintextsOnce
  <1>4. /\ UNCHANGED <<Incoming, Adding, Waiting, DecryptJobs>>
        /\ UNCHANGED <<Queued, Handling, Dispatched>>
        /\ Errors' \subseteq Errors /\ Deliveries' \subseteq Deliveries
    BY <1>1, <1>3, SameViews
  <1>5. ItemsOnce' /\ PlaintextsOnce'
    BY <1>1, <1>3, SameViews DEF IInv, ItemsOnce, PlaintextsOnce, MessageOf
  <1>6. ReadFirst'
    <2>1. Idle => Idle'
      BY <1>1, SameViews DEF DeliverEmpty, Idle, serverVars, queueVars, batchVars, appVars, flagVars, dbVars, historyVars
    <2>2. incoming \in Seq(IncomingJobs(Envelopes))
      BY DEF DataType, QueueType
    <2>3. QED
      BY <1>2, <2>1, <2>2, JobJoins DEF IInv
  <1>7. removeBatch' \subseteq removeBatch /\ Range(saved') = Range(saved)
    BY DEF DeliverEmpty, serverVars, queueVars, batchVars, appVars, flagVars, dbVars, historyVars
  <1>8. RemovedIsDone'
    BY <1>1, <1>4, <1>7, StillRemoved
  <1>9. QED
    BY <1>1, <1>4, <1>5, <1>6, <1>7, <1>8, Calm

LEMMA InvStopProcessing ==
    ASSUME DataType, IInv, StopProcessing
    PROVE  IInv'
  <1>1. UNCHANGED <<incoming, addBatch, zoneQueue, encrypted, decrypted, appQueue, arrived, batchVars, rows, advanced, gaveUp, onServer, appVars>>
        /\ batch' = batch
    BY DEF StopProcessing, serverVars, queueVars, batchVars, appVars, flagVars, dbVars, historyVars
  <1>2. /\ UNCHANGED <<Incoming, Adding, Waiting, DecryptJobs>>
        /\ UNCHANGED <<Queued, Handling, Dispatched>>
        /\ Errors' \subseteq Errors /\ Deliveries' \subseteq Deliveries
    BY <1>1, SameViews
  <1>3. ItemsOnce' /\ PlaintextsOnce'
    BY <1>1, SameViews DEF IInv, ItemsOnce, PlaintextsOnce, MessageOf
  <1>4. ReadFirst'
    <2>1. Idle => Idle'
      BY <1>1, SameViews DEF StopProcessing, Idle, serverVars, queueVars, batchVars, appVars, flagVars, dbVars, historyVars
    <2>2. QED
      BY <1>1, <2>1, NotIdle DEF IInv
  <1>5. removeBatch' \subseteq removeBatch /\ Range(saved') = Range(saved)
    BY DEF StopProcessing, serverVars, queueVars, batchVars, appVars, flagVars, dbVars, historyVars
  <1>6. RemovedIsDone'
    BY <1>1, <1>2, <1>5, StillRemoved
  <1>7. QED
    BY <1>1, <1>2, <1>3, <1>4, <1>5, <1>6, Calm

LEMMA InvOnEmpty ==
    ASSUME DataType, IInv, OnEmpty
    PROVE  IInv'
  <1>1. UNCHANGED <<addBatch, zoneQueue, encrypted, decrypted, appQueue, arrived, batchVars, rows, advanced, gaveUp, onServer, appVars>>
        /\ batch' = batch
    BY DEF OnEmpty, serverVars, queueVars, batchVars, appVars, flagVars, dbVars, historyVars
  <1>2. incoming # <<>> /\ incoming' = Tail(incoming) /\ Head(incoming).do = "onEmpty"
    BY DEF OnEmpty, Next1
  <1>3. /\ Incoming' = Incoming
        /\ Distinct(incoming', "decryptAndCache", Id)
    BY <1>1, <1>2, PopIncoming DEF IInv, ItemsOnce, PlaintextsOnce
  <1>4. /\ UNCHANGED <<Incoming, Adding, Waiting, DecryptJobs>>
        /\ UNCHANGED <<Queued, Handling, Dispatched>>
        /\ Errors' \subseteq Errors /\ Deliveries' \subseteq Deliveries
    BY <1>1, <1>3, SameViews
  <1>5. ItemsOnce' /\ PlaintextsOnce'
    BY <1>1, <1>3, SameViews DEF IInv, ItemsOnce, PlaintextsOnce, MessageOf
  <1>6. ReadFirst'
    BY <1>2, FirstRuns DEF IInv
  <1>7. removeBatch' \subseteq removeBatch /\ Range(saved') = Range(saved)
    BY DEF OnEmpty, serverVars, queueVars, batchVars, appVars, flagVars, dbVars, historyVars
  <1>8. RemovedIsDone'
    BY <1>1, <1>4, <1>7, StillRemoved
  <1>9. QED
    BY <1>1, <1>4, <1>5, <1>6, <1>7, <1>8, Calm

LEMMA InvBatcherIdle ==
    ASSUME DataType, IInv, BatcherIdle
    PROVE  IInv'
  <1>1. UNCHANGED <<addBatch, zoneQueue, encrypted, decrypted, appQueue, arrived, batchVars, rows, advanced, gaveUp, onServer, appVars>>
        /\ batch' = batch
    BY DEF BatcherIdle, serverVars, queueVars, batchVars, appVars, flagVars, dbVars, historyVars
  <1>2. incoming' = Append(incoming, Job("waitForIncoming", 0)) /\ Job("waitForIncoming", 0) \in IncomingJobs(Envelopes)
    BY NewTask DEF BatcherIdle, IncomingJobs
  <1>3. /\ Incoming' = Incoming
        /\ Distinct(incoming', "decryptAndCache", Id)
    BY <1>1, <1>2, PushIncoming DEF IInv, ItemsOnce, PlaintextsOnce
  <1>4. /\ UNCHANGED <<Incoming, Adding, Waiting, DecryptJobs>>
        /\ UNCHANGED <<Queued, Handling, Dispatched>>
        /\ Errors' \subseteq Errors /\ Deliveries' \subseteq Deliveries
    BY <1>1, <1>3, SameViews
  <1>5. ItemsOnce' /\ PlaintextsOnce'
    BY <1>1, <1>3, SameViews DEF IInv, ItemsOnce, PlaintextsOnce, MessageOf
  <1>6. ReadFirst'
    <2>1. Idle => Idle'
      BY <1>1, SameViews DEF BatcherIdle, Idle, serverVars, queueVars, batchVars, appVars, flagVars, dbVars, historyVars
    <2>2. incoming \in Seq(IncomingJobs(Envelopes))
      BY DEF DataType, QueueType
    <2>3. QED
      BY <1>2, <2>1, <2>2, JobJoins DEF IInv
  <1>7. removeBatch' \subseteq removeBatch /\ Range(saved') = Range(saved)
    BY DEF BatcherIdle, serverVars, queueVars, batchVars, appVars, flagVars, dbVars, historyVars
  <1>8. RemovedIsDone'
    BY <1>1, <1>4, <1>7, StillRemoved
  <1>9. QED
    BY <1>1, <1>4, <1>5, <1>6, <1>7, <1>8, Calm

LEMMA InvWaitForIncoming ==
    ASSUME DataType, IInv, WaitForIncoming
    PROVE  IInv'
  <1>1. UNCHANGED <<addBatch, zoneQueue, decrypted, appQueue, arrived, batchVars, rows, advanced, gaveUp, onServer, appVars>>
        /\ batch' = batch
    BY DEF WaitForIncoming, serverVars, queueVars, batchVars, appVars, flagVars, dbVars, historyVars
  <1>2. incoming # <<>> /\ incoming' = Tail(incoming) /\ Head(incoming).do = "waitForIncoming"
    BY DEF WaitForIncoming, Next1
  <1>3. /\ Incoming' = Incoming
        /\ Distinct(incoming', "decryptAndCache", Id)
    BY <1>1, <1>2, PopIncoming DEF IInv, ItemsOnce, PlaintextsOnce
  <1>4. encrypted' = Append(encrypted, Job("waitForEncrypted", 0)) /\ Job("waitForEncrypted", 0) \in EncryptedJobs(Envelopes)
    BY NewTask DEF WaitForIncoming, EncryptedJobs
  <1>5. /\ DecryptJobs' = DecryptJobs /\ Queued' = Queued
        /\ Distinct(encrypted', "decrypt", Id) /\ Distinct(encrypted', "queueDecrypted", arrived)
    BY <1>1, <1>4, PushEncrypted DEF IInv, ItemsOnce, PlaintextsOnce
  <1>6. /\ UNCHANGED <<Incoming, Adding, Waiting, DecryptJobs>>
        /\ UNCHANGED <<Queued, Handling, Dispatched>>
        /\ Errors' \subseteq Errors /\ Deliveries' \subseteq Deliveries
    BY <1>1, <1>3, <1>5, SameViews
  <1>7. ItemsOnce' /\ PlaintextsOnce'
    BY <1>1, <1>3, <1>5, SameViews DEF IInv, ItemsOnce, PlaintextsOnce, MessageOf
  <1>8. ReadFirst'
    BY <1>2, FirstRuns DEF IInv
  <1>9. removeBatch' \subseteq removeBatch /\ Range(saved') = Range(saved)
    BY DEF WaitForIncoming, serverVars, queueVars, batchVars, appVars, flagVars, dbVars, historyVars
  <1>10. RemovedIsDone'
    BY <1>1, <1>6, <1>9, StillRemoved
  <1>11. QED
    BY <1>1, <1>6, <1>7, <1>8, <1>9, <1>10, Calm

LEMMA InvWaitForEncrypted ==
    ASSUME DataType, IInv, WaitForEncrypted
    PROVE  IInv'
  <1>1. UNCHANGED <<incoming, addBatch, zoneQueue, appQueue, arrived, batchVars, rows, advanced, gaveUp, onServer, appVars>>
        /\ batch' = batch
    BY DEF WaitForEncrypted, serverVars, queueVars, batchVars, appVars, flagVars, dbVars, historyVars
  <1>2. encrypted # <<>> /\ encrypted' = Tail(encrypted) /\ Head(encrypted).do = "waitForEncrypted"
    BY DEF WaitForEncrypted, Next1
  <1>3. /\ DecryptJobs' = DecryptJobs /\ Queued' = Queued
        /\ Distinct(encrypted', "decrypt", Id) /\ Distinct(encrypted', "queueDecrypted", arrived)
    BY <1>1, <1>2, PopEncrypted DEF IInv, ItemsOnce, PlaintextsOnce
  <1>4. decrypted' = Append(decrypted, Job("waitForDecrypted", 0)) /\ Job("waitForDecrypted", 0) \in DecryptedJobs(Envelopes)
    BY NewTask DEF WaitForEncrypted, DecryptedJobs
  <1>5. /\ Handling' = Handling /\ Errors' = Errors
        /\ Distinct(decrypted', "handle", arrived)
    BY <1>1, <1>4, PushDecrypted DEF IInv, ItemsOnce, PlaintextsOnce
  <1>6. /\ UNCHANGED <<Incoming, Adding, Waiting, DecryptJobs>>
        /\ UNCHANGED <<Queued, Handling, Dispatched>>
        /\ Errors' \subseteq Errors /\ Deliveries' \subseteq Deliveries
    BY <1>1, <1>3, <1>5, SameViews
  <1>7. ItemsOnce' /\ PlaintextsOnce'
    BY <1>1, <1>3, <1>5, SameViews DEF IInv, ItemsOnce, PlaintextsOnce, MessageOf
  <1>8. ReadFirst'
    <2>1. Idle => Idle'
      BY <1>1, <1>2 DEF WaitForEncrypted, Idle, serverVars, queueVars, batchVars, appVars, flagVars, dbVars, historyVars
    <2>2. QED
      BY <1>1, <2>1, NotIdle DEF IInv
  <1>9. removeBatch' \subseteq removeBatch /\ Range(saved') = Range(saved)
    BY DEF WaitForEncrypted, serverVars, queueVars, batchVars, appVars, flagVars, dbVars, historyVars
  <1>10. RemovedIsDone'
    BY <1>1, <1>6, <1>9, StillRemoved
  <1>11. QED
    BY <1>1, <1>6, <1>7, <1>8, <1>9, <1>10, Calm

LEMMA InvBatchHandled ==
    ASSUME DataType, IInv, BatchHandled
    PROVE  IInv'
  <1>1. UNCHANGED <<incoming, addBatch, zoneQueue, encrypted, appQueue, arrived, batchVars, rows, advanced, gaveUp, onServer, appVars>>
        /\ batch' = batch
    BY DEF BatchHandled, serverVars, queueVars, batchVars, appVars, flagVars, dbVars, historyVars
  <1>2. decrypted # <<>> /\ decrypted' = Tail(decrypted) /\ Head(decrypted).do = "batchHandled"
    BY DEF BatchHandled, Next1
  <1>3. /\ Handling' = Handling /\ Errors' \subseteq Errors
        /\ Distinct(decrypted', "handle", arrived)
    BY <1>1, <1>2, PopDecrypted DEF IInv, ItemsOnce, PlaintextsOnce
  <1>4. /\ UNCHANGED <<Incoming, Adding, Waiting, DecryptJobs>>
        /\ UNCHANGED <<Queued, Handling, Dispatched>>
        /\ Errors' \subseteq Errors /\ Deliveries' \subseteq Deliveries
    BY <1>1, <1>3, SameViews
  <1>5. ItemsOnce' /\ PlaintextsOnce'
    BY <1>1, <1>3, SameViews DEF IInv, ItemsOnce, PlaintextsOnce, MessageOf
  <1>6. ReadFirst'
    <2>1. Idle => Idle'
      BY <1>1, <1>2 DEF BatchHandled, Idle, serverVars, queueVars, batchVars, appVars, flagVars, dbVars, historyVars
    <2>2. QED
      BY <1>1, <2>1, NotIdle DEF IInv
  <1>7. removeBatch' \subseteq removeBatch /\ Range(saved') = Range(saved)
    BY DEF BatchHandled, serverVars, queueVars, batchVars, appVars, flagVars, dbVars, historyVars
  <1>8. RemovedIsDone'
    BY <1>1, <1>4, <1>7, StillRemoved
  <1>9. QED
    BY <1>1, <1>4, <1>5, <1>6, <1>7, <1>8, Calm

LEMMA InvWaitForDecrypted ==
    ASSUME DataType, IInv, WaitForDecrypted
    PROVE  IInv'
  <1>1. UNCHANGED <<incoming, addBatch, zoneQueue, encrypted, arrived, batchVars, rows, advanced, gaveUp, onServer, appVars>>
        /\ batch' = batch
    BY DEF WaitForDecrypted, serverVars, queueVars, batchVars, appVars, flagVars, dbVars, historyVars
  <1>2. decrypted # <<>> /\ decrypted' = Tail(decrypted) /\ Head(decrypted).do = "waitForDecrypted"
    BY DEF WaitForDecrypted, Next1
  <1>3. /\ Handling' = Handling /\ Errors' \subseteq Errors
        /\ Distinct(decrypted', "handle", arrived)
    BY <1>1, <1>2, PopDecrypted DEF IInv, ItemsOnce, PlaintextsOnce
  <1>4. appQueue' = Append(appQueue, Job("emitEmpty", 0)) /\ Job("emitEmpty", 0) \in AppJobs(Envelopes)
    BY NewTask DEF WaitForDecrypted, AppJobs
  <1>5. /\ Dispatched' = Dispatched /\ Deliveries' = Deliveries
        /\ Distinct(appQueue', "message", arrived)
    BY <1>1, <1>4, PushApp DEF IInv, ItemsOnce, PlaintextsOnce
  <1>6. /\ UNCHANGED <<Incoming, Adding, Waiting, DecryptJobs>>
        /\ UNCHANGED <<Queued, Handling, Dispatched>>
        /\ Errors' \subseteq Errors /\ Deliveries' \subseteq Deliveries
    BY <1>1, <1>3, <1>5, SameViews
  <1>7. ItemsOnce' /\ PlaintextsOnce'
    BY <1>1, <1>3, <1>5, SameViews DEF IInv, ItemsOnce, PlaintextsOnce, MessageOf
  <1>8. ReadFirst'
    <2>1. Idle => Idle'
      BY <1>1, <1>2 DEF WaitForDecrypted, Idle, serverVars, queueVars, batchVars, appVars, flagVars, dbVars, historyVars
    <2>2. QED
      BY <1>1, <2>1, NotIdle DEF IInv
  <1>9. removeBatch' \subseteq removeBatch /\ Range(saved') = Range(saved)
    BY DEF WaitForDecrypted, serverVars, queueVars, batchVars, appVars, flagVars, dbVars, historyVars
  <1>10. RemovedIsDone'
    BY <1>1, <1>6, <1>9, StillRemoved
  <1>11. QED
    BY <1>1, <1>6, <1>7, <1>8, <1>9, <1>10, Calm

LEMMA InvEmitEmpty ==
    ASSUME DataType, IInv, EmitEmpty
    PROVE  IInv'
  <1>1. UNCHANGED <<incoming, addBatch, zoneQueue, encrypted, decrypted, arrived, batchVars, rows, advanced, gaveUp, onServer, appVars>>
        /\ batch' = batch
    BY DEF EmitEmpty, serverVars, queueVars, batchVars, appVars, flagVars, dbVars, historyVars
  <1>2. appQueue # <<>> /\ appQueue' = Tail(appQueue) /\ Head(appQueue).do = "emitEmpty"
    BY DEF EmitEmpty, Next1
  <1>3. /\ Dispatched' = Dispatched /\ Deliveries' \subseteq Deliveries
        /\ Distinct(appQueue', "message", arrived)
    BY <1>1, <1>2, PopApp DEF IInv, ItemsOnce, PlaintextsOnce
  <1>4. /\ UNCHANGED <<Incoming, Adding, Waiting, DecryptJobs>>
        /\ UNCHANGED <<Queued, Handling, Dispatched>>
        /\ Errors' \subseteq Errors /\ Deliveries' \subseteq Deliveries
    BY <1>1, <1>3, SameViews
  <1>5. ItemsOnce' /\ PlaintextsOnce'
    BY <1>1, <1>3, SameViews DEF IInv, ItemsOnce, PlaintextsOnce, MessageOf
  <1>6. ReadFirst'
    <2>1. Idle => Idle'
      BY <1>1, <1>2 DEF EmitEmpty, Idle, serverVars, queueVars, batchVars, appVars, flagVars, dbVars, historyVars
    <2>2. QED
      BY <1>1, <2>1, NotIdle DEF IInv
  <1>7. removeBatch' \subseteq removeBatch /\ Range(saved') = Range(saved)
    BY DEF EmitEmpty, serverVars, queueVars, batchVars, appVars, flagVars, dbVars, historyVars
  <1>8. RemovedIsDone'
    BY <1>1, <1>4, <1>7, StillRemoved
  <1>9. QED
    BY <1>1, <1>4, <1>5, <1>6, <1>7, <1>8, Calm

LEMMA InvCacheRemoveRejected ==
    ASSUME DataType, IInv, CacheRemoveRejected
    PROVE  IInv'
  <1>1. UNCHANGED <<incoming, addBatch, zoneQueue, encrypted, decrypted, appQueue, arrived, batchVars, rows, advanced, gaveUp, onServer, appVars>>
        /\ batch' = batch
    BY DEF CacheRemoveRejected, serverVars, queueVars, batchVars, appVars, flagVars, dbVars, historyVars
  <1>2. /\ UNCHANGED <<Incoming, Adding, Waiting, DecryptJobs>>
        /\ UNCHANGED <<Queued, Handling, Dispatched>>
        /\ Errors' \subseteq Errors /\ Deliveries' \subseteq Deliveries
    BY <1>1, SameViews
  <1>3. ItemsOnce' /\ PlaintextsOnce'
    BY <1>1, SameViews DEF IInv, ItemsOnce, PlaintextsOnce, MessageOf
  <1>4. ReadFirst'
    <2>1. Idle => Idle'
      BY <1>1 DEF CacheRemoveRejected, Idle, serverVars, queueVars, batchVars, appVars, flagVars, dbVars, historyVars
    <2>2. QED
      BY <1>1, <2>1, NotIdle DEF IInv
  <1>5. removeBatch' \subseteq removeBatch /\ Range(saved') = Range(saved)
    BY DEF CacheRemoveRejected, serverVars, queueVars, batchVars, appVars, flagVars, dbVars, historyVars
  <1>6. RemovedIsDone'
    BY <1>1, <1>2, <1>5, StillRemoved
  <1>7. QED
    BY <1>1, <1>2, <1>3, <1>4, <1>5, <1>6, Calm

LEMMA InvDecryptionError ==
    ASSUME DataType, IInv, DecryptionError
    PROVE  IInv'
  <1>1. UNCHANGED <<incoming, addBatch, zoneQueue, encrypted, appQueue, arrived, batchVars, rows, advanced, gaveUp, onServer, appVars>>
        /\ batch' = batch
    BY DEF DecryptionError, serverVars, queueVars, batchVars, appVars, flagVars, dbVars, historyVars
  <1>2. decrypted # <<>> /\ decrypted' = Tail(decrypted) /\ Head(decrypted).do = "decryptionError"
    BY DEF DecryptionError, Next1
  <1>3. /\ Handling' = Handling /\ Errors' \subseteq Errors
        /\ Distinct(decrypted', "handle", arrived)
    BY <1>1, <1>2, PopDecrypted DEF IInv, ItemsOnce, PlaintextsOnce
  <1>4. /\ UNCHANGED <<Incoming, Adding, Waiting, DecryptJobs>>
        /\ UNCHANGED <<Queued, Handling, Dispatched>>
        /\ Errors' \subseteq Errors /\ Deliveries' \subseteq Deliveries
    BY <1>1, <1>3, SameViews
  <1>5. ItemsOnce' /\ PlaintextsOnce'
    BY <1>1, <1>3, SameViews DEF IInv, ItemsOnce, PlaintextsOnce, MessageOf
  <1>6. ReadFirst'
    <2>1. Idle => Idle'
      BY <1>1, <1>2 DEF DecryptionError, Idle, serverVars, queueVars, batchVars, appVars, flagVars, dbVars, historyVars
    <2>2. QED
      BY <1>1, <2>1, NotIdle DEF IInv
  <1>7. removeBatch' = removeBatch \cup {Head(decrypted).envelope} /\ saved' = saved
    BY DEF DecryptionError, serverVars, queueVars, batchVars, appVars, flagVars, dbVars, historyVars
  <1>8. PICK e \in Envelopes : e = Head(decrypted).envelope /\ MessageOf(e) \in Errors
    BY <1>1, <1>2, PopDecrypted DEF IInv, PlaintextsOnce
  <1>9. Done(e)'
    <2>1. Kind[MessageOf(e)] = "broken"
      BY <1>8 DEF IInv, KindsInv
    <2>2. QED
      BY <1>1, <2>1 DEF Done, MessageOf
  <1>10. RemovedIsDone'
    BY <1>1, <1>4, <1>7, <1>8, <1>9, OneRemoved
  <1>11. QED
    BY <1>1, <1>4, <1>5, <1>6, <1>7, <1>10, Calm

LEMMA InvDelivery ==
    ASSUME DataType, IInv, Delivery
    PROVE  IInv'
  <1>1. UNCHANGED <<incoming, addBatch, zoneQueue, encrypted, decrypted, arrived, batchVars, rows, advanced, gaveUp, onServer, appVars>>
        /\ batch' = batch
    BY DEF Delivery, serverVars, queueVars, batchVars, appVars, flagVars, dbVars, historyVars
  <1>2. appQueue # <<>> /\ appQueue' = Tail(appQueue) /\ Head(appQueue).do = "delivery"
    BY DEF Delivery, Next1
  <1>3. /\ Dispatched' = Dispatched /\ Deliveries' \subseteq Deliveries
        /\ Distinct(appQueue', "message", arrived)
    BY <1>1, <1>2, PopApp DEF IInv, ItemsOnce, PlaintextsOnce
  <1>4. /\ UNCHANGED <<Incoming, Adding, Waiting, DecryptJobs>>
        /\ UNCHANGED <<Queued, Handling, Dispatched>>
        /\ Errors' \subseteq Errors /\ Deliveries' \subseteq Deliveries
    BY <1>1, <1>3, SameViews
  <1>5. ItemsOnce' /\ PlaintextsOnce'
    BY <1>1, <1>3, SameViews DEF IInv, ItemsOnce, PlaintextsOnce, MessageOf
  <1>6. ReadFirst'
    <2>1. Idle => Idle'
      BY <1>1, <1>2 DEF Delivery, Idle, serverVars, queueVars, batchVars, appVars, flagVars, dbVars, historyVars
    <2>2. QED
      BY <1>1, <2>1, NotIdle DEF IInv
  <1>7. removeBatch' = removeBatch \cup {Head(appQueue).envelope} /\ saved' = saved
    BY DEF Delivery, serverVars, queueVars, batchVars, appVars, flagVars, dbVars, historyVars
  <1>8. PICK e \in Envelopes : e = Head(appQueue).envelope /\ MessageOf(e) \in Deliveries
    BY <1>1, <1>2, PopApp DEF IInv, PlaintextsOnce
  <1>9. Done(e)'
    <2>1. Kind[MessageOf(e)] = "receipt"
      BY <1>8 DEF IInv, KindsInv
    <2>2. QED
      BY <1>1, <2>1 DEF Done, MessageOf
  <1>10. RemovedIsDone'
    BY <1>1, <1>4, <1>7, <1>8, <1>9, OneRemoved
  <1>11. QED
    BY <1>1, <1>4, <1>5, <1>6, <1>7, <1>10, Calm
-----------------------------------------------------------------------------
(* Actions that move a plaintext *)

LEMMA InvQueueDecrypted ==
    ASSUME DataType, IInv, QueueDecrypted
    PROVE  IInv'
  <1>1. UNCHANGED <<incoming, addBatch, zoneQueue, appQueue, arrived, batchVars, rows,
                    advanced, gaveUp, onServer, appVars, saved, removeBatch>>
        /\ batch' = batch
    BY DEF QueueDecrypted, serverVars, batchVars, appVars, dbVars, historyVars
  <1>2. encrypted # <<>> /\ encrypted' = Tail(encrypted) /\ Head(encrypted).do = "queueDecrypted"
    BY DEF QueueDecrypted, Next1
  <1>3. PICK e \in Envelopes :
           /\ e = Head(encrypted).envelope
           /\ MessageOf(e) \in Queued /\ Queued' = Queued \ {MessageOf(e)}
           /\ DecryptJobs' = DecryptJobs
           /\ Distinct(encrypted', "decrypt", Id) /\ Distinct(encrypted', "queueDecrypted", arrived)
    BY <1>1, <1>2, PopEncrypted DEF IInv, ItemsOnce, PlaintextsOnce
  <1>4. decrypted' = Append(decrypted, Job("handle", e))
        /\ Job("handle", e) \in DecryptedJobs(Envelopes)
    BY <1>3, NewTask DEF QueueDecrypted, DecryptedJobs
  <1>5. MessageOf(e) \notin Handling
    BY <1>3 DEF IInv, PlaintextsApart
  <1>6. /\ Handling' = Handling \cup {MessageOf(e)} /\ Errors' = Errors
        /\ Distinct(decrypted', "handle", arrived)
    BY <1>1, <1>4, <1>5, PushDecrypted DEF IInv, PlaintextsOnce
  <1>7. /\ UNCHANGED <<Incoming, Adding, Waiting, DecryptJobs, Dispatched, Plaintexts>>
        /\ Deliveries' = Deliveries
    BY <1>1, <1>3, SameViews
  <1>8. ItemsOnce' /\ PlaintextsOnce'
    BY <1>1, <1>3, <1>6, SameViews DEF IInv, ItemsOnce, PlaintextsOnce, MessageOf
  <1>9. PlaintextsApart'
    <2>1. Given' = Given /\ InJobs' = InJobs /\ inMemory' = inMemory
          /\ (JobsOnce => JobsOnce')
      BY <1>1, SameViews
    <2>2. QED
      BY <1>1, <1>3, <1>6, <1>7, <2>1 DEF IInv, PlaintextsApart
  <1>10. ReadFirst'
    <2>1. ~Idle
      BY <1>2 DEF Idle
    <2>2. QED
      BY <1>1, <2>1, NotIdle DEF IInv
  <1>11. RemovedIsDone'
    BY <1>1, <1>7, StillRemoved
  <1>12. QED
    BY <1>1, <1>6, <1>7, <1>8, <1>9, <1>10, <1>11, PlainMoves

LEMMA InvHandle ==
    ASSUME DataType, IInv, Handle
    PROVE  IInv'
  <1>1. UNCHANGED <<incoming, addBatch, zoneQueue, encrypted, arrived, batchVars, rows,
                    advanced, gaveUp, onServer, appVars, saved, removeBatch>>
        /\ batch' = batch
    BY DEF Handle, serverVars, batchVars, appVars, dbVars, historyVars
  <1>2. decrypted # <<>> /\ decrypted' = Tail(decrypted) /\ Head(decrypted).do = "handle"
    BY DEF Handle, Next1
  <1>3. PICK e \in Envelopes :
           /\ e = Head(decrypted).envelope
           /\ MessageOf(e) \in Handling /\ Handling' = Handling \ {MessageOf(e)}
           /\ Errors' \subseteq Errors
           /\ Distinct(decrypted', "handle", arrived)
    BY <1>1, <1>2, PopDecrypted DEF IInv, PlaintextsOnce
  <1>4. \/ appQueue' = appQueue
        \/ appQueue' = Append(appQueue, Job("message", e))
    BY <1>3 DEF Handle
  <1>5. Job("message", e) \in AppJobs(Envelopes) /\ MessageOf(e) \notin Dispatched
    BY <1>3, NewTask DEF IInv, PlaintextsApart, AppJobs
  <1>6. /\ Dispatched' \subseteq Dispatched \cup {MessageOf(e)} /\ Deliveries' = Deliveries
        /\ Distinct(appQueue', "message", arrived)
    <2>1. CASE appQueue' = appQueue
      BY <1>1, <2>1, SameViews DEF IInv, PlaintextsOnce
    <2>2. CASE appQueue' = Append(appQueue, Job("message", e))
      BY <1>1, <1>5, <2>2, PushApp DEF IInv, PlaintextsOnce
    <2>3. QED
      BY <1>4, <2>1, <2>2
  <1>7. UNCHANGED <<Incoming, Adding, Waiting, DecryptJobs, Queued, Plaintexts>>
    BY <1>1, SameViews
  <1>8. ItemsOnce' /\ PlaintextsOnce'
    BY <1>1, <1>3, <1>6, SameViews DEF IInv, ItemsOnce, PlaintextsOnce, MessageOf
  <1>9. PlaintextsApart'
    <2>1. Given' = Given /\ InJobs' = InJobs /\ inMemory' = inMemory
          /\ (JobsOnce => JobsOnce')
      BY <1>1, SameViews
    <2>2. QED
      BY <1>1, <1>3, <1>6, <1>7, <2>1 DEF IInv, PlaintextsApart
  <1>10. ReadFirst'
    <2>1. ~Idle
      BY <1>2 DEF Idle
    <2>2. QED
      BY <1>1, <2>1, NotIdle DEF IInv
  <1>11. RemovedIsDone'
    BY <1>1, <1>7, StillRemoved
  <1>12. QED
    BY <1>1, <1>3, <1>6, <1>7, <1>8, <1>9, <1>10, <1>11, PlainMoves

LEMMA InvOnMessageReceived ==
    ASSUME DataType, IInv, OnMessageReceived
    PROVE  IInv'
  <1>1. UNCHANGED <<incoming, addBatch, zoneQueue, encrypted, decrypted, arrived, batchVars,
                    rows, advanced, gaveUp, onServer, saved, removeBatch, inMemory,
                    failedHere>>
        /\ batch' = batch
    BY DEF OnMessageReceived, serverVars, batchVars, dbVars, historyVars
  <1>2. appQueue # <<>> /\ appQueue' = Tail(appQueue) /\ Head(appQueue).do = "message"
    BY DEF OnMessageReceived, Next1
  <1>3. PICK e \in Envelopes :
           /\ e = Head(appQueue).envelope
           /\ MessageOf(e) \in Dispatched /\ Dispatched' = Dispatched \ {MessageOf(e)}
           /\ Deliveries' \subseteq Deliveries
           /\ Distinct(appQueue', "message", arrived)
    BY <1>1, <1>2, PopApp DEF IInv, PlaintextsOnce
  <1>4. UNCHANGED <<Incoming, Adding, Waiting, DecryptJobs, Queued, Handling, Plaintexts>>
        /\ Errors' = Errors
    BY <1>1, SameViews
  <1>5. ItemsOnce' /\ PlaintextsOnce'
    BY <1>1, <1>3, SameViews DEF IInv, ItemsOnce, PlaintextsOnce, MessageOf
  <1>6. ReadFirst'
    <2>1. ~Idle
      BY <1>2 DEF Idle
    <2>2. QED
      BY <1>1, <2>1, NotIdle DEF IInv
  <1>7. RemovedIsDone'
    BY <1>1, <1>4, StillRemoved
  <1>8. InJobs' = InJobs \cup {MessageOf(e)} /\ JobsOnce'
    <2>1. MessageOf(e) \notin InJobs
      BY <1>3 DEF IInv, PlaintextsApart, Given
    <2>2. jobQueue' = [jobQueue EXCEPT ![ConversationOf[MessageOf(e)]] = Append(@, e)]
      BY <1>3 DEF OnMessageReceived
    <2>3. QED
      BY <1>1, <2>1, <2>2, PushJob DEF IInv, PlaintextsApart
  <1>9. PlaintextsApart'
    <2>1. Given' = Given \cup {MessageOf(e)} /\ MessageOf(e) \notin Given
      BY <1>1, <1>3, <1>8 DEF Given, IInv, PlaintextsApart
    <2>2. inMemory \subseteq Given
      BY DEF Given
    <2>3. QED
      BY <1>1, <1>3, <1>4, <1>8, <2>1, <2>2 DEF IInv, PlaintextsApart
  <1>10. QED
    BY <1>1, <1>3, <1>4, <1>5, <1>6, <1>7, <1>9, PlainMoves

\* The envelope of a conversation's queue is handled: what does not depend on how.
LEMMA JobHandled ==
    ASSUME DataType, IInv, NEW c \in Conversations, jobQueue[c] # <<>>,
           jobQueue' = [jobQueue EXCEPT ![c] = Tail(@)],
           UNCHANGED <<queueVars, batchVars, dbVars, arrived, gaveUp, onServer>>,
           \/ inMemory' = inMemory \cup {MessageOf(Head(jobQueue[c]))}
           \/ inMemory' = inMemory
              /\ (\/ MessageOf(Head(jobQueue[c])) \in Range(saved)
                  \/ MessageOf(Head(jobQueue[c])) \in failedHere'),
           failedHere' \in {failedHere, failedHere \cup {MessageOf(Head(jobQueue[c]))}},
           RemovedIsDone'
    PROVE  IInv'
  <1> DEFINE m == MessageOf(Head(jobQueue[c]))
  <1>1. /\ UNCHANGED <<incoming, addBatch, zoneQueue, encrypted, decrypted, appQueue>>
        /\ UNCHANGED <<arrived, batchVars, rows, advanced, gaveUp, onServer, saved>>
        /\ batch' = batch
    BY DEF queueVars, batchVars, dbVars
  <1>2. /\ UNCHANGED <<Incoming, Adding, Waiting, DecryptJobs, Queued, Handling, Dispatched>>
        /\ UNCHANGED <<Plaintexts, Errors, Deliveries>>
    BY <1>1, SameViews
  <1>3. ItemsOnce' /\ PlaintextsOnce'
    BY <1>1, SameViews DEF IInv, ItemsOnce, PlaintextsOnce, MessageOf
  <1>4. /\ m \in InJobs /\ InJobs' = InJobs \ {m} /\ JobsOnce'
    BY PopJob DEF IInv, PlaintextsApart
  <1>5. ReadFirst'
    <2>1. ~Idle
      BY <1>4 DEF Idle
    <2>2. QED
      BY <1>1, <2>1, NotIdle DEF IInv
  <1> HIDE DEF m
  <1>6. inMemory' \in {inMemory, inMemory \cup {m}} /\ failedHere' \in {failedHere, failedHere \cup {m}}
    BY DEF m
  <1>7. PlaintextsApart'
    <2>1. Given' \subseteq Given
      BY <1>4, <1>6 DEF Given
    <2>2. InJobs' \cap inMemory' = {}
      BY <1>4, <1>6 DEF IInv, PlaintextsApart
    <2>3. QED
      BY <1>1, <1>2, <1>4, <2>1, <2>2 DEF IInv, PlaintextsApart
  <1>8. QED
    BY <1>1, <1>2, <1>3, <1>5, <1>7, PlainMoves

LEMMA InvHandleDataMessage ==
    ASSUME DataType, IInv, NEW c \in Conversations, HandleDataMessage(c)
    PROVE  IInv'
  <1> DEFINE m == MessageOf(Head(jobQueue[c]))
  <1>1. /\ UNCHANGED <<queueVars, batchVars, dbVars, arrived, gaveUp, onServer, failedHere>>
        /\ jobQueue[c] # <<>> /\ jobQueue' = [jobQueue EXCEPT ![c] = Tail(@)]
    BY DEF HandleDataMessage, serverVars, historyVars
  <1>2. /\ UNCHANGED <<incoming, addBatch, zoneQueue, encrypted, rows, advanced, saved>>
        /\ UNCHANGED <<Incoming, Adding, Waiting, DecryptJobs>>
    BY <1>1, SameViews DEF queueVars, dbVars
  <1>3. CASE Known(m)
    <2> DEFINE e == Head(jobQueue[c])
    <2>1. removeBatch' = removeBatch \cup {e} /\ inMemory' = inMemory
      BY <1>3 DEF HandleDataMessage
    <2>2. m \in Range(saved)
      <3>1. m \in InJobs
        BY <1>1, PopJob DEF IInv, PlaintextsApart
      <3>2. QED
        BY <1>3, <3>1 DEF Known, IInv, PlaintextsApart
    <2>3. PICK x : x = e
      OBVIOUS
    <2>4. RemovedIsDone'
      <3>1. Done(x)'
        BY <1>1, <1>2, <2>2, <2>3 DEF Done, MessageOf
      <3>2. QED
        BY <1>1, <1>2, <2>1, <2>3, <3>1, OneRemoved
    <2>5. QED
      BY <1>1, <2>1, <2>2, <2>4, JobHandled
  <1>4. CASE ~Known(m)
    <2>1. removeBatch' = removeBatch /\ inMemory' = inMemory \cup {m}
      BY <1>4 DEF HandleDataMessage
    <2>2. RemovedIsDone'
      BY <1>1, <1>2, <2>1, StillRemoved
    <2>3. QED
      BY <1>1, <2>1, <2>2, JobHandled
  <1>5. QED
    BY <1>3, <1>4

LEMMA InvHandleThrows ==
    ASSUME DataType, IInv, NEW c \in Conversations, HandleThrows(c)
    PROVE  IInv'
  <1>1. /\ UNCHANGED <<queueVars, batchVars, dbVars, arrived, gaveUp, onServer, removeBatch>>
        /\ jobQueue[c] # <<>> /\ jobQueue' = [jobQueue EXCEPT ![c] = Tail(@)]
        /\ inMemory' \in {inMemory, inMemory \cup {MessageOf(Head(jobQueue[c]))}}
        /\ failedHere' = failedHere \cup {MessageOf(Head(jobQueue[c]))}
    BY DEF HandleThrows, serverVars
  <1>2. /\ UNCHANGED <<incoming, addBatch, zoneQueue, encrypted, rows, advanced, saved>>
        /\ UNCHANGED <<Incoming, Adding, Waiting, DecryptJobs>>
    BY <1>1, SameViews DEF queueVars, dbVars
  <1>3. RemovedIsDone'
    BY <1>1, <1>2, StillRemoved
  <1>4. QED
    BY <1>1, <1>3, JobHandled

LEMMA InvSave ==
    ASSUME DataType, SaveInv, IInv, saving # <<>>,
           UNCHANGED <<onServer, queueVars, batchVars, jobQueue, inMemory, rows, advanced,
                       arrived, gaveUp>>,
           failedHere' \in {failedHere, failedHere \cup {MessageOf(Head(saving))}},
           \/ saved' = saved /\ removeBatch' = removeBatch
           \/ /\ saved' = Append(saved, MessageOf(Head(saving)))
              /\ removeBatch' \subseteq removeBatch \cup {Head(saving)}
    PROVE  IInv'
  <1>1. PICK e \in Envelopes : e = Head(saving)
    BY TailFacts DEF DataType, AppType
  <1>2. UNCHANGED <<incoming, addBatch, zoneQueue, encrypted, decrypted, appQueue, batch>>
    BY DEF queueVars, batchVars
  <1>3. /\ UNCHANGED <<Incoming, Adding, Waiting, DecryptJobs>>
        /\ UNCHANGED <<Queued, Handling, Dispatched>>
        /\ Errors' = Errors /\ Deliveries' = Deliveries
    BY <1>2, SameViews
  <1>4. ItemsOnce' /\ PlaintextsOnce'
    BY <1>2, SameViews DEF IInv, ItemsOnce, PlaintextsOnce, MessageOf
  <1>5. ReadFirst'
    <2>1. ~Idle
      BY DEF Idle
    <2>2. QED
      BY <1>2, <2>1, NotIdle DEF IInv
  <1>6. PlaintextsApart'
    <2>1. MessageOf(e) \in inMemory
      BY <1>1, TailFacts DEF DataType, AppType, SaveInv, SavingIsNew
    <2>2. InJobs' = InJobs /\ (JobsOnce => JobsOnce')
      BY SameViews
    <2>3. Given' = Given
      BY <1>1, <2>1, <2>2 DEF Given
    <2>4. Plaintexts' = Plaintexts
      BY <1>2, SameViews
    <2>5. QED
      BY <1>3, <2>2, <2>3, <2>4 DEF IInv, PlaintextsApart
  <1>7. CASE saved' = saved /\ removeBatch' = removeBatch
    <2>1. RemovedIsDone'
      BY <1>3, <1>7, StillRemoved
    <2>2. QED
      BY <1>3, <1>4, <1>5, <1>6, <1>7, <2>1, PlainMoves
  <1>8. CASE saved' = Append(saved, MessageOf(e)) /\ removeBatch' \subseteq removeBatch \cup {e}
    <2>1. MessageOf(e) \in Messages /\ saved \in Seq(Messages)
      BY DEF MessageOf, Envelopes, DataType, ServerType, TableType
    <2>2. Range(saved') = Range(saved) \cup {MessageOf(e)}
      BY <1>8, <2>1, RangeFacts
    <2>3. Done(e)'
      BY <2>2 DEF Done, MessageOf
    <2>4. RemovedIsDone'
      BY <1>3, <1>8, <2>2, <2>3, OneRemoved
    <2>5. QED
      BY <1>3, <1>4, <1>5, <1>6, <2>2, <2>4, PlainMoves
  <1>9. QED
    BY <1>1, <1>7, <1>8

LEMMA InvSaveAndConfirm ==
    ASSUME DataType, SaveInv, IInv, SaveAndConfirm
    PROVE  IInv'
  BY InvSave DEF SaveAndConfirm, serverVars, historyVars

LEMMA InvSaveRejected ==
    ASSUME DataType, SaveInv, IInv, SaveRejected
    PROVE  IInv'
  BY InvSave DEF SaveRejected, serverVars
-----------------------------------------------------------------------------
(* Actions that move an envelope to the next queue *)

LEMMA ItemMoves ==
    ASSUME IInv, ReadFirst', ItemsOnce', ItemsApart',
           UNCHANGED <<arrived, batchVars, rows, advanced, gaveUp, onServer, appVars,
                       saved, removeBatch>>,
           UNCHANGED <<encrypted, decrypted, appQueue>>,
           Incoming' \subseteq Incoming, Pending' = Pending
    PROVE  IInv'
  <1>1. UNCHANGED <<batch, batchPhase>>
    BY DEF batchVars
  <1>2. /\ UNCHANGED <<DecryptedRows, Stored, Plaintexts, Plain, Consumed>>
        /\ UNCHANGED <<Queued, Handling, Dispatched, Errors, Deliveries, DecryptJobs>>
    BY <1>1, SameViews DEF batchVars
  <1>3. PlaintextsOnce'
    BY <1>1 DEF IInv, PlaintextsOnce, MessageOf
  <1>4. PendingNotDone'
    BY <1>1, <1>2, StayPending DEF IInv
  <1>5. PlaintextsApart'
    BY <1>2, StayPlaintexts DEF IInv
  <1>6. KeysInv'
    BY StayKeys DEF IInv
  <1>7. RowsInv'
    BY <1>2, StayRows DEF IInv
  <1>8. KindsInv'
    BY <1>2, StayKinds DEF IInv
  <1>9. RemovedIsDone'
    BY <1>2, StayRemoved DEF IInv
  <1>10. ConsumedIsDurable'
    BY <1>2, StayConsumed DEF IInv
  <1>11. AnsweredIsKept'
    BY <1>2, StayAnswered DEF IInv
  <1>12. QED
    BY <1>3, <1>4, <1>5, <1>6, <1>7, <1>8, <1>9, <1>10, <1>11 DEF IInv

LEMMA InvDecryptAndCache ==
    ASSUME DataType, IInv, DecryptAndCache
    PROVE  IInv'
  <1>1. UNCHANGED <<arrived, batchVars, rows, advanced, gaveUp, onServer, appVars,
                    saved, removeBatch, zoneQueue, encrypted, decrypted, appQueue>>
    BY DEF DecryptAndCache, serverVars, appVars, dbVars, historyVars
  <1>2. incoming # <<>> /\ incoming' = Tail(incoming) /\ Head(incoming).do = "decryptAndCache"
    BY DEF DecryptAndCache, Next1
  <1>3. PICK e \in Envelopes :
           /\ e = Head(incoming).envelope
           /\ e \in Incoming /\ Incoming' = Incoming \ {e}
           /\ Distinct(incoming', "decryptAndCache", Id)
    BY <1>1, <1>2, PopIncoming DEF IInv, ItemsOnce
  <1>4. PICK item \in ItemsOf(Envelopes) : item = Item(e, 1)
    <2>1. Item(e, 1) \in ItemsOf(Envelopes)
      BY ReceiverAssumption DEF Item, ItemsOf
    <2>2. QED
      BY <2>1
  <1>5. item.envelope = e /\ addBatch' = Append(addBatch, item)
    BY <1>3, <1>4 DEF Item, DecryptAndCache
  <1>6. e \notin Adding /\ addBatch \in Seq(ItemsOf(Envelopes))
    BY <1>3 DEF IInv, ItemsApart, DataType, QueueType
  <1>7. Once(addBatch') /\ Adding' = Adding \cup {e}
    BY <1>5, <1>6, OnceAppend DEF IInv, ItemsOnce, Adding
  <1>8. UNCHANGED <<Waiting, DecryptJobs>>
    BY <1>1, SameViews
  <1>9. ItemsOnce'
    BY <1>1, <1>3, <1>7 DEF IInv, ItemsOnce
  <1>10. ItemsApart' /\ Pending' = Pending
    BY <1>3, <1>7, <1>8 DEF IInv, ItemsApart, Pending
  <1>11. ReadFirst'
    BY <1>2, FirstRuns DEF IInv
  <1>12. QED
    BY <1>1, <1>3, <1>9, <1>10, <1>11, ItemMoves

LEMMA InvStartBatch ==
    ASSUME DataType, IInv, StartBatch
    PROVE  IInv'
  <1>1. UNCHANGED <<arrived, batchVars, rows, advanced, gaveUp, onServer, appVars,
                    saved, removeBatch, incoming, encrypted, decrypted, appQueue>>
    BY DEF StartBatch, serverVars, appVars, dbVars, historyVars
  <1>2. addBatch # <<>> /\ addBatch' = <<>> /\ zoneQueue' = Append(zoneQueue, addBatch)
    BY DEF StartBatch
  <1>3. Adding' = {} /\ Once(addBatch')
    BY <1>2 DEF Adding, Envs, Once
  <1>4. ZoneOnce(zoneQueue') /\ Waiting' = Waiting \cup Adding
    <2>1. zoneQueue \in Seq(Seq(ItemsOf(Envelopes))) /\ addBatch \in Seq(ItemsOf(Envelopes))
      BY DEF DataType, QueueType
    <2>2. ZoneOnce(zoneQueue) /\ Once(addBatch) /\ Envs(addBatch) \cap Zoned(zoneQueue) = {}
      BY DEF IInv, ItemsOnce, ItemsApart, Adding, Waiting
    <2>3. QED
      BY <1>2, <2>1, <2>2, ZoneAppend DEF Adding, Waiting
  <1>5. UNCHANGED <<Incoming, DecryptJobs>>
    BY <1>1, SameViews
  <1>6. ItemsOnce'
    BY <1>1, <1>3, <1>4 DEF IInv, ItemsOnce
  <1>7. ItemsApart' /\ Pending' = Pending
    BY <1>3, <1>4, <1>5 DEF IInv, ItemsApart, Pending
  <1>8. ReadFirst'
    <2>1. ~Idle
      BY <1>2 DEF Idle
    <2>2. QED
      BY <1>1, <2>1, NotIdle DEF IInv
  <1>9. QED
    BY <1>1, <1>5, <1>6, <1>7, <1>8, ItemMoves
-----------------------------------------------------------------------------
(* The transaction of a batch *)

LEMMA InvSendCommit ==
    ASSUME DataType, IInv, SendCommit
    PROVE  IInv'
  <1>1. /\ UNCHANGED <<arrived, batch, rows, advanced, gaveUp, onServer, appVars, saved,
                       removeBatch, saving>>
        /\ UNCHANGED <<incoming, addBatch, zoneQueue, encrypted, decrypted, appQueue>>
        /\ batchPhase = "decrypting" /\ batchPhase' = "committing"
    BY DEF SendCommit, serverVars, queueVars, appVars, dbVars, historyVars
  <1>2. /\ UNCHANGED <<DecryptedRows, Stored, Plaintexts, Plain, DecryptJobs>>
        /\ UNCHANGED <<Incoming, Adding, Waiting, Queued, Handling, Dispatched>>
        /\ UNCHANGED <<Errors, Deliveries>>
    BY <1>1, SameViews
  <1>3. Pending' = Pending
    BY <1>2 DEF Pending
  <1>4. Open /\ Open' /\ Consumed' = Consumed
    BY <1>1 DEF Open, Consumed
  <1>5. DecryptJobs = {}
    <2>1. \A x : x \notin DecryptJobs
      BY InLabels DEF SendCommit, DecryptJobs
    <2>2. QED
      BY <2>1
  <1>6. ReadFirst'
    BY <1>1, NotIdle DEF IInv, Idle
  <1>7. ItemsOnce' /\ PlaintextsOnce'
    BY <1>1 DEF IInv, ItemsOnce, PlaintextsOnce, MessageOf
  <1>8. ItemsApart' /\ PlaintextsApart'
    BY <1>1, <1>2, StayApart, StayPlaintexts DEF IInv
  <1>9. PendingNotDone'
    BY <1>1, <1>2, <1>3, StayPending DEF IInv
  <1>10. KeysInv'
    BY <1>1, <1>2, <1>4 DEF IInv, KeysInv
  <1>11. RowsInv' /\ KindsInv'
    BY <1>1, <1>2, StayRows, StayKinds DEF IInv
  <1>12. RemovedIsDone'
    BY <1>1, <1>2, <1>3, <1>4, StayRemoved DEF IInv
  <1>13. ConsumedIsDurable'
    BY <1>1, <1>2, StayConsumed DEF IInv
  <1>14. AnsweredIsKept'
    <2>1. \A m \in ToSave \ onServer : KeptHere(m)'
      BY <1>1, <1>2, StayKept DEF IInv, AnsweredIsKept
    <2>2. \A e \in Envs(batch.items) : ToBeSaved(e) => e \in Stored
      BY <1>1, <1>5 DEF IInv, AnsweredIsKept
    <2>3. \A e : ToBeSaved(e)' = ToBeSaved(e)
      BY <1>1 DEF ToBeSaved, MessageOf
    <2>4. QED
      BY <1>1, <1>2, <2>1, <2>2, <2>3 DEF AnsweredIsKept, ToBeSaved, MessageOf
  <1>15. QED
    BY <1>6, <1>7, <1>8, <1>9, <1>10, <1>11, <1>12, <1>13, <1>14 DEF IInv

\* What the transaction leaves in the table: its rows and the rows that were there.
LEMMA RowsCommitted ==
    ASSUME DataType, IInv, batchPhase = "committing", rows' = SavedRows
    PROVE  /\ DOMAIN rows' = DOMAIN rows \cup Stored
           /\ DecryptedRows' = DecryptedRows \cup Plain
           /\ Plain \subseteq Stored /\ Stored \cap DecryptedRows = {}
  <1>1. /\ DOMAIN SavedRows = DOMAIN rows \cup Stored
        /\ \A e \in Stored : SavedRows[e].decrypted = (e \in Range(batch.plain))
        /\ \A e \in DOMAIN rows \ Stored : SavedRows[e] = rows[e]
    BY RowsSaved
  <1>2. Plain \subseteq Stored
    BY DEF Plain, Stored
  <1>3. Stored \cap DecryptedRows = {}
    BY DEF IInv, PendingNotDone
  <1>4. DecryptedRows' = {e \in DOMAIN SavedRows : SavedRows[e].decrypted}
    BY DEF DecryptedRows
  <1>5. ASSUME NEW e
        PROVE  e \in DecryptedRows' <=> e \in DecryptedRows \/ e \in Plain
    <2>1. CASE e \in Stored
      BY <1>1, <1>3, <1>4, <2>1, Zenon DEF Plain, DecryptedRows
    <2>2. CASE e \notin Stored
      BY <1>1, <1>2, <1>4, <2>2 DEF DecryptedRows
    <2>3. QED
      BY <2>1, <2>2
  <1>6. QED
    BY <1>1, <1>2, <1>3, <1>5

\* The parts of the invariant that both ends of a commit keep.
LEMMA Committed ==
    ASSUME DataType, IInv, batchPhase = "committing", batchPhase' \in {"acking", "stuck"},
           rows' = SavedRows, advanced' = advanced \cup batch.keys,
           UNCHANGED <<arrived, batch, gaveUp, onServer, appVars, saved, removeBatch,
                       saving>>,
           UNCHANGED <<incoming, addBatch, zoneQueue, encrypted, decrypted, appQueue>>
    PROVE  IInv'
  <1>1. /\ DOMAIN rows' = DOMAIN rows \cup Stored
        /\ DecryptedRows' = DecryptedRows \cup Plain
        /\ Plain \subseteq Stored /\ Stored \cap DecryptedRows = {}
    BY RowsCommitted
  <1>2. /\ UNCHANGED <<Stored, Plaintexts, Plain, DecryptJobs>>
        /\ UNCHANGED <<Incoming, Adding, Waiting, Queued, Handling, Dispatched>>
        /\ UNCHANGED <<Errors, Deliveries>>
    BY SameViews
  <1>3. Pending' = Pending
    BY <1>2 DEF Pending
  <1>4. Consumed' = Consumed /\ Consumed = advanced' /\ Open
    BY DEF Open, Consumed
  <1>5. /\ batch.keys \cap advanced = {}
        /\ batch.keys \cap ToSave \subseteq Plaintexts
        /\ Plaintexts \subseteq batch.keys
    BY <1>4 DEF IInv, KeysInv
  <1>6. ReadFirst'
    BY NotIdle DEF IInv, Idle
  <1>7. ItemsOnce' /\ PlaintextsOnce'
    BY DEF IInv, ItemsOnce, PlaintextsOnce, MessageOf
  <1>8. ItemsApart' /\ PlaintextsApart'
    BY <1>2, StayApart, StayPlaintexts DEF IInv
  <1>9. PendingNotDone'
    <2>1. Pending \cap (DecryptedRows \cup Stored) = {} /\ Incoming \cap DOMAIN rows = {}
      BY DEF IInv, PendingNotDone
    <2>2. Incoming \subseteq Pending
      BY DEF Pending
    <2>3. QED
      BY <1>1, <1>2, <1>3, <2>1, <2>2 DEF PendingNotDone
  <1>10. KeysInv'
    BY <1>2, <1>5 DEF KeysInv, Open
  <1>11. RowsInv'
    <2>1. \A e \in Plain : MessageOf(e) \in Plaintexts
      BY DEF Plaintexts
    <2>2. \A e \in DecryptedRows : MessageOf(e) \in advanced
      BY DEF IInv, RowsInv
    <2>3. \A e, f \in DecryptedRows : MessageOf(e) = MessageOf(f) => e = f
      BY DEF IInv, RowsInv
    <2>4. \A e, f \in Plain : MessageOf(e) = MessageOf(f) => e = f
      BY DEF Plain, Range, IInv, PlaintextsOnce
    <2>5. \A e, f \in DecryptedRows' : MessageOf(e) = MessageOf(f) => e = f
      BY <1>1, <1>5, <2>1, <2>2, <2>3, <2>4
    <2>6. \A e \in DecryptedRows' : MessageOf(e) \in advanced'
      BY <1>1, <1>5, <2>1, <2>2
    <2>7. QED
      BY <2>5, <2>6 DEF RowsInv, MessageOf
  <1>12. KindsInv'
    BY <1>2, StayKinds DEF IInv
  <1>13. RemovedIsDone'
    BY <1>1, <1>2, <1>3, <1>4, StayRemoved DEF IInv
  <1>14. ConsumedIsDurable'
    <2>1. ASSUME NEW m \in ToSave, m \in advanced PROVE Durable(m)'
      BY <1>1, <2>1, StayDurable DEF IInv, ConsumedIsDurable
    <2>2. ASSUME NEW m \in ToSave, m \in batch.keys PROVE Durable(m)'
      <3>1. PICK e \in Plain : MessageOf(e) = m
        BY <1>5, <2>2 DEF Plaintexts
      <3>2. e \in DecryptedRows'
        BY <1>1
      <3>3. QED
        BY <3>1, <3>2 DEF Durable, MessageOf
    <2>3. QED
      BY <2>1, <2>2 DEF ConsumedIsDurable, ToSave
  <1>15. AnsweredIsKept'
    <2>1. \A m \in ToSave \ onServer : KeptHere(m)'
      BY <1>1, StayKept DEF IInv, AnsweredIsKept
    <2>2. ASSUME NEW e \in Envs(batch.items), ToBeSaved(e) PROVE KeptHere(arrived[e])'
      <3>1. e \in DOMAIN rows'
        BY <1>1, <2>2 DEF IInv, AnsweredIsKept
      <3>2. QED
        BY <3>1 DEF KeptHere, MessageOf
    <2>3. \A e \in Envs(batch.items) : ToBeSaved(e) => KeptHere(arrived[e])'
      BY <2>2
    <2>4. QED
      BY <2>1, <2>3 DEF AnsweredIsKept, ToBeSaved, MessageOf, ToSave
  <1>16. QED
    BY <1>6, <1>7, <1>8, <1>9, <1>10, <1>11, <1>12, <1>13, <1>14, <1>15 DEF IInv

LEMMA InvCommitDone ==
    ASSUME DataType, IInv, CommitDone
    PROVE  IInv'
  <1>1. /\ UNCHANGED <<arrived, batch, gaveUp, onServer, appVars, saved, removeBatch, saving>>
        /\ UNCHANGED <<incoming, addBatch, zoneQueue, encrypted, decrypted, appQueue>>
        /\ batchPhase = "committing" /\ batchPhase' = "acking"
        /\ rows' = SavedRows /\ advanced' = advanced \cup batch.keys
    BY DEF CommitDone, serverVars, queueVars, appVars, historyVars
  <1>2. QED
    BY <1>1, Committed

LEMMA InvCommitRejected ==
    ASSUME DataType, IInv, CommitRejected
    PROVE  IInv'
  <1>1. /\ UNCHANGED <<arrived, batch, gaveUp, onServer, appVars, saved, removeBatch, saving>>
        /\ UNCHANGED <<incoming, addBatch, zoneQueue, encrypted, decrypted, appQueue>>
        /\ batchPhase = "committing" /\ batchPhase' = "stuck"
        /\ \/ UNCHANGED <<rows, advanced>>
           \/ rows' = SavedRows /\ advanced' = advanced \cup batch.keys
    BY DEF CommitRejected, serverVars, queueVars, appVars, historyVars
  <1>2. CASE rows' = SavedRows /\ advanced' = advanced \cup batch.keys
    BY <1>1, <1>2, Committed
  <1>3. CASE UNCHANGED <<rows, advanced>>
    <2>1. /\ UNCHANGED <<Stored, Plaintexts, Plain, DecryptJobs, DecryptedRows>>
          /\ UNCHANGED <<Incoming, Adding, Waiting, Queued, Handling, Dispatched>>
          /\ UNCHANGED <<Errors, Deliveries>>
      BY <1>1, <1>3, SameViews
    <2>2. Pending' = Pending
      BY <2>1 DEF Pending
    <2>3. Consumed' = Consumed /\ Open
      BY <1>1, <1>3 DEF Open, Consumed
    <2>4. ReadFirst'
      BY <1>1, NotIdle DEF IInv, Idle
    <2>5. ItemsOnce' /\ PlaintextsOnce'
      BY <1>1 DEF IInv, ItemsOnce, PlaintextsOnce, MessageOf
    <2>6. ItemsApart' /\ PlaintextsApart'
      BY <1>1, <1>3, <2>1, StayApart, StayPlaintexts DEF IInv
    <2>7. PendingNotDone'
      BY <1>1, <1>3, <2>1, <2>2, StayPending DEF IInv
    <2>8. KeysInv'
      BY <1>1, <1>3, <2>1, <2>3 DEF IInv, KeysInv
    <2>9. RowsInv' /\ KindsInv'
      BY <1>1, <1>3, <2>1, StayRows, StayKinds DEF IInv
    <2>10. RemovedIsDone'
      BY <1>1, <2>1, <2>2, <2>3, StayRemoved DEF IInv
    <2>11. ConsumedIsDurable'
      BY <1>1, <1>3, <2>1, StayConsumed DEF IInv
    <2>12. AnsweredIsKept'
      <3>1. \A m \in ToSave \ onServer : KeptHere(m)'
        BY <1>1, <1>3, <2>1, StayKept DEF IInv, AnsweredIsKept
      <3>2. QED
        BY <1>1, <3>1 DEF AnsweredIsKept
    <2>13. QED
      BY <2>4, <2>5, <2>6, <2>7, <2>8, <2>9, <2>10, <2>11, <2>12 DEF IInv
  <1>4. QED
    BY <1>1, <1>2, <1>3

LEMMA InvAcknowledge ==
    ASSUME DataType, IInv, Acknowledge
    PROVE  IInv'
  <1>1. /\ UNCHANGED <<arrived, batchPhase, rows, advanced, gaveUp, appVars, saved,
                       removeBatch, saving>>
        /\ UNCHANGED <<incoming, addBatch, zoneQueue, encrypted, decrypted, appQueue>>
        /\ batchPhase = "acking" /\ batch.items # <<>>
    BY DEF Acknowledge, queueVars, appVars, dbVars, historyVars
  <1>2. batch \in Batches(Envelopes) /\ batch' = [batch EXCEPT !.items = Tail(@)]
    BY DEF Acknowledge, DataType, BatchType
  <1>3. /\ batch'.items = Tail(batch.items) /\ batch'.plain = batch.plain
        /\ batch'.failed = batch.failed /\ batch'.keys = batch.keys
        /\ batch.items \in Seq(ItemsOf(Envelopes))
    BY <1>2 DEF Batches
  <1>4. /\ UNCHANGED <<DecryptJobs, DecryptedRows>>
        /\ UNCHANGED <<Incoming, Adding, Waiting, Queued, Handling, Dispatched>>
        /\ UNCHANGED <<Errors, Deliveries, Open>>
    BY <1>1, SameViews
  <1>5. UNCHANGED <<Stored, Plaintexts, Plain, Pending, Consumed>>
    BY <1>1, <1>3, <1>4 DEF Stored, Plaintexts, Plain, Pending, Consumed, MessageOf
  <1>6. ReadFirst'
    BY <1>1, NotIdle DEF IInv, Idle
  <1>7. ItemsOnce' /\ PlaintextsOnce'
    BY <1>1, <1>3 DEF IInv, ItemsOnce, PlaintextsOnce, MessageOf
  <1>8. ItemsApart' /\ PlaintextsApart'
    BY <1>1, <1>4, <1>5, StayApart, StayPlaintexts DEF IInv
  <1>9. PendingNotDone'
    BY <1>1, <1>4, <1>5, StayPending DEF IInv
  <1>10. KeysInv'
    BY <1>1, <1>3, <1>4, <1>5 DEF IInv, KeysInv
  <1>11. RowsInv' /\ KindsInv'
    BY <1>1, <1>4, StayRows, StayKinds DEF IInv
  <1>12. RemovedIsDone'
    BY <1>1, <1>4, <1>5, StayRemoved DEF IInv
  <1>13. ConsumedIsDurable'
    BY <1>1, <1>4, StayConsumed DEF IInv
  <1>14. AnsweredIsKept'
    <2>1. PICK item \in ItemsOf(Envelopes) : item = Head(batch.items)
      BY <1>1, <1>3, TailFacts
    <2>2. item.envelope \in Envs(batch.items) /\ Envs(batch'.items) \subseteq Envs(batch.items)
      BY <1>1, <1>3, <2>1, TailFacts DEF Envs
    <2>3. onServer \ {MessageOf(item.envelope)} \subseteq onServer'
      BY <2>1 DEF Acknowledge
    <2>4. \A m : KeptHere(m) => KeptHere(m)'
      BY <1>1, <1>4, StayKept
    <2>5. \A e \in Envs(batch.items) : ToBeSaved(e) => KeptHere(arrived[e])'
      BY <1>1, <2>4 DEF IInv, AnsweredIsKept, MessageOf
    <2>6. \A m \in ToSave \ onServer' : KeptHere(m)'
      <3>1. ASSUME NEW m \in ToSave \ onServer' PROVE KeptHere(m)'
        <4>1. CASE m \notin onServer
          BY <2>4, <3>1, <4>1 DEF IInv, AnsweredIsKept
        <4>2. CASE m = MessageOf(item.envelope)
          <5>1. KeptHere(m)
            BY <1>1, <2>2, <3>1, <4>2 DEF IInv, AnsweredIsKept, ToBeSaved
          <5>2. QED
            BY <2>4, <5>1
        <4>3. QED
          BY <2>3, <3>1, <4>1, <4>2
      <3>2. QED
        BY <3>1
    <2>7. \A e \in Envs(batch'.items) : ToBeSaved(e) => KeptHere(arrived[e])'
      BY <2>2, <2>5
    <2>8. QED
      BY <1>1, <2>6, <2>7 DEF AnsweredIsKept, ToBeSaved, MessageOf, ToSave
  <1>15. QED
    BY <1>6, <1>7, <1>8, <1>9, <1>10, <1>11, <1>12, <1>13, <1>14 DEF IInv

\* The plaintexts of a batch join decryptedQueue.
LEMMA BatchEnded ==
    ASSUME DataType, IInv, EndBatch
    PROVE  /\ Handling' = Handling \cup Plaintexts /\ Errors' = Errors
           /\ Distinct(decrypted', "handle", arrived)
  <1> DEFINE jobs == [i \in DOMAIN batch.plain |-> Job("handle", batch.plain[i])]
             rest == IF batch.plain = <<>> THEN <<>> ELSE <<Job("batchHandled", 0)>>
             S == DecryptedJobs(Envelopes)
  <1>1. decrypted' = (decrypted \o jobs) \o rest /\ arrived' = arrived /\ batchPhase = "acking"
    BY DEF EndBatch, historyVars
  <1>2. batch.plain \in Seq(Envelopes) /\ decrypted \in Seq(S)
    BY DEF DataType, QueueType, BatchType, Batches
  <1>3. jobs \in Seq(S)
    <2>1. \A e \in Envelopes : Job("handle", e) \in S
      BY NewTask DEF DecryptedJobs
    <2>2. QED
      BY <1>2, <2>1
  <1>4. /\ rest \in Seq(S)
        /\ \A f : Labels(rest, "handle", f) = {} /\ Labels(rest, "decryptionError", f) = {}
        /\ \A f : Distinct(rest, "handle", f)
    <2>1. Job("batchHandled", 0) \in S
      BY NewTask DEF DecryptedJobs
    <2>2. rest \in Seq(S)
      BY <2>1
    <2>3. \A i \in DOMAIN rest : rest[i].do = "batchHandled"
      BY DEF Job
    <2> HIDE DEF rest
    <2>4. QED
      BY <2>2, <2>3 DEF Labels, Distinct
  <1>5. /\ Labels(jobs, "handle", arrived) = Plaintexts
        /\ Labels(jobs, "decryptionError", arrived) = {}
        /\ Distinct(jobs, "handle", arrived)
    <2>1. Labels(jobs, "handle", arrived) = {arrived[batch.plain[i]] : i \in DOMAIN batch.plain}
      BY LabelsOfJobs
    <2>2. Labels(jobs, "decryptionError", arrived) = {}
      BY LabelsOfOthers
    <2>3. Distinct(jobs, "handle", arrived)
      BY DistinctJobs DEF IInv, PlaintextsOnce, MessageOf
    <2>4. {arrived[batch.plain[i]] : i \in DOMAIN batch.plain} = Plaintexts
      BY DEF Plaintexts, Plain, Range, MessageOf
    <2>5. QED
      BY <2>1, <2>2, <2>3, <2>4
  <1> HIDE DEF jobs, rest, S
  <1>6. /\ decrypted \o jobs \in Seq(S)
        /\ Labels(decrypted \o jobs, "handle", arrived) = Handling \cup Plaintexts
        /\ Labels(decrypted \o jobs, "decryptionError", arrived) = Errors
    <2>1. decrypted \o jobs \in Seq(S)
      BY <1>2, <1>3, ConcatFacts
    <2>2. Labels(decrypted \o jobs, "handle", arrived) = Handling \cup Plaintexts
      BY <1>2, <1>3, <1>5, LabelsConcat DEF Handling
    <2>3. Labels(decrypted \o jobs, "decryptionError", arrived) =
             Errors \cup Labels(jobs, "decryptionError", arrived)
      BY <1>2, <1>3, LabelsConcat DEF Errors
    <2>4. QED
      BY <1>5, <2>1, <2>2, <2>3
  <1>7. Distinct(decrypted \o jobs, "handle", arrived)
    <2>1. Handling \cap Plaintexts = {} /\ Distinct(decrypted, "handle", arrived)
      BY DEF IInv, PlaintextsApart, PlaintextsOnce
    <2>2. QED
      BY <1>2, <1>3, <1>5, <2>1, DistinctConcat DEF Handling
  <1> DEFINE two == decrypted \o jobs
  <1> HIDE DEF two
  <1>8. two \in Seq(S) /\ Distinct(two, "handle", arrived)
        /\ decrypted' = two \o rest
    BY <1>1, <1>6, <1>7 DEF two
  <1>9. /\ Labels(two \o rest, "handle", arrived) = Labels(two, "handle", arrived)
        /\ Labels(two \o rest, "decryptionError", arrived) = Labels(two, "decryptionError", arrived)
    <2>1. /\ Labels(two \o rest, "handle", arrived) =
                 Labels(two, "handle", arrived) \cup Labels(rest, "handle", arrived)
          /\ Labels(two \o rest, "decryptionError", arrived) =
                 Labels(two, "decryptionError", arrived)
                    \cup Labels(rest, "decryptionError", arrived)
      BY <1>4, <1>8, LabelsConcat
    <2>2. QED
      BY <1>4, <2>1
  <1>10. Distinct(two \o rest, "handle", arrived)
    BY <1>4, <1>8, DistinctConcat
  <1>11. Handling' = Handling \cup Plaintexts /\ Errors' = Errors
    BY <1>1, <1>6, <1>8, <1>9 DEF Handling, Errors, two
  <1>12. QED
    BY <1>8, <1>10, <1>11

LEMMA InvEndBatch ==
    ASSUME DataType, IInv, EndBatch
    PROVE  IInv'
  <1>1. /\ UNCHANGED <<arrived, rows, advanced, gaveUp, onServer, appVars, saved,
                       removeBatch, saving>>
        /\ UNCHANGED <<incoming, addBatch, zoneQueue, encrypted, appQueue>>
        /\ batchPhase = "acking" /\ batchPhase' = "none" /\ batch' = NoBatch
    BY DEF EndBatch, serverVars, appVars, dbVars, historyVars
  <1>2. /\ Handling' = Handling \cup Plaintexts /\ Errors' = Errors
        /\ Distinct(decrypted', "handle", arrived)
    BY BatchEnded
  <1>3. /\ UNCHANGED <<DecryptJobs, DecryptedRows>>
        /\ UNCHANGED <<Incoming, Adding, Waiting, Queued, Dispatched, Deliveries>>
    BY <1>1, SameViews
  <1>4. batch'.items = <<>> /\ batch'.plain = <<>> /\ batch'.failed = {} /\ batch'.keys = {}
    BY <1>1 DEF NoBatch
  <1>5. Plain' = {} /\ Plaintexts' = {} /\ Stored' = {}
    BY <1>4 DEF Plain, Plaintexts, Stored, Range
  <1>6. ~Open /\ ~Open' /\ Consumed' = Consumed /\ Pending' = Pending
    BY <1>1, <1>3 DEF Open, Consumed, Pending
  <1>7. ReadFirst'
    BY <1>1, NotIdle DEF IInv, Idle
  <1>8. ItemsOnce' /\ PlaintextsOnce'
    BY <1>1, <1>2, <1>4 DEF IInv, ItemsOnce, PlaintextsOnce, MessageOf
  <1>9. ItemsApart'
    BY <1>3, StayApart DEF IInv
  <1>10. PlaintextsApart'
    <2>1. Given' = Given /\ InJobs' = InJobs /\ inMemory' = inMemory
          /\ (JobsOnce => JobsOnce')
      BY <1>1, SameViews
    <2>2. QED
      BY <1>1, <1>2, <1>3, <1>5, <2>1 DEF IInv, PlaintextsApart, KeysInv
  <1>11. PendingNotDone'
    BY <1>1, <1>3, <1>5, <1>6, StayPending DEF IInv
  <1>12. KeysInv'
    BY <1>1, <1>5, <1>6 DEF KeysInv
  <1>13. RowsInv' /\ KindsInv'
    BY <1>1, <1>2, <1>3, StayRows, StayKinds DEF IInv
  <1>14. RemovedIsDone'
    BY <1>1, <1>3, <1>5, <1>6, StayRemoved DEF IInv
  <1>15. ConsumedIsDurable'
    BY <1>1, <1>3, StayConsumed DEF IInv
  <1>16. AnsweredIsKept'
    <2>1. \A m \in ToSave \ onServer : KeptHere(m)'
      BY <1>1, <1>3, StayKept DEF IInv, AnsweredIsKept
    <2>2. QED
      BY <1>1, <2>1 DEF AnsweredIsKept
  <1>17. QED
    BY <1>7, <1>8, <1>9, <1>10, <1>11, <1>12, <1>13, <1>14, <1>15, <1>16 DEF IInv

\* A batch that enters the zone queues its items, but for unknown ones.
LEMMA ItemsQueued ==
    ASSUME DataType, IInv, EnterZone
    PROVE  /\ Queued' = Queued
           /\ Distinct(encrypted', "queueDecrypted", arrived)
           /\ DecryptJobs' \subseteq Envs(FirstBatch)
           /\ \A e \in Envs(FirstBatch) :
                 Kind[MessageOf(e)] # "unknownUuid" => e \in DecryptJobs'
           /\ Distinct(encrypted', "decrypt", Id)
  <1> DEFINE s == [i \in DOMAIN Decryptable |-> FirstBatch[Decryptable[i]].envelope]
             new == [i \in DOMAIN s |-> Job("decrypt", s[i])]
             S == EncryptedJobs(Envelopes)
  <1>1. /\ zoneQueue # <<>> /\ batchPhase = "none" /\ arrived' = arrived
        /\ encrypted' = encrypted \o
              [i \in DOMAIN Decryptable |-> Job("decrypt", FirstBatch[Decryptable[i]].envelope)]
    BY Zenon DEF EnterZone, FirstBatch, Decryptable, historyVars
  <1>2. new = [i \in DOMAIN Decryptable |-> Job("decrypt", FirstBatch[Decryptable[i]].envelope)]
    OBVIOUS
  <1>3. encrypted' = encrypted \o new /\ encrypted \in Seq(S)
    BY <1>1, <1>2 DEF DataType, QueueType
  <1>4. /\ Decryptable \in Seq(DOMAIN FirstBatch)
        /\ \A i, j \in DOMAIN Decryptable : Decryptable[i] = Decryptable[j] => i = j
        /\ \A i \in DOMAIN Decryptable : FirstBatch[Decryptable[i]].envelope \in Envelopes
        /\ Range(Decryptable) = {i \in DOMAIN FirstBatch :
                  Kind[MessageOf(FirstBatch[i].envelope)] # "unknownUuid"}
    BY <1>1, BatchListed
  <1>5. s \in Seq(Envelopes)
    BY <1>4
  <1>6. new \in Seq(S)
    <2>1. \A e \in Envelopes : Job("decrypt", e) \in S
      BY NewTask DEF EncryptedJobs
    <2>2. \A i \in DOMAIN s : Job("decrypt", s[i]) \in S
      BY <1>5, <2>1
    <2> HIDE DEF S
    <2>3. QED
      BY <1>5, <2>2
  <1>7. \A i \in DOMAIN s : Id[s[i]] = s[i]
    <2>1. \A i \in DOMAIN s : s[i] \in Nat
      BY <1>5 DEF Envelopes
    <2>2. QED
      BY <2>1 DEF Id
  <1>8. /\ Labels(new, "decrypt", Id) = {s[i] : i \in DOMAIN s}
        /\ Labels(new, "queueDecrypted", arrived) = {}
    <2> HIDE DEF s
    <2>1. Labels(new, "decrypt", Id) = {Id[s[i]] : i \in DOMAIN s}
      BY LabelsOfJobs
    <2>2. Labels(new, "queueDecrypted", arrived) = {}
      BY LabelsOfOthers
    <2>3. QED
      BY <1>7, <2>1, <2>2
  <1>9. \A i, j \in DOMAIN s : s[i] = s[j] => i = j
    <2>1. Once(FirstBatch)
      BY <1>1, ZoneTail DEF IInv, ItemsOnce, DataType, QueueType, FirstBatch
    <2>2. \A i \in DOMAIN Decryptable : Decryptable[i] \in DOMAIN FirstBatch
      BY <1>4
    <2>3. QED
      BY <1>4, <2>1, <2>2 DEF Once
  <1>10. Distinct(new, "decrypt", Id) /\ Distinct(new, "queueDecrypted", arrived)
    <2> HIDE DEF s
    <2>1. Distinct(new, "decrypt", Id)
      <3>1. \A i, j \in DOMAIN s : Id[s[i]] = Id[s[j]] => i = j
        BY <1>7, <1>9
      <3>2. QED
        BY <3>1, DistinctJobs
    <2>2. \A i \in DOMAIN new : new[i].do = "decrypt"
      BY DEF Job
    <2> HIDE DEF new
    <2>3. Distinct(new, "queueDecrypted", arrived)
      BY <2>2 DEF Distinct
    <2>4. QED
      BY <2>1, <2>3
  <1>11. {s[i] : i \in DOMAIN s} \subseteq Envs(FirstBatch)
    <2>1. \A i \in DOMAIN Decryptable : Decryptable[i] \in DOMAIN FirstBatch
      BY <1>4
    <2>2. QED
      BY <2>1 DEF Envs
  <1>12. \A e \in Envs(FirstBatch) :
            Kind[MessageOf(e)] # "unknownUuid" => e \in {s[i] : i \in DOMAIN s}
    <2>1. ASSUME NEW e \in Envs(FirstBatch), Kind[MessageOf(e)] # "unknownUuid"
          PROVE  \E i \in DOMAIN Decryptable : FirstBatch[Decryptable[i]].envelope = e
      <3>1. PICK k \in DOMAIN FirstBatch : FirstBatch[k].envelope = e
        BY DEF Envs
      <3>2. k \in Range(Decryptable)
        BY <1>4, <2>1, <3>1
      <3>3. QED
        BY <3>1, <3>2 DEF Range
    <2>2. QED
      BY <2>1
  <1> HIDE DEF new, s, S
  <1>13. DecryptJobs = {} /\ Distinct(encrypted, "decrypt", Id)
         /\ Distinct(encrypted, "queueDecrypted", arrived)
    BY <1>1 DEF DataType, BatchKnowsItems, IInv, ItemsOnce, PlaintextsOnce
  <1>14. /\ DecryptJobs' = DecryptJobs \cup Labels(new, "decrypt", Id)
         /\ Queued' = Queued \cup Labels(new, "queueDecrypted", arrived)
    <2>1. Labels(encrypted \o new, "decrypt", Id) =
             Labels(encrypted, "decrypt", Id) \cup Labels(new, "decrypt", Id)
      BY <1>3, <1>6, LabelsConcat
    <2>2. Labels(encrypted \o new, "queueDecrypted", arrived) =
             Labels(encrypted, "queueDecrypted", arrived)
                \cup Labels(new, "queueDecrypted", arrived)
      BY <1>3, <1>6, LabelsConcat
    <2>3. QED
      BY <1>1, <1>3, <2>1, <2>2 DEF DecryptJobs, Queued
  <1>15. Distinct(encrypted', "decrypt", Id) /\ Distinct(encrypted', "queueDecrypted", arrived)
    BY <1>3, <1>6, <1>8, <1>10, <1>13, DistinctConcat DEF DecryptJobs
  <1>16. QED
    BY <1>8, <1>11, <1>12, <1>13, <1>14, <1>15

LEMMA InvEnterZone ==
    ASSUME DataType, IInv, EnterZone
    PROVE  IInv'
  <1>1. /\ UNCHANGED <<arrived, rows, advanced, gaveUp, onServer, appVars, saved,
                       removeBatch, saving>>
        /\ UNCHANGED <<incoming, addBatch, decrypted, appQueue>>
        /\ batchPhase = "none" /\ batchPhase' = "decrypting"
        /\ zoneQueue # <<>> /\ zoneQueue' = Tail(zoneQueue)
        /\ batch' = [NoBatch EXCEPT !.items = FirstBatch]
    BY Zenon DEF EnterZone, serverVars, appVars, dbVars, historyVars, FirstBatch
  <1>2. /\ Queued' = Queued
        /\ Distinct(encrypted', "queueDecrypted", arrived)
        /\ DecryptJobs' \subseteq Envs(FirstBatch)
        /\ \A e \in Envs(FirstBatch) :
              Kind[MessageOf(e)] # "unknownUuid" => e \in DecryptJobs'
        /\ Distinct(encrypted', "decrypt", Id)
    BY ItemsQueued
  <1>3. /\ ZoneOnce(zoneQueue')
        /\ Waiting' \cap Envs(FirstBatch) = {}
        /\ Waiting' \cup Envs(FirstBatch) = Waiting
    BY <1>1, ZoneTail DEF IInv, ItemsOnce, DataType, QueueType, FirstBatch, Waiting
  <1>4. /\ DecryptedRows' = DecryptedRows
        /\ UNCHANGED <<Incoming, Adding, Handling, Errors, Dispatched, Deliveries>>
    BY <1>1, SameViews
  <1>5. batch'.items = FirstBatch /\ batch'.plain = <<>> /\ batch'.failed = {} /\ batch'.keys = {}
    BY <1>1 DEF NoBatch
  <1>6. Plain' = {} /\ Plaintexts' = {} /\ Stored' = {}
    BY <1>5 DEF Plain, Plaintexts, Stored, Range
  <1>7. Consumed' = Consumed
    BY <1>1, <1>5 DEF Open, Consumed
  <1>8. Pending' \subseteq Pending
    BY <1>2, <1>3, <1>4 DEF Pending
  <1>9. ReadFirst'
    <2>1. ~Idle
      BY <1>1 DEF Idle
    <2>2. QED
      BY <1>1, <2>1, NotIdle DEF IInv
  <1>10. ItemsOnce' /\ PlaintextsOnce'
    BY <1>1, <1>2, <1>3, <1>5 DEF IInv, ItemsOnce, PlaintextsOnce, MessageOf
  <1>11. ItemsApart'
    BY <1>2, <1>3, <1>4 DEF IInv, ItemsApart
  <1>12. PlaintextsApart'
    BY <1>1, <1>2, <1>4, <1>6, StayPlaintexts DEF IInv
  <1>13. PendingNotDone'
    BY <1>1, <1>4, <1>6, <1>8 DEF IInv, PendingNotDone
  <1>14. KeysInv'
    BY <1>1, <1>5, <1>6 DEF KeysInv
  <1>15. RowsInv' /\ KindsInv'
    BY <1>1, <1>4, StayRows, StayKinds DEF IInv
  <1>16. RemovedIsDone'
    BY <1>1, <1>4, <1>6, <1>7, <1>8, StayRemoved DEF IInv
  <1>17. ConsumedIsDurable'
    BY <1>1, <1>4, StayConsumed DEF IInv
  <1>18. AnsweredIsKept'
    <2>1. \A m \in ToSave \ onServer : KeptHere(m)'
      BY <1>1, <1>4, StayKept DEF IInv, AnsweredIsKept
    <2>2. \A e \in Envs(FirstBatch) : ToBeSaved(e) => e \in DecryptJobs'
      BY <1>2 DEF ToBeSaved, ToSave
    <2>3. QED
      BY <1>1, <1>5, <2>1, <2>2 DEF AnsweredIsKept, ToBeSaved, MessageOf
  <1>19. QED
    BY <1>9, <1>10, <1>11, <1>12, <1>13, <1>14, <1>15, <1>16, <1>17, <1>18 DEF IInv

\* What a decryption changes, by its outcome.
LEMMA DecryptedViews ==
    ASSUME DataType, IInv, Decrypt
    PROVE  \E e \in Envelopes, m \in Messages,
              o \in {"receipt", "decryption error", "old counter", "blocked",
                     "plaintext", "dropped by stop"} :
              /\ m = MessageOf(e) /\ e \in DecryptJobs
              /\ o = "receipt" => Kind[m] = "receipt"
              /\ o = "decryption error" => Kind[m] = "broken"
              /\ o = "old counter" => m \in advanced \cup batch.keys
              /\ o = "blocked" => Kind[m] = "blocked"
              /\ o \in {"blocked", "plaintext"} => m \notin advanced \cup batch.keys
              /\ DecryptJobs' = DecryptJobs \ {e} /\ Queued' = Queued
              /\ Distinct(encrypted', "decrypt", Id)
              /\ Distinct(encrypted', "queueDecrypted", arrived)
              /\ batch'.items = batch.items
              /\ batch'.keys = IF o \in {"blocked", "plaintext"}
                               THEN batch.keys \cup {m} ELSE batch.keys
              /\ batch'.plain = IF o = "plaintext"
                                THEN Append(batch.plain, e) ELSE batch.plain
              /\ Plain' = IF o = "plaintext" THEN Plain \cup {e} ELSE Plain
              /\ Stored' = IF o \in {"receipt", "blocked"} THEN Stored ELSE Stored \cup {e}
              /\ removeBatch' = IF o = "old counter"
                                THEN removeBatch \cup {e} ELSE removeBatch
              /\ Handling' = Handling /\ Distinct(decrypted', "handle", arrived)
              /\ Errors' = IF o = "decryption error" THEN Errors \cup {m} ELSE Errors
              /\ Dispatched' = Dispatched /\ Distinct(appQueue', "message", arrived)
              /\ Deliveries' = IF o = "receipt" THEN Deliveries \cup {m} ELSE Deliveries
  <1>1. PICK e \in Envelopes : e = Head(encrypted).envelope
    BY Decrypted
  <1>2. PICK m \in Messages : m = MessageOf(e)
    BY <1>1, Decrypted
  <1>3. PICK o : o = Outcome(m)
    OBVIOUS
  <1>4. /\ encrypted # <<>> /\ Head(encrypted).do = "decrypt" /\ encrypted' = Tail(encrypted)
        /\ arrived' = arrived
    BY DEF Decrypt, Next1, historyVars
  <1>5. /\ batch'.items = batch.items
        /\ batch'.plain = IF o = "plaintext" THEN Append(batch.plain, e) ELSE batch.plain
        /\ batch'.failed = IF Fails(o) THEN batch.failed \cup {e} ELSE batch.failed
        /\ batch'.keys = IF o \in {"plaintext", "blocked"}
                         THEN batch.keys \cup {m} ELSE batch.keys
        /\ Range(batch'.plain) =
              Range(batch.plain) \cup (IF o = "plaintext" THEN {e} ELSE {})
    BY <1>1, <1>2, <1>3, Decrypted
  <1>6. /\ removeBatch' = IF o = "old counter" THEN removeBatch \cup {e} ELSE removeBatch
        /\ decrypted' = IF o = "decryption error"
                        THEN Append(decrypted, Job("decryptionError", e)) ELSE decrypted
        /\ appQueue' = IF o = "receipt"
                       THEN Append(appQueue, Job("delivery", e)) ELSE appQueue
    BY <1>1, <1>2, <1>3 DEF Decrypt
  <1>7. /\ e \in DecryptJobs /\ DecryptJobs' = DecryptJobs \ {e} /\ Queued' = Queued
        /\ Distinct(encrypted', "decrypt", Id)
        /\ Distinct(encrypted', "queueDecrypted", arrived)
    BY <1>1, <1>4, PopEncrypted DEF IInv, ItemsOnce, PlaintextsOnce
  <1>8. /\ o \in {"receipt", "decryption error", "old counter", "blocked",
                  "plaintext", "dropped by stop"}
        /\ o = "receipt" => Kind[m] = "receipt"
        /\ o = "decryption error" => Kind[m] = "broken"
        /\ o = "old counter" => m \in advanced \cup batch.keys
        /\ o = "blocked" => Kind[m] = "blocked"
        /\ o \in {"blocked", "plaintext"} => m \notin advanced \cup batch.keys
    BY <1>3 DEF Outcome
  <1>9. /\ Handling' = Handling /\ Distinct(decrypted', "handle", arrived)
        /\ Errors' = IF o = "decryption error" THEN Errors \cup {m} ELSE Errors
    <2>1. Job("decryptionError", e) \in DecryptedJobs(Envelopes)
      BY NewTask DEF DecryptedJobs
    <2>2. CASE o = "decryption error"
      <3>1. decrypted' = Append(decrypted, Job("decryptionError", e))
        BY <1>6, <2>2
      <3>2. Handling' = Handling /\ Errors' = Errors \cup {m}
        BY <1>2, <1>4, <2>1, <3>1, PushDecrypted
      <3>3. Distinct(decrypted', "handle", arrived)
        BY <1>4, <2>1, <3>1, PushDecrypted DEF IInv, PlaintextsOnce
      <3>4. QED
        BY <2>2, <3>2, <3>3
    <2>3. CASE o # "decryption error"
      BY <1>4, <1>6, <2>3, SameViews DEF IInv, PlaintextsOnce
    <2>4. QED
      BY <2>2, <2>3
  <1>10. /\ Dispatched' = Dispatched /\ Distinct(appQueue', "message", arrived)
         /\ Deliveries' = IF o = "receipt" THEN Deliveries \cup {m} ELSE Deliveries
    <2>1. Job("delivery", e) \in AppJobs(Envelopes)
      BY NewTask DEF AppJobs
    <2>2. CASE o = "receipt"
      BY <1>2, <1>4, <1>6, <2>1, <2>2, PushApp DEF IInv, PlaintextsOnce
    <2>3. CASE o # "receipt"
      BY <1>4, <1>6, <2>3, SameViews DEF IInv, PlaintextsOnce
    <2>4. QED
      BY <2>2, <2>3
  <1>11. /\ Plain' = IF o = "plaintext" THEN Plain \cup {e} ELSE Plain
         /\ Stored' = IF o \in {"receipt", "blocked"} THEN Stored ELSE Stored \cup {e}
    BY <1>5, <1>8 DEF Plain, Stored, Fails
  <1>12. QED
    BY <1>2, <1>5, <1>6, <1>7, <1>8, <1>9, <1>10, <1>11

LEMMA InvDecrypt ==
    ASSUME DataType, IInv, Decrypt
    PROVE  IInv'
  <1>1. /\ UNCHANGED <<arrived, batchPhase, rows, advanced, gaveUp, onServer, appVars,
                       saved, saving, incoming, addBatch, zoneQueue>>
        /\ batchPhase = "decrypting" /\ encrypted # <<>>
    BY Decrypted DEF Decrypt, serverVars, appVars, dbVars, historyVars
  <1>2. PICK e \in Envelopes, m \in Messages,
             o \in {"receipt", "decryption error", "old counter", "blocked",
                    "plaintext", "dropped by stop"} :
           /\ m = MessageOf(e) /\ e \in DecryptJobs
           /\ o = "receipt" => Kind[m] = "receipt"
           /\ o = "decryption error" => Kind[m] = "broken"
           /\ o = "old counter" => m \in advanced \cup batch.keys
           /\ o = "blocked" => Kind[m] = "blocked"
           /\ o \in {"blocked", "plaintext"} => m \notin advanced \cup batch.keys
           /\ DecryptJobs' = DecryptJobs \ {e} /\ Queued' = Queued
           /\ Distinct(encrypted', "decrypt", Id)
           /\ Distinct(encrypted', "queueDecrypted", arrived)
           /\ batch'.items = batch.items
           /\ batch'.keys = IF o \in {"blocked", "plaintext"}
                            THEN batch.keys \cup {m} ELSE batch.keys
           /\ batch'.plain = IF o = "plaintext"
                             THEN Append(batch.plain, e) ELSE batch.plain
           /\ Plain' = IF o = "plaintext" THEN Plain \cup {e} ELSE Plain
           /\ Stored' = IF o \in {"receipt", "blocked"} THEN Stored ELSE Stored \cup {e}
           /\ removeBatch' = IF o = "old counter"
                             THEN removeBatch \cup {e} ELSE removeBatch
           /\ Handling' = Handling /\ Distinct(decrypted', "handle", arrived)
           /\ Errors' = IF o = "decryption error" THEN Errors \cup {m} ELSE Errors
           /\ Dispatched' = Dispatched /\ Distinct(appQueue', "message", arrived)
           /\ Deliveries' = IF o = "receipt" THEN Deliveries \cup {m} ELSE Deliveries
    BY DecryptedViews
  <1>3. DecryptedRows' = DecryptedRows /\ UNCHANGED <<Incoming, Adding, Waiting, Open>> /\ Open
    BY <1>1, SameViews DEF Open
  <1>4. Plaintexts' = IF o = "plaintext" THEN Plaintexts \cup {m} ELSE Plaintexts
    BY <1>1, <1>2 DEF Plaintexts, MessageOf
  <1>5. /\ Pending' = Pending \ {e} /\ e \in Pending
        /\ e \notin Incoming /\ e \notin DecryptedRows \cup Stored
    BY <1>2, <1>3 DEF Pending, IInv, ItemsApart, PendingNotDone
  <1>6. Plaintexts \subseteq batch.keys /\ Plain \subseteq Stored
        /\ batch.keys \cap advanced = {} /\ batch.keys \cap ToSave \subseteq Plaintexts
    BY <1>1, <1>3 DEF IInv, KeysInv, Plain, Stored
  <1>7. Consumed = advanced \cup batch.keys /\ Consumed' = advanced \cup batch'.keys
    BY <1>1, <1>3 DEF Consumed
  <1>8. ReadFirst'
    <2>1. ~Idle
      BY <1>1 DEF Idle
    <2>2. QED
      BY <1>1, <2>1, NotIdle DEF IInv
  <1>9. ItemsOnce'
    BY <1>1, <1>2 DEF IInv, ItemsOnce
  <1>10. ItemsApart'
    BY <1>2, <1>3, StayApart DEF IInv
  <1>11. PendingNotDone'
    BY <1>1, <1>2, <1>3, <1>5 DEF IInv, PendingNotDone
  <1>12. PlaintextsOnce'
    <2>1. \A i, j \in DOMAIN batch'.plain : arrived[batch'.plain[i]] = arrived[batch'.plain[j]] => i = j
      <3>1. CASE o = "plaintext"
        <4>1. batch.plain \in Seq(Envelopes)
          BY DEF DataType, BatchType, Batches
        <4>2. \A i \in DOMAIN batch.plain : arrived[batch.plain[i]] \in Plaintexts
          BY DEF Plaintexts, Plain, Range, MessageOf
        <4>3. m \notin Plaintexts
          BY <1>2, <1>6, <3>1
        <4> DEFINE n == Len(batch.plain) + 1
        <4>4. /\ DOMAIN batch'.plain = DOMAIN batch.plain \cup {n} /\ batch'.plain[n] = e
              /\ \A i \in DOMAIN batch.plain : batch'.plain[i] = batch.plain[i]
          BY <1>2, <3>1, <4>1, AppendFacts
        <4> HIDE DEF n
        <4>5. \A i, j \in DOMAIN batch.plain :
                 arrived[batch.plain[i]] = arrived[batch.plain[j]] => i = j
          BY DEF IInv, PlaintextsOnce, MessageOf
        <4>6. arrived[e] = m
          BY <1>2 DEF MessageOf
        <4>7. QED
          BY <4>2, <4>3, <4>4, <4>5, <4>6
      <3>2. CASE o # "plaintext"
        BY <1>2, <3>2 DEF IInv, PlaintextsOnce, MessageOf
      <3>3. QED
        BY <3>1, <3>2
    <2>2. QED
      BY <1>1, <1>2, <2>1 DEF PlaintextsOnce, MessageOf
  <1>13. PlaintextsApart'
    <2>1. CASE o # "plaintext"
      BY <1>1, <1>2, <1>4, <2>1, StayPlaintexts DEF IInv
    <2>2. CASE o = "plaintext"
      <3>1. m \notin Queued \cup Handling \cup Dispatched \cup Given
        BY <1>2, <2>2 DEF IInv, PlaintextsApart
      <3>2. /\ Plaintexts' = Plaintexts \cup {m}
            /\ UNCHANGED <<Queued, Handling, Dispatched, Given, inMemory, InJobs, advanced>>
            /\ (JobsOnce => JobsOnce')
        BY <1>1, <1>2, <1>4, <2>2, SameViews
      <3>3. PlaintextsApart
        BY DEF IInv
      <3>4. /\ Queued \cap (Handling \cup Dispatched \cup (Plaintexts \cup {m}) \cup Given) = {}
            /\ Handling \cap (Dispatched \cup (Plaintexts \cup {m}) \cup Given) = {}
            /\ Dispatched \cap ((Plaintexts \cup {m}) \cup Given) = {}
            /\ (Plaintexts \cup {m}) \cap Given = {}
        BY <3>1, <3>3 DEF PlaintextsApart
      <3>5. QED
        BY <3>2, <3>3, <3>4 DEF PlaintextsApart
    <2>3. QED
      BY <2>1, <2>2
  <1>14. KeysInv'
    <2>1. batch'.keys \cap advanced = {}
      BY <1>2, <1>6
    <2>2. batch'.keys \cap ToSave \subseteq Plaintexts'
      <3>1. o = "blocked" => m \notin ToSave
        BY <1>2 DEF ToSave
      <3>2. QED
        BY <1>2, <1>4, <1>6, <3>1
    <2>3. Plaintexts' \subseteq batch'.keys
      BY <1>2, <1>4, <1>6
    <2>4. QED
      BY <1>1, <2>1, <2>2, <2>3 DEF KeysInv, ToSave
  <1>15. RowsInv'
    BY <1>1, <1>3, StayRows DEF IInv
  <1>16. KindsInv'
    BY <1>2 DEF IInv, KindsInv
  <1>17. RemovedIsDone'
    <2>1. ASSUME NEW x \in removeBatch PROVE Done(x)'
      <3>1. Done(x)
        BY <2>1 DEF IInv, RemovedIsDone
      <3>2. x \in Pending' \cup Plain' \cup DecryptedRows' => x \in Pending \cup Plain \cup DecryptedRows
        BY <1>2, <1>3, <1>5
      <3>3. Consumed \subseteq Consumed'
        BY <1>2, <1>7
      <3>4. QED
        BY <1>1, <3>1, <3>2, <3>3, StayDone
    <2>2. ASSUME o = "old counter" PROVE Done(e)'
      <3>1. e \notin Pending' \cup Plain' \cup DecryptedRows'
        BY <1>2, <1>3, <1>5, <1>6, <2>2
      <3>2. m \in Consumed'
        BY <1>2, <1>7, <2>2
      <3>3. QED
        BY <1>1, <1>2, <3>1, <3>2 DEF Done, MessageOf
    <2>3. QED
      BY <1>2, <2>1, <2>2 DEF RemovedIsDone
  <1>18. ConsumedIsDurable'
    BY <1>1, <1>3, StayConsumed DEF IInv
  <1>19. AnsweredIsKept'
    <2>1. \A x \in ToSave \ onServer : KeptHere(x)'
      BY <1>1, <1>3, StayKept DEF IInv, AnsweredIsKept
    <2>2. \A x \in Envs(batch.items) : ToBeSaved(x) => x \in Stored' \cup DecryptJobs'
      <3>1. o \in {"receipt", "blocked"} => ~ToBeSaved(e)
        BY <1>2 DEF ToBeSaved, ToSave
      <3>2. \A x \in Envs(batch.items) : ToBeSaved(x) => x \in Stored \cup DecryptJobs
        BY <1>1 DEF IInv, AnsweredIsKept
      <3>3. QED
        BY <1>2, <3>1, <3>2
    <2>3. QED
      BY <1>1, <1>2, <2>1, <2>2 DEF AnsweredIsKept, ToBeSaved, MessageOf, ToSave
  <1>20. QED
    BY <1>8, <1>9, <1>10, <1>11, <1>12, <1>13, <1>14, <1>15, <1>16, <1>17, <1>18, <1>19
       DEF IInv
-----------------------------------------------------------------------------
(* The table is read and cleared *)

LEMMA InvCacheRemove ==
    ASSUME DataType, IInv, CacheRemove
    PROVE  IInv'
  <1>1. /\ UNCHANGED <<arrived, batchVars, advanced, gaveUp, onServer, appVars, saved, saving>>
        /\ UNCHANGED <<incoming, addBatch, zoneQueue, encrypted, decrypted, appQueue>>
        /\ rows' = [e \in DOMAIN rows \ removeBatch |-> rows[e]]
        /\ removeBatch' = {} /\ removeBatch # {}
        /\ batchPhase \in {"none", "acking"}
    BY DEF CacheRemove, serverVars, queueVars, appVars, historyVars, ZoneFree
  <1>2. UNCHANGED <<batch, batchPhase>>
    BY <1>1 DEF batchVars
  <1>3. /\ UNCHANGED <<Incoming, Adding, Waiting, DecryptJobs>>
        /\ UNCHANGED <<Queued, Handling, Dispatched, Errors, Deliveries>>
        /\ UNCHANGED <<Plain, Plaintexts, Stored, Consumed>>
    BY <1>1, <1>2, SameViews
  <1>4. Pending' = Pending /\ Consumed = advanced
    BY <1>1, <1>3 DEF Pending, Consumed, Open
  <1>5. DOMAIN rows' = DOMAIN rows \ removeBatch /\ DecryptedRows' = DecryptedRows \ removeBatch
    BY <1>1 DEF DecryptedRows
  <1>6. ReadFirst'
    <2>1. ~Idle
      BY <1>1 DEF Idle
    <2>2. QED
      BY <1>1, <2>1, NotIdle DEF IInv
  <1>7. ItemsOnce' /\ PlaintextsOnce'
    BY <1>1, <1>2 DEF IInv, ItemsOnce, PlaintextsOnce, MessageOf
  <1>8. ItemsApart' /\ PlaintextsApart'
    BY <1>1, <1>3, StayApart, StayPlaintexts DEF IInv
  <1>9. PendingNotDone'
    BY <1>2, <1>3, <1>4, <1>5, StayPending DEF IInv
  <1>10. KeysInv'
    BY <1>1, StayKeys DEF IInv
  <1>11. RowsInv' /\ KindsInv'
    BY <1>1, <1>3, <1>5, StayRows, StayKinds DEF IInv
  <1>12. RemovedIsDone'
    BY <1>1 DEF RemovedIsDone
  <1>13. ASSUME NEW m \in ToSave, Durable(m) PROVE Durable(m)'
    <2>1. CASE m \in Range(saved) \cup gaveUp
      BY <1>1, <2>1 DEF Durable
    <2>2. CASE \E e \in DecryptedRows : MessageOf(e) = m
      <3>1. PICK e \in DecryptedRows : MessageOf(e) = m
        BY <2>2
      <3>2. CASE e \in removeBatch
        <4>1. Done(e) /\ Kind[m] = "message"
          BY <3>2 DEF IInv, RemovedIsDone, ToSave
        <4>2. m \in Range(saved)
          BY <3>1, <4>1 DEF Done
        <4>3. QED
          BY <2>1, <4>2
      <3>3. CASE e \notin removeBatch
        BY <1>1, <1>5, <3>1, <3>3 DEF Durable, MessageOf
      <3>4. QED
        BY <3>2, <3>3
    <2>3. QED
      BY <1>13, <2>1, <2>2 DEF Durable
  <1>14. ASSUME NEW m \in ToSave, KeptHere(m) PROVE KeptHere(m)'
    <2>1. CASE Durable(m)
      BY <1>13, <2>1 DEF KeptHere
    <2>2. CASE \E e \in DOMAIN rows : MessageOf(e) = m
      <3>1. PICK e \in DOMAIN rows : MessageOf(e) = m
        BY <2>2
      <3>2. CASE e \in removeBatch
        <4>1. Done(e) /\ Kind[m] = "message"
          BY <3>2 DEF IInv, RemovedIsDone, ToSave
        <4>2. m \in Range(saved) \/ m \in advanced
          BY <1>4, <3>1, <4>1 DEF Done
        <4>3. Durable(m)
          BY <4>2 DEF Durable, IInv, ConsumedIsDurable
        <4>4. QED
          BY <2>1, <4>3
      <3>3. CASE e \notin removeBatch
        BY <1>1, <1>5, <3>1, <3>3 DEF KeptHere, MessageOf
      <3>4. QED
        BY <3>2, <3>3
    <2>3. QED
      BY <1>14, <2>1, <2>2 DEF KeptHere
  <1>15. ConsumedIsDurable'
    <2>1. \A m \in ToSave \cap advanced : Durable(m)'
      BY <1>13 DEF IInv, ConsumedIsDurable
    <2>2. QED
      BY <1>1, <2>1 DEF ConsumedIsDurable, ToSave
  <1>16. AnsweredIsKept'
    <2>1. \A m \in ToSave \ onServer : KeptHere(m)'
      BY <1>14 DEF IInv, AnsweredIsKept
    <2>2. ASSUME batchPhase = "acking", NEW e \in Envs(batch.items), ToBeSaved(e)
          PROVE  KeptHere(arrived[e])'
      <3>1. PICK m \in ToSave : m = arrived[e] /\ KeptHere(m)
        BY <2>2 DEF ToBeSaved, MessageOf, IInv, AnsweredIsKept
      <3>2. KeptHere(m)'
        BY <1>14, <3>1
      <3>3. QED
        BY <1>1, <3>1, <3>2
    <2>3. batchPhase = "acking" =>
             \A e \in Envs(batch.items) : ToBeSaved(e) => KeptHere(arrived[e])'
      BY <2>2
    <2>4. QED
      BY <1>1, <1>2, <2>1, <2>3 DEF AnsweredIsKept, ToBeSaved, MessageOf, ToSave
  <1>17. QED
    BY <1>6, <1>7, <1>8, <1>9, <1>10, <1>11, <1>12, <1>15, <1>16 DEF IInv

\* What is read from the table: plaintexts to handle, and envelopes to try again.
LEMMA RowsQueued ==
    ASSUME DataType, IInv, QueueAllCached
    PROVE  /\ Idle /\ Incoming' = Incoming /\ ReadFirst'
           /\ Distinct(incoming', "decryptAndCache", Id)
           /\ DecryptedRows' = {e \in DOMAIN rows' : e \in DecryptedRows}
           /\ DOMAIN rows' \subseteq DOMAIN rows
           /\ Adding' = DOMAIN rows' \ DecryptedRows' /\ Once(addBatch')
           /\ DecryptJobs' = {} /\ Distinct(encrypted', "decrypt", Id)
           /\ Queued' = {MessageOf(e) : e \in DecryptedRows'}
           /\ Distinct(encrypted', "queueDecrypted", arrived)
  <1> DEFINE new == [i \in DOMAIN DoneRows |-> Job("queueDecrypted", DoneRows[i])]
             again == [i \in DOMAIN AgainRows |->
                          Item(AgainRows[i], Kept[AgainRows[i]].attempts)]
             T == {e \in DOMAIN Kept : Kept[e].decrypted}
             U == {e \in DOMAIN Kept : ~Kept[e].decrypted}
  <1>1. /\ incoming # <<>> /\ incoming' = Tail(incoming) /\ Head(incoming).do = "queueAllCached"
        /\ arrived' = arrived /\ rows' = Kept
        /\ encrypted' = encrypted \o new /\ addBatch' = addBatch \o again
    BY Zenon DEF QueueAllCached, Next1, DoneRows, AgainRows
  <1>2. Idle
    <2>1. 1 \in DOMAIN incoming /\ incoming[1].do = "queueAllCached"
      BY <1>1, TailFacts DEF DataType, QueueType
    <2>2. QED
      BY <2>1 DEF IInv, ReadFirst
  <1>3. Incoming' = Incoming /\ Distinct(incoming', "decryptAndCache", Id)
    BY <1>1, PopIncoming DEF IInv, ItemsOnce
  <1>4. ReadFirst'
    BY <1>1, FirstRuns DEF IInv
  <1>5. /\ DOMAIN Kept \subseteq DOMAIN rows
        /\ \A e \in DOMAIN Kept : Kept[e].decrypted = rows[e].decrypted
    BY RowsRead
  <1>6. DecryptedRows' = T /\ T = {e \in DOMAIN rows' : e \in DecryptedRows}
    BY <1>1, <1>5 DEF DecryptedRows
  <1>7. /\ DoneRows \in Seq(T) /\ Range(DoneRows) = T
        /\ \A i, j \in DOMAIN DoneRows : DoneRows[i] = DoneRows[j] => i = j
    BY RowsListed DEF DoneRows
  <1>8. /\ AgainRows \in Seq(U) /\ Range(AgainRows) = U
        /\ \A i, j \in DOMAIN AgainRows : AgainRows[i] = AgainRows[j] => i = j
    BY RowsListed DEF AgainRows
  <1>9. addBatch' = again /\ encrypted' = new
    <2>1. encrypted = <<>> /\ addBatch = <<>>
      BY <1>2 DEF Idle
    <2>2. new \in Seq({new[i] : i \in DOMAIN new}) /\ again \in Seq({again[i] : i \in DOMAIN again})
      BY <1>7, <1>8
    <2> HIDE DEF new, again
    <2>3. QED
      BY <1>1, <2>1, <2>2
  <1>10. Adding' = U /\ Once(addBatch')
    <2>1. DOMAIN again = DOMAIN AgainRows /\ \A i \in DOMAIN again : again[i].envelope = AgainRows[i]
      BY DEF Item
    <2> HIDE DEF again
    <2>2. Envs(again) = Range(AgainRows)
      BY <2>1 DEF Envs, Range
    <2>3. Once(again)
      BY <1>8, <2>1 DEF Once
    <2>4. QED
      BY <1>8, <1>9, <2>2, <2>3 DEF Adding
  <1>11. U = DOMAIN rows' \ DecryptedRows'
    BY <1>1, <1>6
  <1>12. \A e, f \in T : arrived[e] = arrived[f] => e = f
    BY <1>6 DEF IInv, RowsInv, MessageOf
  <1>13. \A i, j \in DOMAIN DoneRows : arrived[DoneRows[i]] = arrived[DoneRows[j]] => i = j
    <2>1. \A i \in DOMAIN DoneRows : DoneRows[i] \in T
      BY <1>7
    <2>2. QED
      BY <1>7, <1>12, <2>1
  <1>14. Distinct(new, "queueDecrypted", arrived)
    BY <1>13, DistinctJobs
  <1>15. /\ Labels(new, "decrypt", Id) = {}
         /\ Labels(new, "queueDecrypted", arrived) = {arrived[DoneRows[i]] : i \in DOMAIN DoneRows}
    <2>1. Labels(new, "decrypt", Id) = {}
      BY LabelsOfOthers
    <2>2. Labels(new, "queueDecrypted", arrived) = {arrived[DoneRows[i]] : i \in DOMAIN DoneRows}
      BY LabelsOfJobs
    <2>3. QED
      BY <2>1, <2>2
  <1>16. {arrived[DoneRows[i]] : i \in DOMAIN DoneRows} = {MessageOf(e) : e \in T}
    <2>1. T = {DoneRows[i] : i \in DOMAIN DoneRows}
      BY <1>7 DEF Range
    <2> HIDE DEF T
    <2>2. QED
      BY <2>1 DEF MessageOf
  <1>17. Distinct(new, "decrypt", Id)
    <2>1. \A i \in DOMAIN new : new[i].do = "queueDecrypted"
      BY DEF Job
    <2> HIDE DEF new
    <2>2. QED
      BY <2>1 DEF Distinct
  <1> HIDE DEF new, T, U
  <1>18. DecryptJobs' = {} /\ Queued' = {MessageOf(e) : e \in T}
    BY <1>1, <1>9, <1>15, <1>16 DEF DecryptJobs, Queued
  <1>19. QED
    BY <1>1, <1>2, <1>3, <1>4, <1>5, <1>6, <1>9, <1>10, <1>11, <1>14, <1>17, <1>18

LEMMA InvQueueAllCached ==
    ASSUME DataType, IInv, QueueAllCached
    PROVE  IInv'
  <1>1. /\ UNCHANGED <<arrived, batchVars, advanced, onServer, appVars, saved, saving>>
        /\ UNCHANGED <<zoneQueue, decrypted, appQueue, removeBatch>>
        /\ rows' = Kept
        /\ gaveUp' = gaveUp \cup {MessageOf(e) : e \in DOMAIN rows \ DOMAIN rows'}
    BY Zenon DEF QueueAllCached, serverVars, appVars, Kept
  <1>2. UNCHANGED <<batch, batchPhase>>
    BY <1>1 DEF batchVars
  <1>3. /\ Idle /\ Incoming' = Incoming /\ ReadFirst'
        /\ Distinct(incoming', "decryptAndCache", Id)
        /\ DecryptedRows' = {e \in DOMAIN rows' : e \in DecryptedRows}
        /\ DOMAIN rows' \subseteq DOMAIN rows
        /\ Adding' = DOMAIN rows' \ DecryptedRows' /\ Once(addBatch')
        /\ DecryptJobs' = {} /\ Distinct(encrypted', "decrypt", Id)
        /\ Queued' = {MessageOf(e) : e \in DecryptedRows'}
        /\ Distinct(encrypted', "queueDecrypted", arrived)
    BY RowsQueued
  <1>4. /\ UNCHANGED <<Waiting, Handling, Errors, Dispatched, Deliveries>>
        /\ UNCHANGED <<Plain, Plaintexts, Stored, Consumed, Open>>
    BY <1>1, <1>2, SameViews
  <1>5. /\ removeBatch = {} /\ batchPhase = "none"
        /\ inMemory = {} /\ InJobs = {} /\ failedHere = {}
        /\ zoneQueue = <<>> /\ decrypted = <<>> /\ appQueue = <<>>
    BY <1>3 DEF Idle
  <1>6. Waiting = {} /\ Handling = {} /\ Dispatched = {}
    BY <1>5 DEF Waiting, Zoned, Handling, Dispatched, Labels
  <1>7. Plain = {} /\ Plaintexts = {} /\ Stored = {}
    <2>1. batch.plain = <<>> /\ batch.failed = {}
      BY <1>5 DEF IInv, KeysInv, NoBatch
    <2>2. QED
      BY <2>1 DEF Plain, Plaintexts, Stored, Range
  <1>8. ItemsOnce'
    BY <1>1, <1>3 DEF IInv, ItemsOnce
  <1>9. PlaintextsOnce'
    BY <1>1, <1>2, <1>3 DEF IInv, PlaintextsOnce, MessageOf
  <1>10. Incoming \cap DOMAIN rows = {}
    BY DEF IInv, PendingNotDone
  <1>11. ItemsApart'
    BY <1>3, <1>4, <1>6, <1>10 DEF ItemsApart
  <1>12. PendingNotDone'
    <2>1. DecryptedRows' \subseteq DOMAIN rows'
      BY <1>3
    <2>2. Pending' \cap DecryptedRows' = {}
      BY <1>3, <1>4, <1>6, <1>10, <2>1 DEF Pending
    <2>3. QED
      BY <1>2, <1>3, <1>4, <1>5, <1>7, <1>10, <2>2 DEF PendingNotDone
  <1>13. PlaintextsApart'
    <2>1. Queued' \subseteq advanced
      BY <1>3 DEF IInv, RowsInv
    <2>2. /\ Given' = {} /\ InJobs' = {} /\ inMemory' = {}
          /\ JobsOnce'
      BY <1>1, <1>5, SameViews DEF Given, IInv, PlaintextsApart
    <2>3. QED
      BY <1>1, <1>4, <1>5, <1>6, <1>7, <2>1, <2>2 DEF PlaintextsApart
  <1>14. KeysInv'
    BY <1>1, StayKeys DEF IInv
  <1>15. RowsInv' /\ KindsInv'
    <2>1. DecryptedRows' \subseteq DecryptedRows
      BY <1>3
    <2>2. QED
      BY <1>1, <1>4, <2>1, StayRows, StayKinds DEF IInv
  <1>16. RemovedIsDone'
    BY <1>1, <1>5 DEF RemovedIsDone
  <1>17. ASSUME NEW m, Durable(m) PROVE Durable(m)'
    <2>1. CASE m \in Range(saved) \cup gaveUp
      BY <1>1, <2>1 DEF Durable
    <2>2. CASE \E e \in DecryptedRows : MessageOf(e) = m
      <3>1. PICK e \in DecryptedRows : MessageOf(e) = m
        BY <2>2
      <3>2. e \in DecryptedRows' \/ m \in gaveUp'
        BY <1>1, <1>3, <3>1 DEF DecryptedRows
      <3>3. QED
        BY <1>1, <3>1, <3>2 DEF Durable, MessageOf
    <2>3. QED
      BY <1>17, <2>1, <2>2 DEF Durable
  <1>18. ASSUME NEW m, KeptHere(m) PROVE KeptHere(m)'
    <2>1. CASE Durable(m)
      BY <1>17, <2>1 DEF KeptHere
    <2>2. CASE \E e \in DOMAIN rows : MessageOf(e) = m
      <3>1. PICK e \in DOMAIN rows : MessageOf(e) = m
        BY <2>2
      <3>2. e \in DOMAIN rows' \/ m \in gaveUp'
        BY <1>1, <3>1
      <3>3. QED
        BY <1>1, <3>1, <3>2 DEF KeptHere, Durable, MessageOf
    <2>3. QED
      BY <1>18, <2>1, <2>2 DEF KeptHere
  <1>19. ConsumedIsDurable'
    <2>1. \A m \in ToSave \cap advanced : Durable(m)'
      BY <1>17 DEF IInv, ConsumedIsDurable
    <2>2. QED
      BY <1>1, <2>1 DEF ConsumedIsDurable, ToSave
  <1>20. AnsweredIsKept'
    <2>1. \A m \in ToSave \ onServer : KeptHere(m)'
      BY <1>18 DEF IInv, AnsweredIsKept
    <2>2. QED
      BY <1>1, <1>2, <1>5, <2>1 DEF AnsweredIsKept, ToSave
  <1>21. QED
    BY <1>3, <1>8, <1>9, <1>11, <1>12, <1>13, <1>14, <1>15, <1>16, <1>19, <1>20 DEF IInv

\* The query is rejected: rows may be gone all the same.
LEMMA InvQueueAllCachedRejected ==
    ASSUME DataType, IInv, QueueAllCachedRejected
    PROVE  IInv'
  <1>1. /\ UNCHANGED <<arrived, batchVars, advanced, onServer, appVars, saved>>
        /\ UNCHANGED <<addBatch, zoneQueue, encrypted, decrypted, appQueue, removeBatch>>
        /\ incoming # <<>> /\ incoming' = Tail(incoming) /\ Head(incoming).do = "queueAllCached"
        /\ rows' \in {rows, Kept}
        /\ gaveUp' = gaveUp \cup {MessageOf(e) : e \in DOMAIN rows \ DOMAIN rows'}
    BY DEF QueueAllCachedRejected, Next1, serverVars
  <1>2. UNCHANGED <<batch, batchPhase>>
    BY <1>1 DEF batchVars
  <1>3. Idle
    <2>1. 1 \in DOMAIN incoming /\ incoming[1].do = "queueAllCached"
      BY <1>1, TailFacts DEF DataType, QueueType
    <2>2. QED
      BY <2>1 DEF IInv, ReadFirst
  <1>4. /\ Incoming' = Incoming /\ Distinct(incoming', "decryptAndCache", Id) /\ ReadFirst'
    BY <1>1, PopIncoming, FirstRuns DEF IInv, ItemsOnce
  <1>5. /\ DOMAIN rows' \subseteq DOMAIN rows
        /\ DecryptedRows' = {e \in DOMAIN rows' : e \in DecryptedRows}
    <2>1. /\ DOMAIN rows' \subseteq DOMAIN rows
          /\ \A e \in DOMAIN rows' : rows'[e].decrypted = rows[e].decrypted
      BY <1>1, RowsRead
    <2>2. QED
      BY <2>1 DEF DecryptedRows
  <1>6. /\ UNCHANGED <<Adding, Waiting, DecryptJobs, Queued, Handling, Errors, Dispatched>>
        /\ UNCHANGED <<Deliveries, Plain, Plaintexts, Stored, Consumed>>
    BY <1>1, <1>2, SameViews
  <1>7. Pending' = Pending
    BY <1>4, <1>6 DEF Pending
  <1>8. removeBatch = {} /\ batchPhase = "none"
    BY <1>3 DEF Idle
  <1>9. ItemsOnce' /\ PlaintextsOnce'
    BY <1>1, <1>2, <1>4 DEF IInv, ItemsOnce, PlaintextsOnce, MessageOf
  <1>10. ItemsApart' /\ PlaintextsApart'
    BY <1>1, <1>4, <1>6, StayApart, StayPlaintexts DEF IInv
  <1>11. PendingNotDone'
    <2>1. DecryptedRows' \subseteq DecryptedRows
      BY <1>5
    <2>2. QED
      BY <1>2, <1>4, <1>5, <1>6, <1>7, <2>1, StayPending DEF IInv
  <1>12. KeysInv'
    BY <1>1, StayKeys DEF IInv
  <1>13. RowsInv' /\ KindsInv'
    <2>1. DecryptedRows' \subseteq DecryptedRows
      BY <1>5
    <2>2. QED
      BY <1>1, <1>6, <2>1, StayRows, StayKinds DEF IInv
  <1>14. RemovedIsDone'
    BY <1>1, <1>8 DEF RemovedIsDone
  <1>15. ASSUME NEW m, Durable(m) PROVE Durable(m)'
    <2>1. CASE m \in Range(saved) \cup gaveUp
      BY <1>1, <2>1 DEF Durable
    <2>2. CASE \E e \in DecryptedRows : MessageOf(e) = m
      <3>1. PICK e \in DecryptedRows : MessageOf(e) = m
        BY <2>2
      <3>2. e \in DecryptedRows' \/ m \in gaveUp'
        BY <1>1, <1>5, <3>1 DEF DecryptedRows
      <3>3. QED
        BY <1>1, <3>1, <3>2 DEF Durable, MessageOf
    <2>3. QED
      BY <1>15, <2>1, <2>2 DEF Durable
  <1>16. ASSUME NEW m, KeptHere(m) PROVE KeptHere(m)'
    <2>1. CASE Durable(m)
      BY <1>15, <2>1 DEF KeptHere
    <2>2. CASE \E e \in DOMAIN rows : MessageOf(e) = m
      <3>1. PICK e \in DOMAIN rows : MessageOf(e) = m
        BY <2>2
      <3>2. e \in DOMAIN rows' \/ m \in gaveUp'
        BY <1>1, <3>1
      <3>3. QED
        BY <1>1, <3>1, <3>2 DEF KeptHere, Durable, MessageOf
    <2>3. QED
      BY <1>16, <2>1, <2>2 DEF KeptHere
  <1>17. ConsumedIsDurable'
    <2>1. \A m \in ToSave \cap advanced : Durable(m)'
      BY <1>15 DEF IInv, ConsumedIsDurable
    <2>2. QED
      BY <1>1, <2>1 DEF ConsumedIsDurable, ToSave
  <1>18. AnsweredIsKept'
    <2>1. \A m \in ToSave \ onServer : KeptHere(m)'
      BY <1>16 DEF IInv, AnsweredIsKept
    <2>2. QED
      BY <1>1, <1>2, <1>8, <2>1 DEF AnsweredIsKept, ToSave
  <1>19. QED
    BY <1>4, <1>9, <1>10, <1>11, <1>12, <1>13, <1>14, <1>17, <1>18 DEF IInv

-----------------------------------------------------------------------------
(* The process starts, and the server sends *)

LEMMA InvInit == Init => IInv
  <1> SUFFICES ASSUME Init PROVE IInv
    OBVIOUS
  <1>1. /\ incoming = <<Job("queueAllCached", 0)>>
        /\ addBatch = <<>> /\ zoneQueue = <<>> /\ batchPhase = "none" /\ batch = NoBatch
        /\ encrypted = <<>> /\ decrypted = <<>> /\ appQueue = <<>> /\ removeBatch = {}
        /\ inMemory = {} /\ saving = <<>> /\ failedHere = {} /\ onServer = Messages
        /\ jobQueue = [c \in Conversations |-> <<>>]
        /\ rows = << >> /\ advanced = {}
    BY DEF Init
  <1>2. InJobs = {} /\ JobsOnce
    BY <1>1 DEF InJobs, JobsOnce, JobMessages
  <1>3. Idle /\ ReadFirst
    BY <1>1, <1>2 DEF Idle, ReadFirst
  <1>4. Incoming = {} /\ Distinct(incoming, "decryptAndCache", Id)
    BY <1>1 DEF Incoming, Labels, Distinct, Job
  <1>5. Adding = {} /\ Waiting = {} /\ DecryptJobs = {} /\ Queued = {}
    BY <1>1 DEF Adding, Waiting, DecryptJobs, Queued, Envs, Zoned, Labels
  <1>6. Handling = {} /\ Errors = {} /\ Dispatched = {} /\ Deliveries = {}
    BY <1>1 DEF Handling, Errors, Dispatched, Deliveries, Labels
  <1>7. Plain = {} /\ Plaintexts = {} /\ DecryptedRows = {} /\ ~Open /\ DOMAIN rows = {}
    BY <1>1 DEF Plain, Plaintexts, DecryptedRows, Open, NoBatch, Range
  <1>8. ItemsOnce
    BY <1>1, <1>4 DEF ItemsOnce, Once, ZoneOnce, Distinct
  <1>9. PlaintextsOnce
    BY <1>1 DEF PlaintextsOnce, Distinct, NoBatch
  <1>10. ItemsApart /\ PlaintextsApart
    BY <1>1, <1>2, <1>4, <1>5, <1>6, <1>7 DEF ItemsApart, PlaintextsApart, Given
  <1>11. PendingNotDone
    BY <1>1, <1>4, <1>5 DEF PendingNotDone, Pending
  <1>12. KeysInv /\ RowsInv /\ RemovedIsDone /\ KindsInv
    BY <1>1, <1>6, <1>7 DEF KeysInv, RowsInv, RemovedIsDone, KindsInv
  <1>13. ConsumedIsDurable
    BY <1>1 DEF ConsumedIsDurable
  <1>14. AnsweredIsKept
    BY <1>1 DEF AnsweredIsKept, ToSave
  <1>15. QED
    BY <1>3, <1>8, <1>9, <1>10, <1>11, <1>12, <1>13, <1>14 DEF IInv

LEMMA InvCrashAndRestart ==
    ASSUME DataType, IInv, CrashAndRestart
    PROVE  IInv'
  <1>1. /\ incoming' = <<Job("queueAllCached", 0)>>
        /\ addBatch' = <<>> /\ zoneQueue' = <<>> /\ batchPhase' = "none" /\ batch' = NoBatch
        /\ encrypted' = <<>> /\ decrypted' = <<>> /\ appQueue' = <<>> /\ removeBatch' = {}
        /\ inMemory' = {} /\ saving' = <<>> /\ failedHere' = {}
        /\ jobQueue' = [c \in Conversations |-> <<>>]
        /\ UNCHANGED <<onServer, rows, advanced, saved, arrived, gaveUp>>
    BY DEF CrashAndRestart, dbVars
  <1>2. InJobs' = {} /\ JobsOnce'
    BY <1>1 DEF InJobs, JobsOnce, JobMessages
  <1>3. Idle' /\ ReadFirst'
    BY <1>1, <1>2 DEF Idle, ReadFirst
  <1>4. Incoming' = {} /\ Distinct(incoming', "decryptAndCache", Id)
    <2>1. \A i \in DOMAIN incoming' : incoming'[i].do = "queueAllCached"
      BY <1>1 DEF Job
    <2>2. QED
      BY <2>1 DEF Incoming, Labels, Distinct
  <1>5. Adding' = {} /\ Waiting' = {} /\ DecryptJobs' = {} /\ Queued' = {}
    BY <1>1 DEF Adding, Waiting, DecryptJobs, Queued, Envs, Zoned, Labels
  <1>6. Handling' = {} /\ Errors' = {} /\ Dispatched' = {} /\ Deliveries' = {}
    BY <1>1 DEF Handling, Errors, Dispatched, Deliveries, Labels
  <1>7. Plain' = {} /\ Plaintexts' = {} /\ Stored' = {} /\ ~Open'
    BY <1>1 DEF Plain, Plaintexts, Stored, Open, NoBatch, Range
  <1>8. DecryptedRows' = DecryptedRows
    BY <1>1, SameViews
  <1>9. ItemsOnce'
    BY <1>1, <1>4 DEF ItemsOnce, Once, ZoneOnce, Distinct
  <1>10. PlaintextsOnce'
    BY <1>1 DEF PlaintextsOnce, Distinct, NoBatch
  <1>11. ItemsApart' /\ PlaintextsApart'
    BY <1>1, <1>2, <1>4, <1>5, <1>6, <1>7 DEF ItemsApart, PlaintextsApart, Given
  <1>12. PendingNotDone'
    BY <1>1, <1>4, <1>5, <1>7 DEF PendingNotDone, Pending
  <1>13. KeysInv' /\ RemovedIsDone' /\ KindsInv'
    BY <1>1, <1>6, <1>7 DEF KeysInv, RemovedIsDone, KindsInv
  <1>14. RowsInv'
    BY <1>1, <1>8, StayRows DEF IInv
  <1>15. ConsumedIsDurable'
    BY <1>1, <1>8, StayConsumed DEF IInv
  <1>16. AnsweredIsKept'
    <2>1. \A m \in ToSave \ onServer : KeptHere(m)'
      BY <1>1, <1>8, StayKept DEF IInv, AnsweredIsKept
    <2>2. QED
      BY <1>1, <2>1 DEF AnsweredIsKept
  <1>17. QED
    BY <1>3, <1>9, <1>10, <1>11, <1>12, <1>13, <1>14, <1>15, <1>16 DEF IInv

\* Every envelope the receiver speaks of has arrived.
LEMMA AllArrived ==
    ASSUME DataType
    PROVE  /\ Incoming \cup Adding \cup Waiting \cup DecryptJobs \subseteq Envelopes
           /\ Plain \subseteq Envelopes /\ Stored \subseteq Envelopes
           /\ DOMAIN rows \subseteq Envelopes /\ DecryptedRows \subseteq Envelopes
           /\ removeBatch \subseteq Envelopes /\ Envs(batch.items) \subseteq Envelopes
  <1>1. \A s \in Seq(ItemsOf(Envelopes)) : Envs(s) \subseteq Envelopes
    <2>1. ASSUME NEW s \in Seq(ItemsOf(Envelopes)), NEW i \in DOMAIN s
          PROVE  s[i].envelope \in Envelopes
      <3>1. s[i] \in ItemsOf(Envelopes)
        OBVIOUS
      <3>2. QED
        BY <3>1 DEF ItemsOf
    <2>2. QED
      BY <2>1 DEF Envs
  <1>2. ASSUME NEW names, NEW idle, NEW q \in Seq(Tasks(Envelopes, names, idle)),
               NEW job, job \notin idle
        PROVE  Labels(q, job, Id) \subseteq Envelopes
    <2>1. ASSUME NEW x \in Labels(q, job, Id) PROVE x \in Envelopes
      <3>1. PICK i \in DOMAIN q : q[i].do = job /\ Id[q[i].envelope] = x
        BY <2>1, InLabels
      <3>2. q[i] \in Tasks(Envelopes, names, idle)
        OBVIOUS
      <3>3. q[i].envelope \in Envelopes
        BY <1>2, <3>1, <3>2, HeadTask
      <3>4. QED
        BY <3>1, <3>3 DEF Id, Envelopes
    <2>2. QED
      BY <2>1
  <1>3. Incoming \subseteq Envelopes
    <2>1. incoming \in Seq(Tasks(Envelopes, {"decryptAndCache"},
                                   {"queueAllCached", "onEmpty", "waitForIncoming"}))
      BY DEF IncomingJobs, DataType, QueueType
    <2>2. Labels(incoming, "decryptAndCache", Id) \subseteq Envelopes
      BY <1>2, <2>1
    <2>3. QED
      BY <2>2 DEF Incoming
  <1>4. DecryptJobs \subseteq Envelopes
    <2>1. encrypted \in Seq(Tasks(Envelopes, {"decrypt", "queueDecrypted"},
                                    {"waitForEncrypted"}))
      BY DEF EncryptedJobs, DataType, QueueType
    <2>2. Labels(encrypted, "decrypt", Id) \subseteq Envelopes
      BY <1>2, <2>1
    <2>3. QED
      BY <2>2 DEF DecryptJobs
  <1>5. Adding \subseteq Envelopes
    BY <1>1 DEF Adding, DataType, QueueType
  <1>6. Waiting \subseteq Envelopes
    <2>1. \A k \in DOMAIN zoneQueue : zoneQueue[k] \in Seq(ItemsOf(Envelopes))
      BY DEF DataType, QueueType
    <2>2. \A k \in DOMAIN zoneQueue : Envs(zoneQueue[k]) \subseteq Envelopes
      BY <1>1, <2>1
    <2>3. QED
      BY <2>2 DEF Waiting, Zoned
  <1>7. /\ batch.items \in Seq(ItemsOf(Envelopes)) /\ batch.plain \in Seq(Envelopes)
        /\ batch.failed \subseteq Envelopes
    BY DEF DataType, BatchType, Batches
  <1>8. Plain \subseteq Envelopes /\ Stored \subseteq Envelopes
    BY <1>7, RangeFacts DEF Plain, Stored
  <1>9. Envs(batch.items) \subseteq Envelopes
    BY <1>1, <1>7
  <1>10. DOMAIN rows \subseteq Envelopes /\ DecryptedRows \subseteq Envelopes
    BY DEF DataType, RowType, DecryptedRows
  <1>11. QED
    BY <1>3, <1>4, <1>5, <1>6, <1>8, <1>9, <1>10 DEF DataType, AppType

\* The messages of the envelopes that had arrived are the same.
LEMMA ViewsAfterDeliver ==
    ASSUME DataType, IInv, Deliver
    PROVE  /\ UNCHANGED <<Queued, Handling, Errors, Dispatched, Deliveries, Plaintexts>>
           /\ PlaintextsOnce'
           /\ UNCHANGED InJobs /\ JobsOnce'
  <1>1. \A e \in Envelopes : arrived[e] = arrived'[e]
    BY MoreEnvelopes
  <1>2. UNCHANGED <<encrypted, decrypted, appQueue, batch>>
    BY DEF Deliver, batchVars
  <1>3. ASSUME NEW names, NEW idle, NEW q \in Seq(Tasks(Envelopes, names, idle)),
               NEW job, job \notin idle
        PROVE  /\ Labels(q, job, arrived) = Labels(q, job, arrived')
               /\ Distinct(q, job, arrived) => Distinct(q, job, arrived')
    <2>1. PICK f : f = arrived
      OBVIOUS
    <2>2. PICK g : g = arrived'
      OBVIOUS
    <2>3. \A e \in Envelopes : f[e] = g[e]
      BY <1>1, <2>1, <2>2
    <2>4. Labels(q, job, f) = Labels(q, job, g) /\ (Distinct(q, job, f) => Distinct(q, job, g))
      BY <1>3, <2>3, Relabelled
    <2>5. QED
      BY <2>1, <2>2, <2>4
  <1>4. /\ Labels(encrypted, "queueDecrypted", arrived) =
              Labels(encrypted, "queueDecrypted", arrived')
        /\ Distinct(encrypted, "queueDecrypted", arrived')
    <2>1. encrypted \in Seq(Tasks(Envelopes, {"decrypt", "queueDecrypted"}, {"waitForEncrypted"}))
      BY DEF DataType, QueueType, EncryptedJobs
    <2>2. QED
      BY <1>3, <2>1 DEF IInv, PlaintextsOnce
  <1>5. /\ Labels(decrypted, "handle", arrived) = Labels(decrypted, "handle", arrived')
        /\ Labels(decrypted, "decryptionError", arrived) =
              Labels(decrypted, "decryptionError", arrived')
        /\ Distinct(decrypted, "handle", arrived')
    <2>1. decrypted \in Seq(Tasks(Envelopes, {"handle", "decryptionError"}, {"batchHandled", "waitForDecrypted"}))
      BY DEF DataType, QueueType, DecryptedJobs
    <2>2. QED
      BY <1>3, <2>1 DEF IInv, PlaintextsOnce
  <1>6. /\ Labels(appQueue, "message", arrived) = Labels(appQueue, "message", arrived')
        /\ Labels(appQueue, "delivery", arrived) = Labels(appQueue, "delivery", arrived')
        /\ Distinct(appQueue, "message", arrived')
    <2>1. appQueue \in Seq(Tasks(Envelopes, {"message", "delivery"}, {"emitEmpty"}))
      BY DEF DataType, QueueType, AppJobs
    <2>2. QED
      BY <1>3, <2>1 DEF IInv, PlaintextsOnce
  <1>8. \A i \in DOMAIN batch.plain : arrived[batch.plain[i]] = arrived'[batch.plain[i]]
    <2>1. \A i \in DOMAIN batch.plain : batch.plain[i] \in Envelopes
      BY DEF DataType, BatchType, Batches
    <2>2. QED
      BY <1>1, <2>1
  <1>9. Plaintexts' = Plaintexts
    BY <1>2, <1>8 DEF Plaintexts, Plain, Range, MessageOf
  <1>10. PlaintextsOnce'
    <2>1. \A i, j \in DOMAIN batch.plain :
             arrived'[batch.plain[i]] = arrived'[batch.plain[j]] => i = j
      BY <1>8 DEF IInv, PlaintextsOnce, MessageOf
    <2>2. QED
      BY <1>2, <1>4, <1>5, <1>6, <2>1 DEF PlaintextsOnce, MessageOf
  <1>11. UNCHANGED <<Queued, Handling, Errors, Dispatched, Deliveries>>
    BY <1>2, <1>4, <1>5, <1>6 DEF Queued, Handling, Errors, Dispatched, Deliveries
  <1>12. UNCHANGED InJobs /\ JobsOnce'
    <2>1. jobQueue' = jobQueue
      BY DEF Deliver, appVars
    <2>2. \A c \in Conversations : \A i \in DOMAIN jobQueue[c] :
             MessageOf(jobQueue[c][i]) = MessageOf(jobQueue[c][i])'
      <3>1. \A c \in Conversations : \A i \in DOMAIN jobQueue[c] : jobQueue[c][i] \in Envelopes
        BY DEF DataType, AppType
      <3>2. QED
        BY <1>1, <2>1, <3>1 DEF MessageOf
    <2>3. \A c \in Conversations : JobMessages(jobQueue[c])' = JobMessages(jobQueue[c])
      BY <2>1, <2>2 DEF JobMessages
    <2>4. QED
      BY <2>1, <2>2, <2>3 DEF InJobs, JobsOnce, IInv, PlaintextsApart
  <1>13. QED
    BY <1>9, <1>10, <1>11, <1>12

LEMMA InvDeliver ==
    ASSUME DataType, IInv, Deliver
    PROVE  IInv'
  <1>1. /\ UNCHANGED <<onServer, addBatch, zoneQueue, encrypted, decrypted, appQueue, batch,
                       batchPhase, removeBatch, appVars, inMemory, failedHere, saving, rows, advanced, saved, gaveUp>>
        /\ UNCHANGED batchVars
    BY DEF Deliver, batchVars, appVars, dbVars
  <1>2. PICK e \in Nat :
           /\ e = Len(arrived) + 1 /\ e \in Envelopes' /\ e \notin Envelopes
           /\ incoming' = Append(incoming, Job("decryptAndCache", e))
    BY NewEnvelope, MoreEnvelopes DEF Envelopes, DataType, ServerType
  <1>3. Envelopes \subseteq Envelopes' /\ \A x \in Envelopes : arrived'[x] = arrived[x]
    BY MoreEnvelopes
  <1>4. /\ Incoming \cup Adding \cup Waiting \cup DecryptJobs \subseteq Envelopes
        /\ Plain \subseteq Envelopes /\ Stored \subseteq Envelopes
        /\ DOMAIN rows \subseteq Envelopes /\ DecryptedRows \subseteq Envelopes
        /\ removeBatch \subseteq Envelopes /\ Envs(batch.items) \subseteq Envelopes
    BY AllArrived
  <1>5. /\ UNCHANGED <<Queued, Handling, Errors, Dispatched, Deliveries, Plaintexts>>
        /\ PlaintextsOnce'
        /\ UNCHANGED InJobs /\ JobsOnce'
    BY ViewsAfterDeliver
  <1>6. /\ UNCHANGED <<Adding, Waiting, DecryptJobs>>
        /\ UNCHANGED <<Plain, Stored, DecryptedRows, Open, Consumed>>
    BY <1>1 DEF Adding, Waiting, DecryptJobs, Plain, Stored, DecryptedRows, Open, Consumed
  <1>7. /\ incoming \in Seq(IncomingJobs(Envelopes'))
        /\ Job("decryptAndCache", e) \in IncomingJobs(Envelopes')
    <2>1. incoming \in Seq(IncomingJobs(Envelopes'))
      BY <1>3, MoreTasks, SeqWiden DEF DataType, QueueType, IncomingJobs
    <2>2. Job("decryptAndCache", e) \in IncomingJobs(Envelopes')
      BY <1>2, NewTask DEF IncomingJobs
    <2>3. QED
      BY <2>1, <2>2
  <1>8. Incoming' = Incoming \cup {e} /\ Distinct(incoming', "decryptAndCache", Id)
    <2>1. Id[e] = e
      BY DEF Id
    <2>2. Incoming' = Incoming \cup {e}
      BY <1>2, <1>7, <2>1, JobAppended DEF Incoming
    <2>3. e \notin Incoming
      BY <1>2, <1>4
    <2>4. Distinct(incoming', "decryptAndCache", Id)
      BY <1>2, <1>7, <2>1, <2>3, DistinctAppend DEF IInv, ItemsOnce, Incoming
    <2>5. QED
      BY <2>2, <2>4
  <1>9. ReadFirst'
    BY <1>1, <1>2, <1>5, <1>7, JobJoins DEF IInv, Idle
  <1>10. ItemsOnce'
    BY <1>1, <1>8 DEF IInv, ItemsOnce
  <1>11. ItemsApart'
    BY <1>2, <1>4, <1>6, <1>8 DEF IInv, ItemsApart
  <1>12. PendingNotDone'
    BY <1>1, <1>2, <1>4, <1>6, <1>8 DEF IInv, PendingNotDone, Pending
  <1>13. PlaintextsApart'
    BY <1>1, <1>5 DEF IInv, PlaintextsApart, Given
  <1>14. KeysInv'
    BY <1>1, <1>5, <1>6 DEF IInv, KeysInv
  <1>15. RowsInv' /\ KindsInv'
    BY <1>1, <1>3, <1>4, <1>5, <1>6 DEF IInv, RowsInv, KindsInv, MessageOf
  <1>16. RemovedIsDone'
    <2>1. ASSUME NEW x \in removeBatch PROVE Done(x)'
      <3>1. Done(x) /\ arrived'[x] = arrived[x] /\ x # e
        BY <1>2, <1>3, <1>4 DEF IInv, RemovedIsDone
      <3>2. x \in Pending' => x \in Pending
        BY <1>6, <1>8, <3>1 DEF Pending
      <3>3. QED
        BY <1>1, <1>6, <3>1, <3>2 DEF Done, MessageOf
    <2>2. QED
      BY <1>1, <2>1 DEF RemovedIsDone
  <1>17. ASSUME NEW m, Durable(m) PROVE Durable(m)'
    BY <1>1, <1>3, <1>4, <1>6, <1>17 DEF Durable, MessageOf
  <1>18. ASSUME NEW m, KeptHere(m) PROVE KeptHere(m)'
    BY <1>1, <1>3, <1>4, <1>17, <1>18 DEF KeptHere, MessageOf
  <1>19. ConsumedIsDurable'
    <2>1. \A m \in ToSave \cap advanced : Durable(m)'
      BY <1>17 DEF IInv, ConsumedIsDurable
    <2>2. QED
      BY <1>1, <2>1 DEF ConsumedIsDurable, ToSave
  <1>20. AnsweredIsKept'
    <2>1. \A m \in ToSave \ onServer : KeptHere(m)'
      BY <1>18 DEF IInv, AnsweredIsKept
    <2>2. \A x \in Envs(batch.items) : arrived'[x] = arrived[x]
      BY <1>3, <1>4
    <2>3. ASSUME batchPhase = "acking", NEW x \in Envs(batch.items), ToBeSaved(x)
          PROVE  KeptHere(arrived[x])'
      <3>1. PICK m : m = arrived[x] /\ KeptHere(m)
        BY <2>3 DEF MessageOf, IInv, AnsweredIsKept
      <3>2. KeptHere(m)'
        BY <1>18, <3>1
      <3>3. QED
        BY <2>2, <3>1, <3>2
    <2>4. batchPhase = "acking" =>
             \A x \in Envs(batch.items) : ToBeSaved(x) => KeptHere(arrived[x])'
      BY <2>3
    <2>5. QED
      BY <1>1, <1>6, <2>1, <2>2, <2>4 DEF IInv, AnsweredIsKept, ToBeSaved, MessageOf, ToSave
  <1>21. QED
    BY <1>5, <1>9, <1>10, <1>11, <1>12, <1>13, <1>14, <1>15, <1>16, <1>19, <1>20 DEF IInv

LEMMA InvStutter ==
    ASSUME DataType, IInv, UNCHANGED vars
    PROVE  IInv'
  <1>1. /\ UNCHANGED <<incoming, addBatch, zoneQueue, encrypted, decrypted, appQueue>>
        /\ UNCHANGED <<arrived, batchVars, rows, advanced, gaveUp, onServer, appVars,
                       saved, removeBatch, saving>>
        /\ UNCHANGED <<batch, batchPhase>>
    BY DEF vars, serverVars, queueVars, batchVars, appVars, dbVars, historyVars
  <1>2. /\ UNCHANGED <<Incoming, Adding, Waiting, DecryptJobs>>
        /\ UNCHANGED <<Queued, Handling, Dispatched, Errors, Deliveries>>
    BY <1>1, SameViews
  <1>3. ItemsOnce' /\ PlaintextsOnce'
    BY <1>1 DEF IInv, ItemsOnce, PlaintextsOnce, MessageOf
  <1>4. ReadFirst'
    BY <1>1, NotIdle, SameViews DEF IInv, Idle
  <1>5. RemovedIsDone'
    BY <1>1, <1>2, StillRemoved
  <1>6. QED
    BY <1>1, <1>2, <1>3, <1>4, <1>5, Calm

\* The table is read once in a process, when it starts.
NoReplays == MaxReplays = 0

\* Every restart and every replay of the table is counted.
Counted == replays \in Nat

LEMMA ReplaysCounted == Spec => []Counted
  <1>1. Init => Counted
    BY DEF Init, Counted
  <1>2. Counted /\ [Next]_vars => Counted'
    <2> SUFFICES ASSUME replays \in Nat, [Next]_vars PROVE replays' \in Nat
      BY DEF Counted
    <2>1. replays' \in {replays, replays + 1}
      <3>1. CASE UNCHANGED vars
        BY <3>1 DEF vars, historyVars
      <3>2. CASE Progress
        BY <3>2, Zenon DEF Progress, DecryptAndCache, QueueAllCached, OnEmpty, BatcherIdle,
           WaitForIncoming, StartBatch, EnterZone, Decrypt, QueueDecrypted, WaitForEncrypted,
           SendCommit, CommitDone, Acknowledge, EndBatch, Handle, BatchHandled,
           DecryptionError, WaitForDecrypted, OnMessageReceived, HandleDataMessage,
           SaveAndConfirm, Delivery, EmitEmpty, CacheRemove, historyVars
      <3>3. QED
        BY <3>1, <3>2, Zenon DEF Next, Deliver, DeliverEmpty, Reconnect, RetryTimeout,
           StopProcessing, CrashAndRestart, CommitRejected, SaveRejected,
           CacheRemoveRejected, QueueAllCachedRejected, HandleThrows, historyVars
    <2>2. QED
      BY <2>1
  <1>3. QED
    BY <1>1, <1>2, PTL DEF Spec

LEMMA StepKeepsIInv ==
    ASSUME NoReplays, replays \in Nat, DataType, SaveInv, IInv, [Next]_vars
    PROVE  IInv'
  <1>1. CASE Progress
    BY <1>1, InvDecryptAndCache, InvQueueAllCached, InvOnEmpty, InvBatcherIdle,
       InvWaitForIncoming, InvStartBatch, InvEnterZone, InvDecrypt, InvQueueDecrypted,
       InvWaitForEncrypted, InvSendCommit, InvCommitDone, InvAcknowledge, InvEndBatch,
       InvHandle, InvBatchHandled, InvDecryptionError, InvWaitForDecrypted,
       InvOnMessageReceived, InvHandleDataMessage, InvSaveAndConfirm, InvDelivery,
       InvEmitEmpty, InvCacheRemove, Zenon DEF Progress
  <1>2. ~Reconnect /\ ~RetryTimeout
    BY DEF Reconnect, RetryTimeout, NoReplays
  <1>3. QED
    BY <1>1, <1>2, InvStutter, InvDeliver, InvDeliverEmpty, InvStopProcessing,
       InvCrashAndRestart, InvCommitRejected, InvSaveRejected, InvCacheRemoveRejected,
       InvQueueAllCachedRejected, InvHandleThrows, Zenon DEF Next

LEMMA InvParts ==
    ASSUME DataType, IInv
    PROVE  ConsumedIsKept /\ AcknowledgedIsKept
  <1>1. ASSUME NEW m, Durable(m) PROVE PlaintextKept(m)
    <2>1. CASE m \in Range(saved) \/ m \in gaveUp
      BY <2>1 DEF PlaintextKept
    <2>2. CASE \E e \in DecryptedRows : MessageOf(e) = m
      BY <2>2 DEF PlaintextKept, DecryptedRows
    <2>3. QED
      BY <1>1, <2>1, <2>2 DEF Durable
  <1>2. ConsumedIsKept
    BY <1>1 DEF ConsumedIsKept, IInv, ConsumedIsDurable
  <1>3. AcknowledgedIsKept
    <2>1. ASSUME NEW m \in ToSave \ onServer
          PROVE  PlaintextKept(m) \/ \E e \in DOMAIN rows : MessageOf(e) = m
      <3>1. KeptHere(m)
        BY <2>1 DEF IInv, AnsweredIsKept
      <3>2. QED
        BY <1>1, <3>1 DEF KeptHere
    <2>2. QED
      BY <2>1 DEF AcknowledgedIsKept
  <1>4. QED
    BY <1>2, <1>3

LEMMA IInvCorrect == NoReplays => (Spec => []IInv)
  <1>1. NoReplays /\ Counted /\ DataType /\ SaveInv /\ IInv /\ [Next]_vars => IInv'
    BY StepKeepsIInv DEF Counted
  <1>2. NoReplays => (Spec => [](NoReplays /\ IInv))
    <2>1. NoReplays /\ Init => NoReplays /\ IInv
      BY InvInit
    <2>2. Counted /\ DataType /\ SaveInv /\ (NoReplays /\ IInv) /\ [Next]_vars
             => (NoReplays /\ IInv)'
      BY <1>1 DEF NoReplays
    <2>3. QED
      BY <2>1, <2>2, DataTypeCorrect, SaveInvCorrect, ReplaysCounted, PTL DEF Spec
  <1>3. QED
    BY <1>2, PTL

\* Once the stored session has consumed the key of a message, its plaintext is
\* kept, in the unprocessed table or with the message, whatever is lost, rejected
\* or stopped and wherever the process crashes.  The table is read once in each
\* process: with a second reading this fails (run receiver_lost).
THEOREM ConsumedKeysAreKept == MaxReplays = 0 => (Spec => []ConsumedIsKept)
  <1>1. DataType /\ IInv => ConsumedIsKept
    BY InvParts
  <1>2. NoReplays => (Spec => []ConsumedIsKept)
    BY <1>1, DataTypeCorrect, IInvCorrect, PTL
  <1>3. QED
    BY <1>2 DEF NoReplays

\* A message whose request was answered with 200, which the server forgets, is in
\* the unprocessed table, decrypted or not, until it is saved or given up on at the
\* limits of queueAllCached; the table is read once in each process.
THEOREM AcknowledgedAreKept == MaxReplays = 0 => (Spec => []AcknowledgedIsKept)
  <1>1. DataType /\ IInv => AcknowledgedIsKept
    BY InvParts
  <1>2. NoReplays => (Spec => []AcknowledgedIsKept)
    BY <1>1, DataTypeCorrect, IInvCorrect, PTL
  <1>3. QED
    BY <1>2 DEF NoReplays
=============================================================================
