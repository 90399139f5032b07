-------------------------- MODULE MessageOrderProofs --------------------------
(***************************************************************************)
(* The messages of each conversation are saved in the order of the server  *)
(* (SavedInOrder of MessageReceiver), for any messages, batches, arrivals  *)
(* and crashes.                                                            *)
(*                                                                         *)
(* Besides IInv of MessageReceiverProofs this needs two invariants.        *)
(* OrderInv is of the envelopes that may still be decrypted: of two        *)
(* messages the earlier has the earlier envelope, tried no more often.     *)
(* WayInv is of the plaintexts that are not saved: each place they pass is *)
(* in order and before what follows it.                                    *)
(***************************************************************************)
EXTENDS MessageReceiverProofs

-----------------------------------------------------------------------------
(* Jobs and items in the order of their envelopes, or of their messages *)

Less(S, T) == \A s \in S : \A t \in T : s < t

\* The same, for messages of one conversation.
Together(m, n) == ConversationOf[m] = ConversationOf[n]
LessTogether(S, T) == \A s \in S : \A t \in T : Together(s, t) => s < t

\* The jobs of one name whose label is in S come in the order of their labels.
Rising(q, name, f, S) ==
    \A i, j \in DOMAIN q :
       (/\ i < j /\ q[i].do = name /\ q[j].do = name
        /\ f[q[i].envelope] \in S /\ f[q[j].envelope] \in S)
       => f[q[i].envelope] < f[q[j].envelope]

LEMMA RisingTail ==
    ASSUME NEW S, NEW q \in Seq(S), q # <<>>, NEW name, NEW f, NEW T,
           Rising(q, name, f, T)
    PROVE  /\ Rising(Tail(q), name, f, T)
           /\ Head(q).do = name /\ f[Head(q).envelope] \in T =>
                 Less({f[Head(q).envelope]}, Labels(Tail(q), name, f) \cap T)
  <1> DEFINE t == Tail(q)
  <1>1. /\ Head(q) = q[1] /\ 1 \in DOMAIN q
        /\ \A i \in DOMAIN t : i + 1 \in DOMAIN q /\ t[i] = q[i + 1] /\ i \in Nat /\ 1 < i + 1
    BY TailFacts
  <1>2. \A i, j \in DOMAIN t : i < j => i + 1 < j + 1
    BY <1>1
  <1> HIDE DEF t
  <1>3. Rising(t, name, f, T)
    BY <1>1, <1>2 DEF Rising
  <1>4. ASSUME Head(q).do = name, f[Head(q).envelope] \in T,
               NEW x \in Labels(t, name, f) \cap T
        PROVE  f[Head(q).envelope] < x
    <2>1. PICK i \in DOMAIN t : t[i].do = name /\ f[t[i].envelope] = x
      BY <1>4, InLabels
    <2>2. QED
      BY <1>1, <1>4, <2>1 DEF Rising
  <1>5. QED
    BY <1>3, <1>4 DEF t, Less

LEMMA RisingAppend ==
    ASSUME NEW S, NEW q \in Seq(S), NEW job, NEW e, Job(job, e) \in S, NEW name, NEW f,
           NEW T, Rising(q, name, f, T),
           job = name /\ f[e] \in T => Less(Labels(q, name, f) \cap T, {f[e]})
    PROVE  Rising(Append(q, Job(job, e)), name, f, T)
  <1>1. PICK x \in S : x = Job(job, e)
    OBVIOUS
  <1>2. x.do = job /\ x.envelope = e
    BY <1>1 DEF Job
  <1> DEFINE t == Append(q, x)
             n == Len(q) + 1
  <1>3. /\ DOMAIN t = DOMAIN q \cup {n} /\ t[n] = x
        /\ \A i \in DOMAIN q : t[i] = q[i]
    BY AppendFacts
  <1>4. \A i \in DOMAIN q : ~(n < i)
    OBVIOUS
  <1>5. ~(n < n)
    OBVIOUS
  <1>6. job = name /\ f[e] \in T =>
           \A i \in DOMAIN q : q[i].do = name /\ f[q[i].envelope] \in T => f[q[i].envelope] < f[e]
    BY InLabels DEF Less
  <1> HIDE DEF t, n
  <1>7. Rising(t, name, f, T)
    BY <1>2, <1>3, <1>4, <1>5, <1>6 DEF Rising
  <1>8. QED
    BY <1>1, <1>7 DEF t

LEMMA RisingConcat ==
    ASSUME NEW S, NEW q \in Seq(S), NEW r \in Seq(S), NEW name, NEW f, NEW T,
           Rising(q, name, f, T), Rising(r, name, f, T),
           Less(Labels(q, name, f) \cap T, Labels(r, name, f) \cap T)
    PROVE  Rising(q \o r, name, f, T)
  <1> DEFINE t == q \o r
             n == Len(q)
  <1>1. /\ \A i \in DOMAIN q : t[i] = q[i]
        /\ \A i \in DOMAIN t : \/ i \in DOMAIN q
                               \/ i - n \in DOMAIN r /\ t[i] = r[i - n]
    <2>1. \A i \in DOMAIN t : i \in DOMAIN q \/ (i - n) + n = i
      OBVIOUS
    <2>2. QED
      BY <2>1, ConcatFacts
  <1>2. /\ \A i, j \in DOMAIN t : i < j => i - n < j - n
        /\ \A i, j \in DOMAIN t : i < j /\ j \in DOMAIN q => i \in DOMAIN q
    OBVIOUS
  <1> HIDE DEF t, n
  <1>3. \A i \in DOMAIN q : q[i].do = name => f[q[i].envelope] \in Labels(q, name, f)
    BY InLabels
  <1>4. \A i \in DOMAIN r : r[i].do = name => f[r[i].envelope] \in Labels(r, name, f)
    BY InLabels
  <1>5. ASSUME NEW i \in DOMAIN t, NEW j \in DOMAIN t, i < j, t[i].do = name, t[j].do = name,
               f[t[i].envelope] \in T, f[t[j].envelope] \in T
        PROVE  f[t[i].envelope] < f[t[j].envelope]
    <2>1. CASE i \in DOMAIN q /\ j \in DOMAIN q
      BY <1>1, <1>5, <2>1 DEF Rising
    <2>2. CASE i \notin DOMAIN q /\ j \notin DOMAIN q
      BY <1>1, <1>2, <1>5, <2>2 DEF Rising
    <2>3. CASE i \in DOMAIN q /\ j \notin DOMAIN q
      BY <1>1, <1>3, <1>4, <1>5, <2>3 DEF Less
    <2>4. QED
      BY <1>2, <1>5, <2>1, <2>2, <2>3
  <1>6. QED
    BY <1>5 DEF Rising, t

LEMMA RisingJobs ==
    ASSUME NEW s, NEW job, NEW name, NEW f, NEW T,
           job = name => \A i, j \in DOMAIN s : i < j => f[s[i]] < f[s[j]]
    PROVE  Rising([i \in DOMAIN s |-> Job(job, s[i])], name, f, T)
  BY DEF Rising, Job

LEMMA RisingWithin ==
    ASSUME NEW q, NEW name, NEW f, NEW T, NEW U, U \subseteq T, Rising(q, name, f, T)
    PROVE  Rising(q, name, f, U)
  BY DEF Rising

\* The labels of the jobs there are.
LEMMA RisingOnLabels ==
    ASSUME NEW q, NEW name, NEW f, NEW T, NEW U, Rising(q, name, f, T),
           Labels(q, name, f) \cap U \subseteq T
    PROVE  Rising(q, name, f, U)
  BY InLabels DEF Rising, Labels

LEMMA RisingRelabelled ==
    ASSUME NEW E, NEW names, NEW idle, NEW q \in Seq(Tasks(E, names, idle)),
           NEW name, name \notin idle, NEW f, NEW g, \A e \in E : f[e] = g[e],
           NEW T, Rising(q, name, f, T)
    PROVE  Rising(q, name, g, T)
  <1>1. \A i \in DOMAIN q : q[i] \in Tasks(E, names, idle)
    OBVIOUS
  <1>2. \A i \in DOMAIN q : q[i].do = name => q[i].envelope \in E
    BY <1>1, HeadTask
  <1>3. QED
    BY <1>2 DEF Rising

ItemOrder(s) == \A i, j \in DOMAIN s : i < j => s[i].envelope < s[j].envelope

LEMMA ItemOrderAppend ==
    ASSUME NEW S, NEW q \in Seq(S), NEW x \in S, ItemOrder(q), Less(Envs(q), {x.envelope})
    PROVE  ItemOrder(Append(q, x)) /\ Envs(Append(q, x)) = Envs(q) \cup {x.envelope}
  <1> DEFINE t == Append(q, x)
             n == Len(q) + 1
  <1>1. /\ DOMAIN t = DOMAIN q \cup {n} /\ t[n] = x
        /\ \A i \in DOMAIN q : t[i] = q[i]
    BY AppendFacts
  <1>2. ~(n < n) /\ \A i \in DOMAIN q : ~(n < i)
    OBVIOUS
  <1> HIDE DEF t, n
  <1>3. QED
    BY <1>1, <1>2 DEF ItemOrder, Envs, t, Less

\* The batches that wait, and the items of each, are in order.
ZoneOrder(z) ==
    /\ \A k \in DOMAIN z : ItemOrder(z[k])
    /\ \A k, l \in DOMAIN z : k < l => Less(Envs(z[k]), Envs(z[l]))

LEMMA ZoneOrderAppend ==
    ASSUME NEW S, NEW z \in Seq(S), NEW b \in S, ZoneOrder(z), ItemOrder(b),
           Less(Zoned(z), Envs(b))
    PROVE  ZoneOrder(Append(z, b)) /\ Zoned(Append(z, b)) = Zoned(z) \cup Envs(b)
  <1> DEFINE t == Append(z, b)
             n == Len(z) + 1
  <1>1. /\ DOMAIN t = DOMAIN z \cup {n} /\ t[n] = b
        /\ \A i \in DOMAIN z : t[i] = z[i]
    BY AppendFacts
  <1>2. ~(n < n) /\ \A i \in DOMAIN z : ~(n < i)
    OBVIOUS
  <1> HIDE DEF t, n
  <1>3. \A k \in DOMAIN z : Envs(z[k]) \subseteq Zoned(z)
    BY DEF Zoned
  <1>4. \A k \in DOMAIN z : Less(Envs(z[k]), Envs(b))
    BY <1>3 DEF Less
  <1>5. ZoneOrder(t)
    BY <1>1, <1>2, <1>4 DEF ZoneOrder
  <1>6. Zoned(t) = Zoned(z) \cup Envs(b)
    BY <1>1 DEF Zoned
  <1>7. QED
    BY <1>5, <1>6 DEF t

LEMMA ZoneOrderTail ==
    ASSUME NEW S, NEW z \in Seq(S), z # <<>>, ZoneOrder(z)
    PROVE  /\ ZoneOrder(Tail(z)) /\ ItemOrder(Head(z))
           /\ Less(Envs(Head(z)), Zoned(Tail(z)))
  <1> DEFINE t == Tail(z)
  <1>1. /\ Head(z) = z[1] /\ 1 \in DOMAIN z
        /\ \A i \in DOMAIN t : i + 1 \in DOMAIN z /\ t[i] = z[i + 1] /\ i \in Nat /\ 1 < i + 1
    BY TailFacts
  <1>2. \A i, j \in DOMAIN t : i < j => i + 1 < j + 1
    BY <1>1
  <1> HIDE DEF t
  <1>3. ZoneOrder(t)
    BY <1>1, <1>2 DEF ZoneOrder
  <1>4. ItemOrder(Head(z))
    BY <1>1 DEF ZoneOrder
  <1>5. \A k \in DOMAIN t : Less(Envs(Head(z)), Envs(t[k]))
    BY <1>1 DEF ZoneOrder
  <1>6. Less(Envs(Head(z)), Zoned(t))
    BY <1>5 DEF Zoned, Less
  <1>7. QED
    BY <1>3, <1>4, <1>6 DEF t
-----------------------------------------------------------------------------
(* The order of the messages                                                 *)
(*                                                                           *)
(* A candidate is an envelope that may yet make the plaintext of a message   *)
(* to save: it waits to be decrypted in this process, or will be read from   *)
(* the table by the next one.  Candidates are tried in the order of their    *)
(* envelopes, so a message is decrypted before a later one if its first      *)
(* candidate comes first.  EarliestFirst says that it does, whenever the     *)
(* message can come again: on the server, or as a later candidate.  The      *)
(* first candidate was also tried no more often, or the limit of attempts    *)
(* could delete it and leave the other.                                      *)

Requeued ==
    Incoming \cup Adding \cup Waiting \cup (IF Open THEN Envs(batch.items) ELSE {})
Fresh == ToSave \ advanced
Candidates ==
    {e \in Requeued \cup (DOMAIN rows \ DecryptedRows) : MessageOf(e) \in Fresh}

TableRead == \A i \in DOMAIN incoming : incoming[i].do # "queueAllCached"

\* The attempt at e that is counted next, or has been counted by this process.
Attempts(e) ==
    IF e \in DOMAIN rows THEN rows[e].attempts + (IF TableRead THEN 0 ELSE 1) ELSE 1

ComesAgain(m, f) == m \in onServer \/ \E g \in Candidates : f < g /\ MessageOf(g) = m
ComesBefore(m, f) ==
    \E e \in Candidates : e < f /\ MessageOf(e) = m /\ Attempts(e) <= Attempts(f)
EarliestFirst ==
    \A f \in Candidates : \A m \in Fresh :
       m < MessageOf(f) /\ ComesAgain(m, f) => ComesBefore(m, f)

\* What is still to come is later than what was consumed; rows with a plaintext are
\* in order, and before the candidates; candidates that are rows before the others.
Coming(m) == m \in onServer \/ \E e \in Candidates : MessageOf(e) = m
FreshAreLater == \A m \in Fresh : Coming(m) => Less(ToSave \cap advanced, {m})
RowsInOrder ==
    /\ \A e, f \in DecryptedRows : e < f => MessageOf(e) < MessageOf(f)
    /\ Less(DecryptedRows, Candidates)
    /\ Less(DOMAIN rows, Candidates \ DOMAIN rows)

\* An envelope of this connection stays a candidate, at its first attempt.
LiveAreCandidates ==
    \A e \in live : MessageOf(e) \in Fresh => e \in Candidates /\ Attempts(e) = 1

\* Until the process stops, every candidate is in a queue; and as long as a batch
\* that has a plaintext is open.
AllRequeued ==
    TableRead /\ (~stoppingProcessing \/ (Open /\ batch.plain # <<>>)) =>
        Candidates \subseteq Requeued

ItemsCounted(s) ==
    \A i \in DOMAIN s :
       s[i].envelope \in Candidates => s[i].attempts = Attempts(s[i].envelope)
AttemptsCounted ==
    /\ ItemsCounted(addBatch)
    /\ \A k \in DOMAIN zoneQueue : ItemsCounted(zoneQueue[k])
    /\ Open => ItemsCounted(batch.items)

\* What waits to be decrypted is in the order of arrival.
PendingInOrder ==
    /\ Rising(incoming, "decryptAndCache", Id, Nat)
    /\ ItemOrder(addBatch) /\ ZoneOrder(zoneQueue)
    /\ Less(Adding, Incoming) /\ Less(Waiting, Adding \cup Incoming)
    /\ Open => ItemOrder(batch.items) /\ Less(Envs(batch.items), Waiting \cup Adding \cup Incoming)
    /\ Less(DOMAIN rows, Incoming)

CandidatesInOrder ==
    EarliestFirst /\ FreshAreLater /\ RowsInOrder /\ LiveAreCandidates

\* The open batch: decrypted in order, its plaintexts in order; every key before a
\* plaintext is consumed, and every key that was tried while not stopping.
BatchInOrder ==
    /\ Rising(encrypted, "decrypt", Id, Nat)
    /\ \A i, j \in DOMAIN encrypted :
          i < j /\ encrypted[i].do = "decrypt" => encrypted[j].do # "queueDecrypted"
    /\ batch.plain # <<>> => Queued = {}
    /\ \A i, j \in DOMAIN batch.plain : i < j => batch.plain[i] < batch.plain[j]
    /\ \A e, f \in Plain : e < f => MessageOf(e) < MessageOf(f)
    /\ Open => Less(Plain, DecryptJobs)
    /\ Open => \A e \in Envs(batch.items) : \A f \in Plain :
                  e < f /\ ToBeSaved(e) => MessageOf(e) \in Consumed
    /\ Open /\ ~stoppingProcessing =>
          \A e \in Envs(batch.items) \ DecryptJobs :
             ToBeSaved(e) => MessageOf(e) \in Consumed

OrderInv ==
    /\ CandidatesInOrder /\ AllRequeued /\ AttemptsCounted /\ PendingInOrder
    /\ BatchInOrder
-----------------------------------------------------------------------------
(* The way of a plaintext                                                    *)
(*                                                                           *)
(* From its row a plaintext goes through encryptedQueue (when the row is     *)
(* read) or the batch, decryptedQueue and appQueue to the queue of its       *)
(* conversation, and from there to the messages that are being saved.  Each  *)
(* place is in order (from the conversations' queues on, those of each       *)
(* conversation) and before all that is not saved and not further on.  One   *)
(* whose handling fails leaves the way; a row that stopping left behind is   *)
(* after all that is.                                                        *)

Saving == {MessageOf(saving[i]) : i \in DOMAIN saving}
Passed == Saving \cup InJobs \cup failedHere
Unsaved == {MessageOf(e) : e \in DecryptedRows} \ Range(saved)

OnlyToSave ==
    /\ Plaintexts \cup {MessageOf(e) : e \in DecryptedRows} \cup Range(saved) \subseteq ToSave
    /\ \A e \in DecryptJobs : Kind[MessageOf(e)] # "unknownUuid"
WayIsKept ==
    /\ Range(saved) \subseteq advanced
    /\ Queued \cup Handling \cup Dispatched \cup InJobs \subseteq Unsaved \cup Range(saved)
    /\ Saving \subseteq Unsaved
    /\ batchPhase = "acking" => Plaintexts \subseteq Unsaved

SavedFirst == SavedInOrder /\ LessTogether(Range(saved), Unsaved \ failedEver)
SavingNext ==
    /\ \A i, j \in DOMAIN saving :
          i < j /\ Together(MessageOf(saving[i]), MessageOf(saving[j])) =>
             MessageOf(saving[i]) < MessageOf(saving[j])
    /\ LessTogether(Saving, InJobs \cap Unsaved)
    /\ Less(Saving, Unsaved \ Passed)
JobsRise(q) ==
    \A i, j \in DOMAIN q :
       i < j /\ {MessageOf(q[i]), MessageOf(q[j])} \subseteq Unsaved =>
          MessageOf(q[i]) < MessageOf(q[j])
JobsNext ==
    /\ \A c \in Conversations : JobsRise(jobQueue[c])
    /\ Less(InJobs \cap Unsaved, Unsaved \ Passed)
DispatchedNext ==
    /\ Rising(appQueue, "message", arrived, Unsaved)
    /\ Less(Dispatched \cap Unsaved, Unsaved \ (Passed \cup Dispatched))
HandlingNext ==
    ~stoppingProcessing =>
        /\ Rising(decrypted, "handle", arrived, Unsaved)
        /\ Less(Handling \cap Unsaved, Unsaved \ (Passed \cup Dispatched \cup Handling))
QueuedNext ==
    ~stoppingProcessing =>
        /\ Rising(encrypted, "queueDecrypted", arrived, Unsaved)
        /\ Less(Queued \cap Unsaved,
                Unsaved \ (Passed \cup Dispatched \cup Handling \cup Queued))
NoneLeft ==
    ~stoppingProcessing /\ TableRead =>
        Unsaved \subseteq Passed \cup Dispatched \cup Handling \cup Queued
                             \cup (IF batchPhase = "acking" THEN Plaintexts ELSE {})

WayInv ==
    /\ OnlyToSave /\ WayIsKept
    /\ SavedFirst /\ SavingNext /\ JobsNext
    /\ DispatchedNext /\ HandlingNext /\ QueuedNext
    /\ NoneLeft
-----------------------------------------------------------------------------
(* What an action leaves in order *)

LEMMA AttemptsStay ==
    ASSUME rows' = rows, TableRead' = TableRead
    PROVE  \A e : Attempts(e)' = Attempts(e)
  BY DEF Attempts

\* The first job of incoming reads the table, or none does.
LEMMA ReadStays ==
    ASSUME DataType, ReadFirst, incoming # <<>>, incoming' = Tail(incoming),
           Head(incoming).do # "queueAllCached"
    PROVE  TableRead' = TableRead
  <1>1. /\ Head(incoming) = incoming[1]
        /\ \A i \in DOMAIN incoming' : i + 1 \in DOMAIN incoming /\ incoming'[i] = incoming[i + 1] /\ i + 1 # 1
    BY TailFacts DEF DataType, QueueType
  <1>2. TableRead /\ TableRead'
    BY <1>1 DEF ReadFirst, TableRead
  <1>3. QED
    BY <1>2

LEMMA ReadJoins ==
    ASSUME NEW S, incoming \in Seq(S), NEW job, NEW e, Job(job, e) \in S,
           job # "queueAllCached", incoming' = Append(incoming, Job(job, e))
    PROVE  TableRead' = TableRead
  <1>1. PICK x \in S : x = Job(job, e)
    OBVIOUS
  <1>2. x.do = job
    BY <1>1 DEF Job
  <1>3. /\ DOMAIN incoming' = DOMAIN incoming \cup {Len(incoming) + 1}
        /\ incoming'[Len(incoming) + 1] = x
        /\ \A i \in DOMAIN incoming : incoming'[i] = incoming[i]
    BY <1>1, AppendFacts
  <1>4. QED
    BY <1>2, <1>3 DEF TableRead

LEMMA CandidatesStay ==
    ASSUME CandidatesInOrder, UNCHANGED <<arrived, rows, advanced>>,
           TableRead' = TableRead, Candidates' = Candidates,
           onServer' \subseteq onServer, live' \subseteq live
    PROVE  CandidatesInOrder'
  <1>1. \A e : Attempts(e)' = Attempts(e) /\ MessageOf(e)' = MessageOf(e)
    BY AttemptsStay DEF MessageOf
  <1>2. Fresh' = Fresh /\ DecryptedRows' = DecryptedRows /\ ToSave' = ToSave
    BY DEF Fresh, DecryptedRows, ToSave, Messages
  <1>3. EarliestFirst'
    <2>1. ASSUME NEW f \in Candidates, NEW m \in Fresh, m < MessageOf(f), ComesAgain(m, f)'
          PROVE  ComesBefore(m, f)'
      <3>1. ComesAgain(m, f)
        BY <1>1, <2>1 DEF ComesAgain
      <3>2. ComesBefore(m, f)
        BY <2>1, <3>1 DEF CandidatesInOrder, EarliestFirst
      <3>3. QED
        BY <1>1, <3>2 DEF ComesBefore
    <2>2. QED
      BY <1>1, <1>2, <2>1 DEF EarliestFirst
  <1>4. FreshAreLater'
    <2>1. ASSUME NEW m \in Fresh, Coming(m)' PROVE Less(ToSave \cap advanced, {m})
      <3>1. Coming(m)
        BY <1>1, <2>1 DEF Coming
      <3>2. QED
        BY <3>1 DEF CandidatesInOrder, FreshAreLater
    <2>2. QED
      BY <1>2, <2>1 DEF FreshAreLater, Less
  <1>5. RowsInOrder'
    BY <1>1, <1>2 DEF CandidatesInOrder, RowsInOrder, Less
  <1>6. LiveAreCandidates'
    BY <1>1, <1>2 DEF CandidatesInOrder, LiveAreCandidates
  <1>7. QED
    BY <1>3, <1>4, <1>5, <1>6 DEF CandidatesInOrder

LEMMA SameRequeued ==
    ASSUME UNCHANGED <<Incoming, Adding, Waiting>>, Open' = Open, Open => batch' = batch
    PROVE  Requeued' = Requeued
  BY DEF Requeued

LEMMA SameCandidates ==
    ASSUME UNCHANGED <<arrived, rows, advanced>>, Requeued' = Requeued
    PROVE  Candidates' = Candidates
  BY DEF Candidates, DecryptedRows, Fresh, MessageOf, ToSave, Messages

\* Nothing happens to what waits to be decrypted.
LEMMA CalmOrder ==
    ASSUME OrderInv, UNCHANGED <<arrived, rows, advanced, addBatch, zoneQueue>>,
           Open' = Open, Open => batch' = batch,
           Incoming' = Incoming, TableRead' = TableRead,
           Rising(incoming', "decryptAndCache", Id, Nat),
           onServer' \subseteq onServer, live' \subseteq live,
           stoppingProcessing => stoppingProcessing',
           BatchInOrder'
    PROVE  OrderInv'
  <1>1. Adding' = Adding /\ Waiting' = Waiting
    BY DEF Adding, Waiting
  <1>2. Requeued' = Requeued
    BY <1>1, SameRequeued
  <1>3. Candidates' = Candidates
    BY <1>2, SameCandidates
  <1>4. \A e : Attempts(e)' = Attempts(e)
    BY AttemptsStay
  <1>5. CandidatesInOrder'
    BY <1>3, CandidatesStay DEF OrderInv
  <1>6. AllRequeued'
    BY <1>2, <1>3 DEF OrderInv, AllRequeued
  <1>7. AttemptsCounted'
    BY <1>2, <1>3, <1>4 DEF OrderInv, AttemptsCounted, ItemsCounted
  <1>8. PendingInOrder'
    BY <1>1, <1>2 DEF OrderInv, PendingInOrder
  <1>9. QED
    BY <1>5, <1>6, <1>7, <1>8 DEF OrderInv

LEMMA BatchStays ==
    ASSUME BatchInOrder, UNCHANGED <<arrived, advanced>>, batch'.plain = batch.plain,
           Open' = Open, Open => batch' = batch,
           Rising(encrypted', "decrypt", Id, Nat),
           \A i, j \in DOMAIN encrypted' :
              i < j /\ encrypted'[i].do = "decrypt" => encrypted'[j].do # "queueDecrypted",
           Queued' \subseteq Queued, DecryptJobs' = DecryptJobs,
           stoppingProcessing => stoppingProcessing'
    PROVE  BatchInOrder'
  <1>1. Plain' = Plain /\ Consumed' = Consumed
    BY DEF Plain, Consumed
  <1>2. \A e : MessageOf(e)' = MessageOf(e) /\ ToBeSaved(e)' = ToBeSaved(e)
    BY DEF MessageOf, ToBeSaved, ToSave, Messages
  <1>3. QED
    BY <1>1, <1>2 DEF BatchInOrder, Less

\* A job that is no candidate's leaves or joins encryptedQueue.
LEMMA EncryptedTail ==
    ASSUME DataType, BatchInOrder, encrypted # <<>>, encrypted' = Tail(encrypted)
    PROVE  /\ Rising(encrypted', "decrypt", Id, Nat)
           /\ \A i, j \in DOMAIN encrypted' :
                 i < j /\ encrypted'[i].do = "decrypt" => encrypted'[j].do # "queueDecrypted"
  <1>1. encrypted \in Seq(EncryptedJobs(Envelopes))
    BY DEF DataType, QueueType
  <1>2. Rising(encrypted', "decrypt", Id, Nat)
    BY <1>1, RisingTail DEF BatchInOrder
  <1>3. /\ \A i \in DOMAIN encrypted' :
              i \in Nat /\ i + 1 \in DOMAIN encrypted /\ encrypted'[i] = encrypted[i + 1]
        /\ \A i, j \in DOMAIN encrypted' : i < j => i + 1 < j + 1
    BY <1>1, TailFacts
  <1>4. QED
    BY <1>2, <1>3 DEF BatchInOrder

LEMMA EncryptedAppend ==
    ASSUME DataType, BatchInOrder, NEW e, NEW job, job \notin {"decrypt", "queueDecrypted"},
           Job(job, e) \in EncryptedJobs(Envelopes),
           encrypted' = Append(encrypted, Job(job, e))
    PROVE  /\ Rising(encrypted', "decrypt", Id, Nat)
           /\ \A i, j \in DOMAIN encrypted' :
                 i < j /\ encrypted'[i].do = "decrypt" => encrypted'[j].do # "queueDecrypted"
  <1>1. encrypted \in Seq(EncryptedJobs(Envelopes))
    BY DEF DataType, QueueType
  <1>2. Rising(encrypted', "decrypt", Id, Nat)
    BY <1>1, RisingAppend DEF BatchInOrder
  <1>3. PICK x \in EncryptedJobs(Envelopes) : x = Job(job, e) /\ x.do = job
    BY DEF Job
  <1>4. /\ DOMAIN encrypted' = DOMAIN encrypted \cup {Len(encrypted) + 1}
        /\ encrypted'[Len(encrypted) + 1] = x
        /\ \A i \in DOMAIN encrypted : encrypted'[i] = encrypted[i] /\ ~(Len(encrypted) + 1 < i)
    BY <1>1, <1>3, AppendFacts
  <1>5. QED
    BY <1>2, <1>3, <1>4 DEF BatchInOrder

\* The queue goes from q to r, and no job of the names leaves or joins it.
Quiet(q, r, S, names) ==
    \/ r = q
    \/ q # <<>> /\ r = Tail(q) /\ Head(q).do \notin names
    \/ \E job, e : job \notin names /\ Job(job, e) \in S /\ r = Append(q, Job(job, e))

LEMMA QuietQueue ==
    ASSUME NEW S, NEW q \in Seq(S), NEW r, NEW names, Quiet(q, r, S, names),
           NEW name \in names, NEW f, NEW T
    PROVE  /\ Labels(r, name, f) = Labels(q, name, f)
           /\ Rising(q, name, f, T) => Rising(r, name, f, T)
  <1>1. CASE r = q
    BY <1>1
  <1>2. CASE q # <<>> /\ r = Tail(q) /\ Head(q).do \notin names
    BY <1>2, LabelsTail, RisingTail
  <1>3. ASSUME NEW job, NEW e, job \notin names, Job(job, e) \in S, r = Append(q, Job(job, e))
        PROVE  /\ Labels(r, name, f) = Labels(q, name, f)
               /\ Rising(q, name, f, T) => Rising(r, name, f, T)
    <2>1. job # name
      BY <1>3
    <2>2. Labels(r, name, f) = Labels(q, name, f)
      BY <1>3, <2>1, JobAppended
    <2>3. Rising(q, name, f, T) => Rising(r, name, f, T)
      BY <1>3, <2>1, RisingAppend
    <2>4. QED
      BY <2>2, <2>3
  <1>4. QED
    BY <1>1, <1>2, <1>3 DEF Quiet

QuietIncoming ==
    Quiet(incoming, incoming', IncomingJobs(Envelopes), {"decryptAndCache", "queueAllCached"})
QuietEncrypted ==
    Quiet(encrypted, encrypted', EncryptedJobs(Envelopes), {"decrypt", "queueDecrypted"})
QuietDecrypted == Quiet(decrypted, decrypted', DecryptedJobs(Envelopes), {"handle"})
QuietApp == Quiet(appQueue, appQueue', AppJobs(Envelopes), {"message"})

LEMMA QuietRead ==
    ASSUME DataType, QuietIncoming, arrived' = arrived
    PROVE  /\ Incoming' = Incoming /\ TableRead' = TableRead
           /\ Rising(incoming, "decryptAndCache", Id, Nat) =>
                 Rising(incoming', "decryptAndCache", Id, Nat)
  <1>1. incoming \in Seq(IncomingJobs(Envelopes))
    BY DEF DataType, QueueType
  <1>2. /\ Incoming' = Incoming
        /\ Rising(incoming, "decryptAndCache", Id, Nat) =>
              Rising(incoming', "decryptAndCache", Id, Nat)
    BY <1>1, QuietQueue DEF QuietIncoming, Incoming
  <1>3. Labels(incoming', "queueAllCached", Id) = Labels(incoming, "queueAllCached", Id)
    BY <1>1, QuietQueue DEF QuietIncoming
  <1>4. TableRead <=> Labels(incoming, "queueAllCached", Id) = {}
    BY DEF TableRead, Labels
  <1>5. TableRead' <=> Labels(incoming', "queueAllCached", Id) = {}
    BY DEF TableRead, Labels
  <1>6. QED
    BY <1>2, <1>3, <1>4, <1>5

LEMMA QuietBatch ==
    ASSUME DataType, BatchInOrder, QuietEncrypted, arrived' = arrived
    PROVE  /\ DecryptJobs' = DecryptJobs /\ Queued' = Queued
           /\ Rising(encrypted', "decrypt", Id, Nat)
           /\ \A T : Rising(encrypted, "queueDecrypted", arrived, T) =>
                        Rising(encrypted', "queueDecrypted", arrived, T)
           /\ \A i, j \in DOMAIN encrypted' :
                 i < j /\ encrypted'[i].do = "decrypt" => encrypted'[j].do # "queueDecrypted"
  <1>1. encrypted \in Seq(EncryptedJobs(Envelopes))
    BY DEF DataType, QueueType
  <1>2. DecryptJobs' = DecryptJobs /\ Rising(encrypted', "decrypt", Id, Nat)
    BY <1>1, QuietQueue DEF QuietEncrypted, DecryptJobs, BatchInOrder
  <1>3. /\ Queued' = Queued
        /\ \A T : Rising(encrypted, "queueDecrypted", arrived, T) =>
                     Rising(encrypted', "queueDecrypted", arrived, T)
    BY <1>1, QuietQueue DEF QuietEncrypted, Queued
  <1>4. \A i, j \in DOMAIN encrypted' :
           i < j /\ encrypted'[i].do = "decrypt" => encrypted'[j].do # "queueDecrypted"
    <2>1. CASE encrypted' = encrypted
      BY <2>1 DEF BatchInOrder
    <2>2. CASE encrypted # <<>> /\ encrypted' = Tail(encrypted)
      BY <2>2, EncryptedTail
    <2>3. ASSUME NEW job, NEW e, job \notin {"decrypt", "queueDecrypted"},
                 Job(job, e) \in EncryptedJobs(Envelopes),
                 encrypted' = Append(encrypted, Job(job, e))
          PROVE  \A i, j \in DOMAIN encrypted' :
                    i < j /\ encrypted'[i].do = "decrypt" => encrypted'[j].do # "queueDecrypted"
      BY <2>3, EncryptedAppend
    <2>4. QED
      BY <2>1, <2>2, <2>3 DEF QuietEncrypted, Quiet
  <1>5. QED
    BY <1>2, <1>3, <1>4

LEMMA QuietOrder ==
    ASSUME DataType, OrderInv,
           UNCHANGED <<arrived, rows, advanced, addBatch, zoneQueue, batchVars>>,
           QuietIncoming, QuietEncrypted,
           onServer' \subseteq onServer, live' \subseteq live,
           stoppingProcessing => stoppingProcessing'
    PROVE  OrderInv'
  <1>1. /\ Incoming' = Incoming /\ TableRead' = TableRead
        /\ Rising(incoming', "decryptAndCache", Id, Nat)
    BY QuietRead DEF OrderInv, PendingInOrder
  <1>2. Open' = Open /\ batch' = batch
    BY DEF batchVars, Open
  <1>3. BatchInOrder'
    BY <1>2, QuietBatch, BatchStays DEF OrderInv
  <1>4. QED
    BY <1>1, <1>2, <1>3, CalmOrder

LEMMA UnsavedStays ==
    ASSUME UNCHANGED <<arrived, rows, saved>>
    PROVE  DecryptedRows' = DecryptedRows /\ Unsaved' = Unsaved
  BY DEF DecryptedRows, Unsaved, MessageOf

LEMMA SamePlaces ==
    ASSUME UNCHANGED <<arrived, appVars>>
    PROVE  UNCHANGED <<Saving, InJobs, Passed, failedHere, inMemory, jobQueue, saving>>
  BY DEF appVars, Saving, InJobs, JobMessages, Passed, MessageOf

\* Nothing happens from the conversations' queues on.
LEMMA FirstStays ==
    ASSUME WayInv, UNCHANGED <<arrived, saved, appVars, failedEver, Unsaved>>
    PROVE  SavedFirst' /\ SavingNext' /\ JobsNext'
  <1>1. UNCHANGED <<Saving, InJobs, Passed, jobQueue, saving>>
    BY SamePlaces
  <1>2. \A e : MessageOf(e)' = MessageOf(e)
    BY DEF MessageOf
  <1>3. SavedFirst'
    BY DEF WayInv, SavedFirst, SavedInOrder, LessTogether
  <1>4. SavingNext'
    BY <1>1, <1>2 DEF WayInv, SavingNext, LessTogether, Less
  <1>5. JobsNext'
    BY <1>1, <1>2 DEF WayInv, JobsNext, JobsRise, Less
  <1>6. QED
    BY <1>3, <1>4, <1>5

\* No plaintext moves.
LEMMA CalmWay ==
    ASSUME WayInv, UNCHANGED <<arrived, rows, advanced, saved, appVars, failedEver>>,
           Plaintexts' = Plaintexts \/ (Plaintexts' \subseteq ToSave /\ batchPhase # "acking"),
           batchPhase' = "acking" => batchPhase = "acking",
           TableRead' = TableRead, stoppingProcessing => stoppingProcessing',
           batchPhase = "acking" => batchPhase' = "acking" \/ Plaintexts = {},
           UNCHANGED <<Queued, Handling, Dispatched>>,
           \A e \in DecryptJobs' :
              e \in DecryptJobs \/ Kind[MessageOf(e)] # "unknownUuid",
           \A T : Rising(encrypted, "queueDecrypted", arrived, T) =>
                     Rising(encrypted', "queueDecrypted", arrived, T),
           \A T : Rising(decrypted, "handle", arrived, T) =>
                     Rising(decrypted', "handle", arrived, T),
           \A T : Rising(appQueue, "message", arrived, T) =>
                     Rising(appQueue', "message", arrived, T)
    PROVE  WayInv'
  <1>1. DecryptedRows' = DecryptedRows /\ Unsaved' = Unsaved
    BY UnsavedStays
  <1>2. /\ UNCHANGED <<Saving, InJobs, Passed>>
        /\ \A e : MessageOf(e)' = MessageOf(e)
    BY SamePlaces DEF MessageOf
  <1>3. ToSave' = ToSave
    BY DEF ToSave, Messages
  <1>4. OnlyToSave'
    BY <1>1, <1>2, <1>3 DEF WayInv, OnlyToSave
  <1>5. WayIsKept'
    BY <1>1, <1>2 DEF WayInv, WayIsKept
  <1>6. SavedFirst' /\ SavingNext' /\ JobsNext'
    BY <1>1, FirstStays
  <1>7. DispatchedNext'
    BY <1>1, <1>2 DEF WayInv, DispatchedNext, Less
  <1>8. HandlingNext'
    BY <1>1, <1>2 DEF WayInv, HandlingNext, Less
  <1>9. QueuedNext'
    BY <1>1, <1>2 DEF WayInv, QueuedNext, Less
  <1>10. NoneLeft'
    BY <1>1, <1>2 DEF WayInv, NoneLeft
  <1>11. QED
    BY <1>4, <1>5, <1>6, <1>7, <1>8, <1>9, <1>10 DEF WayInv

LEMMA QuietPlain ==
    ASSUME DataType, QuietDecrypted, QuietApp, arrived' = arrived
    PROVE  /\ Handling' = Handling /\ Dispatched' = Dispatched
           /\ \A T : Rising(decrypted, "handle", arrived, T) =>
                        Rising(decrypted', "handle", arrived, T)
           /\ \A T : Rising(appQueue, "message", arrived, T) =>
                        Rising(appQueue', "message", arrived, T)
  <1>1. /\ Handling' = Handling
        /\ \A T : Rising(decrypted, "handle", arrived, T) =>
                     Rising(decrypted', "handle", arrived, T)
    <2>1. decrypted \in Seq(DecryptedJobs(Envelopes))
      BY DEF DataType, QueueType
    <2>2. QED
      BY <2>1, QuietQueue DEF QuietDecrypted, Handling
  <1>2. /\ Dispatched' = Dispatched
        /\ \A T : Rising(appQueue, "message", arrived, T) =>
                     Rising(appQueue', "message", arrived, T)
    <2>1. appQueue \in Seq(AppJobs(Envelopes))
      BY DEF DataType, QueueType
    <2>2. QED
      BY <2>1, QuietQueue DEF QuietApp, Dispatched
  <1>3. QED
    BY <1>1, <1>2

LEMMA QuietStep ==
    ASSUME DataType, OrderInv, WayInv,
           UNCHANGED <<arrived, rows, advanced, addBatch, zoneQueue, batchVars, saved, appVars, failedEver>>,
           QuietIncoming, QuietEncrypted, QuietDecrypted, QuietApp,
           onServer' \subseteq onServer, live' \subseteq live,
           stoppingProcessing => stoppingProcessing'
    PROVE  OrderInv' /\ WayInv'
  <1>1. OrderInv'
    BY QuietOrder
  <1>2. TableRead' = TableRead
    BY QuietRead
  <1>3. Plaintexts' = Plaintexts /\ batchPhase' = batchPhase
    BY SameViews DEF batchVars
  <1>4. WayInv'
    BY <1>2, <1>3, QuietPlain, QuietBatch, CalmWay DEF OrderInv
  <1>5. QED
    BY <1>1, <1>4

\* Steps that move no envelope to be decrypted, and no plaintext.
LEMMA QuietSteps ==
    ASSUME DataType, OrderInv, WayInv,
           \/ DeliverEmpty \/ StopProcessing \/ OnEmpty \/ BatcherIdle \/ WaitForIncoming
           \/ WaitForEncrypted \/ BatchHandled \/ WaitForDecrypted \/ EmitEmpty
           \/ DecryptionError \/ Delivery
           \/ UNCHANGED vars
    PROVE  OrderInv' /\ WayInv'
  <1>1. CASE DeliverEmpty
    <2>1. Job("onEmpty", 0) \in IncomingJobs(Envelopes)
      BY NewTask DEF IncomingJobs
    <2>2. QuietIncoming
      BY <1>1, <2>1 DEF DeliverEmpty, QuietIncoming, Quiet
    <2>3. QED
      BY <1>1, <2>2, QuietStep
         DEF DeliverEmpty, batchVars, appVars, flagVars, dbVars, QuietEncrypted,
             QuietDecrypted, QuietApp, Quiet
  <1>2. CASE StopProcessing
    BY <1>2, QuietStep
       DEF StopProcessing, serverVars, queueVars, batchVars, appVars, dbVars, historyVars,
           QuietIncoming, QuietEncrypted, QuietDecrypted, QuietApp, Quiet
  <1>3. CASE OnEmpty
    <2>1. QuietIncoming
      BY <1>3 DEF OnEmpty, Next1, QuietIncoming, Quiet
    <2>2. QED
      BY <1>3, <2>1, QuietStep
         DEF OnEmpty, serverVars, batchVars, appVars, dbVars, historyVars,
             QuietEncrypted, QuietDecrypted, QuietApp, Quiet
  <1>4. CASE BatcherIdle
    <2>1. Job("waitForIncoming", 0) \in IncomingJobs(Envelopes)
      BY NewTask DEF IncomingJobs
    <2>2. QuietIncoming
      BY <1>4, <2>1 DEF BatcherIdle, QuietIncoming, Quiet
    <2>3. QED
      BY <1>4, <2>2, QuietStep
         DEF BatcherIdle, serverVars, batchVars, appVars, dbVars, historyVars,
             QuietEncrypted, QuietDecrypted, QuietApp, Quiet
  <1>5. CASE WaitForIncoming
    <2>1. QuietIncoming
      BY <1>5 DEF WaitForIncoming, Next1, QuietIncoming, Quiet
    <2>2. Job("waitForEncrypted", 0) \in EncryptedJobs(Envelopes)
      BY NewTask DEF EncryptedJobs
    <2>3. QuietEncrypted
      BY <1>5, <2>2 DEF WaitForIncoming, QuietEncrypted, Quiet
    <2>4. QED
      BY <1>5, <2>1, <2>3, QuietStep
         DEF WaitForIncoming, serverVars, batchVars, appVars, flagVars, dbVars, historyVars,
             QuietDecrypted, QuietApp, Quiet
  <1>6. CASE WaitForEncrypted
    <2>1. QuietEncrypted
      BY <1>6 DEF WaitForEncrypted, Next1, QuietEncrypted, Quiet
    <2>2. Job("waitForDecrypted", 0) \in DecryptedJobs(Envelopes)
      BY NewTask DEF DecryptedJobs
    <2>3. QuietDecrypted
      BY <1>6, <2>2 DEF WaitForEncrypted, QuietDecrypted, Quiet
    <2>4. QED
      BY <1>6, <2>1, <2>3, QuietStep
         DEF WaitForEncrypted, serverVars, batchVars, appVars, flagVars, dbVars, historyVars,
             QuietIncoming, QuietApp, Quiet
  <1>7. CASE BatchHandled
    <2>1. QuietDecrypted
      BY <1>7 DEF BatchHandled, Next1, QuietDecrypted, Quiet
    <2>2. QED
      BY <1>7, <2>1, QuietStep
         DEF BatchHandled, serverVars, batchVars, appVars, dbVars, historyVars,
             QuietIncoming, QuietEncrypted, QuietApp, Quiet
  <1>8. CASE WaitForDecrypted
    <2>1. QuietDecrypted
      BY <1>8 DEF WaitForDecrypted, Next1, QuietDecrypted, Quiet
    <2>2. Job("emitEmpty", 0) \in AppJobs(Envelopes)
      BY NewTask DEF AppJobs
    <2>3. QuietApp
      BY <1>8, <2>2 DEF WaitForDecrypted, QuietApp, Quiet
    <2>4. QED
      BY <1>8, <2>1, <2>3, QuietStep
         DEF WaitForDecrypted, serverVars, batchVars, appVars, flagVars, dbVars, historyVars,
             QuietIncoming, QuietEncrypted, Quiet
  <1>9. CASE EmitEmpty
    <2>1. QuietApp
      BY <1>9 DEF EmitEmpty, Next1, QuietApp, Quiet
    <2>2. QED
      BY <1>9, <2>1, QuietStep
         DEF EmitEmpty, serverVars, batchVars, appVars, dbVars, historyVars,
             QuietIncoming, QuietEncrypted, QuietDecrypted, Quiet
  <1>10. CASE DecryptionError
    <2>1. QuietDecrypted
      BY <1>10 DEF DecryptionError, Next1, QuietDecrypted, Quiet
    <2>2. QED
      BY <1>10, <2>1, QuietStep
         DEF DecryptionError, serverVars, batchVars, appVars, flagVars, dbVars, historyVars,
             QuietIncoming, QuietEncrypted, QuietApp, Quiet
  <1>11. CASE Delivery
    <2>1. QuietApp
      BY <1>11 DEF Delivery, Next1, QuietApp, Quiet
    <2>2. QED
      BY <1>11, <2>1, QuietStep
         DEF Delivery, serverVars, batchVars, appVars, flagVars, dbVars, historyVars,
             QuietIncoming, QuietEncrypted, QuietDecrypted, Quiet
  <1>12. CASE UNCHANGED vars
    BY <1>12, QuietStep
       DEF vars, serverVars, queueVars, batchVars, appVars, flagVars, dbVars, historyVars,
           QuietIncoming, QuietEncrypted, QuietDecrypted, QuietApp, Quiet
  <1>13. QED
    BY <1>1, <1>2, <1>3, <1>4, <1>5, <1>6, <1>7, <1>8, <1>9, <1>10, <1>11, <1>12
-----------------------------------------------------------------------------
(* A plaintext moves on *)

\* The first of the messages B moves to A, behind F: A and B stay in order before
\* the others of U.
LEMMA MovesOn ==
    ASSUME NEW U, NEW F, NEW A, NEW B, NEW m \in B, m \notin F \cup A,
           Less(A \cap U, U \ (F \cup A)), Less(B \cap U, U \ (F \cup A \cup B)),
           m \in U => Less({m}, (B \ {m}) \cap U)
    PROVE  /\ Less((A \cup {m}) \cap U, U \ (F \cup (A \cup {m})))
           /\ Less((B \ {m}) \cap U, U \ (F \cup (A \cup {m}) \cup (B \ {m})))
           /\ m \in U => Less(A \cap U, {m})
  BY DEF Less

LEMMA OrderQueueDecrypted ==
    ASSUME DataType, IInv, SaveInv, OrderInv, WayInv, QueueDecrypted
    PROVE  OrderInv' /\ WayInv'
  <1>1. UNCHANGED <<incoming, addBatch, zoneQueue, appQueue, arrived, batchVars, batch, batchPhase,
                    rows, advanced, onServer, live, saved, appVars, failedEver, stoppingProcessing>>
    BY DEF QueueDecrypted, serverVars, batchVars, appVars, flagVars, dbVars, historyVars
  <1>2. /\ encrypted # <<>> /\ encrypted' = Tail(encrypted)
        /\ Head(encrypted).do = "queueDecrypted"
        /\ encrypted \in Seq(EncryptedJobs(Envelopes))
        /\ decrypted \in Seq(DecryptedJobs(Envelopes))
    BY DEF QueueDecrypted, Next1, DataType, QueueType
  <1>3. PICK e \in Envelopes :
           /\ e = Head(encrypted).envelope
           /\ MessageOf(e) \in Queued /\ Queued' = Queued \ {MessageOf(e)}
           /\ DecryptJobs' = DecryptJobs
    BY <1>1, <1>2, PopEncrypted DEF IInv, ItemsOnce, PlaintextsOnce
  <1> DEFINE m == MessageOf(e)
  <1>4. /\ decrypted' = Append(decrypted, Job("handle", e))
        /\ Job("handle", e) \in DecryptedJobs(Envelopes)
    BY <1>3, NewTask DEF QueueDecrypted, DecryptedJobs
  <1>5. Handling' = Handling \cup {m}
    BY <1>1, <1>3, <1>4, PushDecrypted
  <1>6. m \notin Passed \cup Dispatched \cup Handling
    BY <1>3 DEF IInv, PlaintextsApart, Given, SaveInv, SavingIsNew, Saving, Passed
  <1>7. OrderInv'
    <2>1. Open' = Open /\ Incoming' = Incoming /\ TableRead' = TableRead
      BY <1>1, SameViews DEF TableRead
    <2>2. BatchInOrder'
      BY <1>1, <1>2, <1>3, <2>1, EncryptedTail, BatchStays DEF OrderInv
    <2>3. QED
      BY <1>1, <2>1, <2>2, CalmOrder DEF OrderInv, PendingInOrder
  <1>8. /\ UNCHANGED <<DecryptedRows, Unsaved, Dispatched, Plaintexts, TableRead>>
        /\ UNCHANGED <<Saving, InJobs, Passed>>
        /\ \A x : MessageOf(x)' = MessageOf(x)
    BY <1>1, UnsavedStays, SameViews, SamePlaces DEF MessageOf, TableRead
  <1>9. OnlyToSave' /\ WayIsKept'
    BY <1>1, <1>3, <1>5, <1>8 DEF WayInv, OnlyToSave, WayIsKept, ToSave, Messages
  <1>10. SavedFirst' /\ SavingNext' /\ JobsNext' /\ DispatchedNext'
    BY <1>1, <1>8, FirstStays DEF WayInv, DispatchedNext, Less
  <1>11. ASSUME ~stoppingProcessing
         PROVE  /\ Rising(decrypted', "handle", arrived, Unsaved)
                /\ Rising(encrypted', "queueDecrypted", arrived, Unsaved)
                /\ Less(Handling' \cap Unsaved, Unsaved \ (Passed \cup Dispatched \cup Handling'))
                /\ Less(Queued' \cap Unsaved,
                        Unsaved \ (Passed \cup Dispatched \cup Handling' \cup Queued'))
    <2>1. /\ Rising(encrypted', "queueDecrypted", arrived, Unsaved)
          /\ m \in Unsaved => Less({m}, Queued' \cap Unsaved)
      BY <1>1, <1>2, <1>3, <1>11, RisingTail DEF WayInv, QueuedNext, Queued, MessageOf
    <2>2. /\ Less((Handling \cup {m}) \cap Unsaved,
                  Unsaved \ (Passed \cup Dispatched \cup (Handling \cup {m})))
          /\ Less((Queued \ {m}) \cap Unsaved,
                  Unsaved \ (Passed \cup Dispatched \cup (Handling \cup {m}) \cup (Queued \ {m})))
          /\ m \in Unsaved => Less(Handling \cap Unsaved, {m})
      <3> HIDE DEF m
      <3>1. QED
        BY <1>3, <1>6, <1>11, <2>1, MovesOn DEF WayInv, HandlingNext, QueuedNext, m
    <2>3. Rising(decrypted', "handle", arrived, Unsaved)
      BY <1>2, <1>4, <1>11, <2>2, RisingAppend DEF WayInv, HandlingNext, Handling, MessageOf
    <2>4. QED
      BY <1>3, <1>5, <2>1, <2>2, <2>3
  <1>12. HandlingNext' /\ QueuedNext'
    BY <1>1, <1>8, <1>11 DEF HandlingNext, QueuedNext
  <1>13. NoneLeft'
    BY <1>1, <1>3, <1>5, <1>8 DEF WayInv, NoneLeft
  <1>14. QED
    BY <1>7, <1>9, <1>10, <1>12, <1>13 DEF WayInv

LEMMA OrderHandle ==
    ASSUME DataType, IInv, SaveInv, OrderInv, WayInv, Handle
    PROVE  OrderInv' /\ WayInv'
  <1>1. UNCHANGED <<incoming, addBatch, zoneQueue, encrypted, arrived, batchVars, batch, batchPhase,
                    rows, advanced, onServer, live, saved, appVars, failedEver, stoppingProcessing>>
    BY DEF Handle, serverVars, batchVars, appVars, flagVars, dbVars, historyVars
  <1>2. /\ decrypted # <<>> /\ decrypted' = Tail(decrypted) /\ Head(decrypted).do = "handle"
        /\ decrypted \in Seq(DecryptedJobs(Envelopes))
        /\ appQueue \in Seq(AppJobs(Envelopes))
    BY DEF Handle, Next1, DataType, QueueType
  <1>3. PICK e \in Envelopes :
           /\ e = Head(decrypted).envelope
           /\ MessageOf(e) \in Handling /\ Handling' = Handling \ {MessageOf(e)}
    BY <1>1, <1>2, PopDecrypted DEF IInv, PlaintextsOnce
  <1> DEFINE m == MessageOf(e)
  <1>4. Job("message", e) \in AppJobs(Envelopes)
    BY <1>3, NewTask DEF AppJobs
  <1>5. /\ stoppingProcessing => Dispatched' = Dispatched /\ appQueue' = appQueue
        /\ ~stoppingProcessing => /\ appQueue' = Append(appQueue, Job("message", e))
                                  /\ Dispatched' = Dispatched \cup {m}
    BY <1>1, <1>3, <1>4, PushApp, SameViews DEF Handle
  <1>6. m \notin Passed \cup Dispatched
    BY <1>3 DEF IInv, PlaintextsApart, Given, SaveInv, SavingIsNew, Saving, Passed
  <1>7. OrderInv'
    BY <1>1, QuietOrder DEF QuietIncoming, QuietEncrypted, Quiet
  <1>8. /\ UNCHANGED <<DecryptedRows, Unsaved, Queued, DecryptJobs, Plaintexts, TableRead>>
        /\ UNCHANGED <<Saving, InJobs, Passed>>
        /\ \A x : MessageOf(x)' = MessageOf(x)
    BY <1>1, UnsavedStays, SameViews, SamePlaces DEF MessageOf, TableRead
  <1>9. OnlyToSave' /\ WayIsKept'
    BY <1>1, <1>3, <1>5, <1>8 DEF WayInv, OnlyToSave, WayIsKept, ToSave, Messages
  <1>10. SavedFirst' /\ SavingNext' /\ JobsNext'
    BY <1>1, <1>8, FirstStays
  <1>11. CASE stoppingProcessing
    <2>1. DispatchedNext' /\ HandlingNext' /\ QueuedNext' /\ NoneLeft'
      BY <1>1, <1>5, <1>8, <1>11
         DEF WayInv, DispatchedNext, HandlingNext, QueuedNext, NoneLeft, Less
    <2>2. QED
      BY <1>7, <1>9, <1>10, <2>1 DEF WayInv
  <1>12. CASE ~stoppingProcessing
    <2>1. /\ Rising(decrypted', "handle", arrived, Unsaved)
          /\ m \in Unsaved => Less({m}, Handling' \cap Unsaved)
      BY <1>1, <1>2, <1>3, <1>12, RisingTail DEF WayInv, HandlingNext, Handling, MessageOf
    <2>2. /\ Less((Dispatched \cup {m}) \cap Unsaved, Unsaved \ (Passed \cup (Dispatched \cup {m})))
          /\ Less((Handling \ {m}) \cap Unsaved,
                  Unsaved \ (Passed \cup (Dispatched \cup {m}) \cup (Handling \ {m})))
          /\ m \in Unsaved => Less(Dispatched \cap Unsaved, {m})
      <3> HIDE DEF m
      <3>1. QED
        BY <1>3, <1>6, <1>12, <2>1, MovesOn DEF WayInv, DispatchedNext, HandlingNext, m
    <2>3. Rising(appQueue', "message", arrived, Unsaved)
      BY <1>2, <1>4, <1>5, <1>12, <2>2, RisingAppend DEF WayInv, DispatchedNext, Dispatched, MessageOf
    <2>4. DispatchedNext' /\ HandlingNext'
      BY <1>1, <1>3, <1>5, <1>8, <1>12, <2>1, <2>2, <2>3 DEF DispatchedNext, HandlingNext
    <2>5. Passed \cup Dispatched' \cup Handling' = Passed \cup Dispatched \cup Handling
      BY <1>3, <1>5, <1>12
    <2>6. QueuedNext'
      BY <1>1, <1>8, <1>12, <2>5 DEF WayInv, QueuedNext
    <2>7. NoneLeft'
      BY <1>1, <1>8, <1>12, <2>5 DEF WayInv, NoneLeft
    <2>8. QED
      BY <1>7, <1>9, <1>10, <2>4, <2>6, <2>7 DEF WayInv
  <1>13. QED
    BY <1>11, <1>12

LEMMA OrderOnMessageReceived ==
    ASSUME DataType, IInv, SaveInv, OrderInv, WayInv, OnMessageReceived
    PROVE  OrderInv' /\ WayInv'
  <1>1. UNCHANGED <<incoming, addBatch, zoneQueue, encrypted, decrypted, arrived, batchVars, batch,
                    batchPhase, rows, advanced, onServer, live, saved, saving, failedHere,
                    failedEver, stoppingProcessing>>
    BY DEF OnMessageReceived, serverVars, batchVars, flagVars, dbVars, historyVars
  <1>2. /\ appQueue # <<>> /\ appQueue' = Tail(appQueue) /\ Head(appQueue).do = "message"
        /\ appQueue \in Seq(AppJobs(Envelopes))
    BY DEF OnMessageReceived, Next1, DataType, QueueType
  <1>3. PICK e \in Envelopes :
           /\ e = Head(appQueue).envelope
           /\ MessageOf(e) \in Dispatched /\ Dispatched' = Dispatched \ {MessageOf(e)}
    BY <1>1, <1>2, PopApp DEF IInv, PlaintextsOnce
  <1> DEFINE m == MessageOf(e)
             c == ConversationOf[m]
             q == jobQueue[c]
             n == Len(q) + 1
  <1>4. m \notin Passed
    BY <1>3 DEF IInv, PlaintextsApart, Given, SaveInv, SavingIsNew, Saving, Passed
  <1>5. jobQueue' = [jobQueue EXCEPT ![c] = Append(@, e)]
    BY <1>3 DEF OnMessageReceived
  <1>6. InJobs' = InJobs \cup {m}
    BY <1>1, <1>4, <1>5, PushJob DEF IInv, PlaintextsApart, Passed
  <1>7. /\ m \in Messages /\ c \in Conversations
        /\ q \in Seq(Envelopes) /\ jobQueue \in [Conversations -> Seq(Envelopes)]
    BY DEF MessageOf, Envelopes, DataType, ServerType, AppType, Conversations
  <1>8. /\ DOMAIN jobQueue'[c] = DOMAIN q \cup {n} /\ jobQueue'[c][n] = e
        /\ \A i \in DOMAIN q : jobQueue'[c][i] = q[i] /\ ~(n < i)
        /\ ~(n < n)
        /\ \A d \in Conversations : d # c => jobQueue'[d] = jobQueue[d]
    <2> HIDE DEF c
    <2>1. jobQueue'[c] = Append(q, e)
      BY <1>5, <1>7
    <2>2. \A d \in Conversations : d # c => jobQueue'[d] = jobQueue[d]
      BY <1>5, <1>7
    <2> HIDE DEF q
    <2>3. QED
      BY <1>7, <2>1, <2>2, AppendFacts
  <1>9. OrderInv'
    BY <1>1, QuietOrder DEF QuietIncoming, QuietEncrypted, Quiet
  <1>10. /\ UNCHANGED <<DecryptedRows, Unsaved, Queued, Handling, DecryptJobs, Plaintexts,
                        TableRead, Saving>>
         /\ \A x : MessageOf(x)' = MessageOf(x)
    BY <1>1, UnsavedStays, SameViews DEF MessageOf, TableRead, Saving
  <1>11. Passed' = Passed \cup {m}
    BY <1>1, <1>6, <1>10 DEF Passed
  <1>12. /\ Rising(appQueue', "message", arrived, Unsaved)
         /\ m \in Unsaved => Less({m}, Dispatched' \cap Unsaved)
    BY <1>1, <1>2, <1>3, RisingTail DEF WayInv, DispatchedNext, Dispatched, MessageOf
  <1> HIDE DEF n, q, c, m
  <1>13. m \in Unsaved => Less({m}, Unsaved \ Passed')
    BY <1>3, <1>11, <1>12 DEF WayInv, DispatchedNext, Less, m
  <1>14. SavedFirst'
    BY <1>1, <1>10 DEF WayInv, SavedFirst, SavedInOrder, LessTogether
  <1>15. SavingNext'
    <2>1. LessTogether(Saving, InJobs' \cap Unsaved)
      BY <1>4, <1>6 DEF WayInv, SavingNext, LessTogether, Less
    <2>2. Less(Saving, Unsaved \ Passed')
      BY <1>11 DEF WayInv, SavingNext, Less
    <2>3. QED
      BY <1>1, <1>10, <2>1, <2>2 DEF WayInv, SavingNext
  <1>16. JobsNext'
    <2>1. \A i \in DOMAIN q : MessageOf(q[i]) \in InJobs
      BY <1>7 DEF InJobs, JobMessages, q
    <2>2. \A i \in DOMAIN q :
             MessageOf(q[i]) \in Unsaved /\ m \in Unsaved => MessageOf(q[i]) < m
      BY <1>4, <2>1 DEF WayInv, JobsNext, Less
    <2>3. JobsRise(q)
      BY <1>7 DEF WayInv, JobsNext, q
    <2>4. JobsRise(jobQueue'[c])
      BY <1>8, <2>2, <2>3 DEF JobsRise, m
    <2>5. \A d \in Conversations : JobsRise(jobQueue'[d])
      BY <1>8, <2>4 DEF WayInv, JobsNext
    <2>6. \A d \in Conversations : JobsRise(jobQueue[d])'
      BY <1>10, <2>5 DEF JobsRise
    <2>7. Less(InJobs' \cap Unsaved, Unsaved \ Passed')
      BY <1>6, <1>11, <1>13 DEF WayInv, JobsNext, Less
    <2>8. QED
      BY <1>10, <2>6, <2>7 DEF JobsNext
  <1>17. Passed' \cup Dispatched' = Passed \cup Dispatched
    BY <1>3, <1>11 DEF m
  <1>18. DispatchedNext'
    BY <1>1, <1>3, <1>10, <1>12, <1>17 DEF WayInv, DispatchedNext, Less
  <1>19. OnlyToSave' /\ WayIsKept'
    BY <1>1, <1>3, <1>6, <1>10 DEF WayInv, OnlyToSave, WayIsKept, ToSave, Messages, m
  <1>20. HandlingNext' /\ QueuedNext' /\ NoneLeft'
    BY <1>1, <1>10, <1>17 DEF WayInv, HandlingNext, QueuedNext, NoneLeft
  <1>21. QED
    BY <1>9, <1>14, <1>15, <1>16, <1>18, <1>19, <1>20 DEF WayInv

\* The queue of a conversation without its first envelope rises all the same; a first
\* message that is not saved is before the others of its conversation that wait.
LEMMA RestOfJobs ==
    ASSUME DataType, IInv, WayInv, NEW c \in Conversations, jobQueue[c] # <<>>,
           UNCHANGED <<arrived, rows, saved>>,
           jobQueue' = [jobQueue EXCEPT ![c] = Tail(@)]
    PROVE  /\ \A d \in Conversations : JobsRise(jobQueue[d])'
           /\ MessageOf(Head(jobQueue[c])) \in InJobs
           /\ InJobs' = InJobs \ {MessageOf(Head(jobQueue[c]))}
           /\ MessageOf(Head(jobQueue[c])) \in Unsaved =>
                 LessTogether({MessageOf(Head(jobQueue[c]))}, InJobs' \cap Unsaved)
  <1> DEFINE q == jobQueue[c]
             m == MessageOf(Head(q))
  <1>1. /\ m \in InJobs /\ m \in JobMessages(q) /\ InJobs' = InJobs \ {m}
        /\ q \in Seq(Envelopes) /\ jobQueue \in [Conversations -> Seq(Envelopes)]
    BY PopJob, FirstOfConversation DEF IInv, PlaintextsApart, DataType, AppType
  <1>2. /\ jobQueue'[c] = Tail(q)
        /\ \A d \in Conversations : d # c => jobQueue'[d] = jobQueue[d]
    BY <1>1
  <1>3. /\ Head(q) = q[1] /\ 1 \in DOMAIN q
        /\ \A i \in DOMAIN Tail(q) : i + 1 \in DOMAIN q /\ Tail(q)[i] = q[i + 1] /\ i \in Nat
        /\ \A i \in DOMAIN q : i \in Nat /\ (i = 1 \/ 1 < i)
    BY <1>1, TailFacts
  <1>4. Unsaved' = Unsaved /\ \A x : MessageOf(x)' = MessageOf(x)
    BY UnsavedStays DEF MessageOf
  <1> HIDE DEF q
  <1>5. JobsRise(q)
    BY DEF WayInv, JobsNext, q
  <1>6. JobsRise(Tail(q))
    <2> DEFINE t == Tail(q)
    <2>1. \A i, j \in DOMAIN t : i < j => i + 1 < j + 1
      BY <1>3
    <2> HIDE DEF t
    <2>2. QED
      BY <1>3, <1>5, <2>1 DEF JobsRise, t
  <1>7. \A d \in Conversations : JobsRise(jobQueue'[d])
    BY <1>2, <1>6 DEF WayInv, JobsNext
  <1>8. \A d \in Conversations : JobsRise(jobQueue[d])'
    BY <1>4, <1>7 DEF JobsRise
  <1>9. ASSUME m \in Unsaved, NEW x \in InJobs' \cap Unsaved, Together(m, x)
        PROVE  m < x
    <2>1. x \in InJobs /\ x # m
      BY <1>1, <1>9
    <2>2. PICK d \in Conversations : x \in JobMessages(jobQueue[d])
      BY <2>1 DEF InJobs
    <2>3. d = c
      BY <1>1, <1>9, <2>2 DEF IInv, PlaintextsApart, JobsOnce, Together, q
    <2>4. PICK i \in DOMAIN q : x = MessageOf(q[i])
      BY <2>2, <2>3 DEF JobMessages, q
    <2>5. 1 < i
      BY <1>3, <2>1, <2>4
    <2>6. QED
      BY <1>3, <1>5, <1>9, <2>4, <2>5 DEF JobsRise
  <1>10. QED
    BY <1>1, <1>8, <1>9 DEF LessTogether, q

LEMMA OrderHandleDataMessage ==
    ASSUME DataType, IInv, SaveInv, OrderInv, WayInv,
           NEW c \in Conversations, HandleDataMessage(c)
    PROVE  OrderInv' /\ WayInv'
  <1>1. UNCHANGED <<incoming, addBatch, zoneQueue, encrypted, decrypted, appQueue, arrived,
                    batchVars, batch, batchPhase, rows, advanced, onServer, live, saved,
                    failedHere, failedEver, stoppingProcessing>>
    BY DEF HandleDataMessage, serverVars, queueVars, batchVars, flagVars, dbVars, historyVars
  <1> DEFINE e == Head(jobQueue[c])
             m == MessageOf(e)
  <1>2. /\ jobQueue[c] # <<>> /\ jobQueue' = [jobQueue EXCEPT ![c] = Tail(@)]
        /\ saving \in Seq(Envelopes)
    BY DEF HandleDataMessage, DataType, AppType
  <1>3. /\ \A d \in Conversations : JobsRise(jobQueue[d])'
        /\ m \in InJobs /\ InJobs' = InJobs \ {m}
        /\ m \in Unsaved => LessTogether({m}, InJobs' \cap Unsaved)
    BY <1>1, <1>2, RestOfJobs
  <1>4. m \notin Saving /\ m \notin inMemory
    BY <1>3 DEF IInv, PlaintextsApart, SaveInv, SavingIsNew, Saving
  <1>5. OrderInv'
    BY <1>1, QuietOrder DEF QuietIncoming, QuietEncrypted, Quiet
  <1>6. /\ UNCHANGED <<DecryptedRows, Unsaved, Queued, Handling, Dispatched, DecryptJobs,
                       Plaintexts, TableRead>>
        /\ \A x : MessageOf(x)' = MessageOf(x)
    BY <1>1, UnsavedStays, SameViews DEF MessageOf, TableRead
  <1>7. OnlyToSave' /\ SavedFirst'
    BY <1>1, <1>6 DEF WayInv, OnlyToSave, SavedFirst, SavedInOrder, LessTogether, ToSave, Messages
  <1>8. ASSUME Saving \subseteq Saving', Unsaved \ Passed' = Unsaved \ Passed,
               Passed \cap Unsaved = Passed' \cap Unsaved,
               SavingNext', WayIsKept'
        PROVE  WayInv'
    <2>1. JobsNext'
      BY <1>3, <1>6, <1>8 DEF WayInv, JobsNext, Less
    <2>2. DispatchedNext' /\ HandlingNext' /\ QueuedNext' /\ NoneLeft'
      <3>1. \A T : Unsaved \ (Passed' \cup T) = Unsaved \ (Passed \cup T)
        BY <1>8
      <3>2. DispatchedNext'
        BY <1>1, <1>6, <3>1 DEF WayInv, DispatchedNext
      <3>3. Unsaved \ (Passed' \cup Dispatched \cup Handling)
               = Unsaved \ (Passed \cup Dispatched \cup Handling)
        BY <1>8
      <3>4. HandlingNext'
        BY <1>1, <1>6, <3>3 DEF WayInv, HandlingNext
      <3>5. Unsaved \ (Passed' \cup Dispatched \cup Handling \cup Queued)
               = Unsaved \ (Passed \cup Dispatched \cup Handling \cup Queued)
        BY <1>8
      <3>6. QueuedNext'
        BY <1>1, <1>6, <3>5 DEF WayInv, QueuedNext
      <3>7. NoneLeft'
        BY <1>1, <1>6, <1>8 DEF WayInv, NoneLeft
      <3>8. QED
        BY <3>2, <3>4, <3>6, <3>7
    <2>3. QED
      BY <1>7, <1>8, <2>1, <2>2 DEF WayInv
  <1>9. CASE Known(m)
    <2>1. saving' = saving /\ m \in Range(saved)
      BY <1>4, <1>9 DEF HandleDataMessage, Known
    <2>2. Saving' = Saving /\ m \notin Unsaved
      BY <1>6, <2>1 DEF Saving, Unsaved
    <2>3. Unsaved \ Passed' = Unsaved \ Passed /\ Passed \cap Unsaved = Passed' \cap Unsaved
      BY <1>1, <1>3, <2>2 DEF Passed
    <2>4. SavingNext'
      BY <1>3, <1>6, <2>1, <2>2, <2>3 DEF WayInv, SavingNext, LessTogether, Less
    <2>5. WayIsKept'
      BY <1>1, <1>3, <1>6, <2>2 DEF WayInv, WayIsKept
    <2>6. QED
      BY <1>5, <1>8, <2>2, <2>3, <2>4, <2>5
  <1>10. CASE ~Known(m)
    <2>1. saving' = Append(saving, e) /\ m \notin Range(saved)
      BY <1>10 DEF HandleDataMessage, Known
    <2>2. m \in Unsaved
      BY <1>3, <2>1 DEF WayInv, WayIsKept
    <2> DEFINE n == Len(saving) + 1
    <2>3. /\ DOMAIN saving' = DOMAIN saving \cup {n} /\ saving'[n] = e
          /\ \A i \in DOMAIN saving : saving'[i] = saving[i] /\ ~(n < i)
          /\ ~(n < n)
      <3>1. e \in Envelopes
        BY <1>2, FirstOfConversation
      <3> HIDE DEF e
      <3>2. QED
        BY <1>2, <2>1, <3>1, AppendFacts
    <2> HIDE DEF n, e
    <2>4. Saving' = Saving \cup {m}
      BY <1>6, <2>3 DEF Saving
    <2> HIDE DEF m
    <2>5. Passed' = Passed
      BY <1>1, <1>3, <2>4 DEF Passed
    <2>6. SavingNext'
      <3>1. \A i \in DOMAIN saving :
               Together(MessageOf(saving[i]), m) => MessageOf(saving[i]) < m
        BY <1>3, <2>2 DEF WayInv, SavingNext, Saving, LessTogether
      <3>2. \A i, j \in DOMAIN saving' :
               i < j /\ Together(MessageOf(saving'[i]), MessageOf(saving'[j])) =>
                  MessageOf(saving'[i]) < MessageOf(saving'[j])
        BY <2>3, <3>1 DEF WayInv, SavingNext, m
      <3>3. LessTogether(Saving', InJobs' \cap Unsaved)
        BY <1>3, <2>2, <2>4 DEF WayInv, SavingNext, LessTogether
      <3>4. Less(Saving', Unsaved \ Passed)
        BY <1>3, <2>2, <2>4 DEF WayInv, SavingNext, JobsNext, Less
      <3>5. QED
        BY <1>6, <2>5, <3>2, <3>3, <3>4 DEF SavingNext
    <2>7. WayIsKept'
      BY <1>1, <1>3, <1>6, <2>2, <2>4 DEF WayInv, WayIsKept
    <2>8. QED
      BY <1>5, <1>8, <2>4, <2>5, <2>6, <2>7
  <1>11. QED
    BY <1>9, <1>10

LEMMA OrderHandleThrows ==
    ASSUME DataType, IInv, SaveInv, OrderInv, WayInv,
           NEW c \in Conversations, HandleThrows(c)
    PROVE  OrderInv' /\ WayInv'
  <1> DEFINE m == MessageOf(Head(jobQueue[c]))
  <1>1. UNCHANGED <<incoming, addBatch, zoneQueue, encrypted, decrypted, appQueue, arrived,
                    batchVars, batch, batchPhase, rows, advanced, onServer, live, saved,
                    saving, stoppingProcessing>>
    BY DEF HandleThrows, serverVars, queueVars, batchVars, flagVars, dbVars
  <1>2. /\ jobQueue[c] # <<>> /\ jobQueue' = [jobQueue EXCEPT ![c] = Tail(@)]
        /\ failedHere' = failedHere \cup {m} /\ failedEver' = failedEver \cup {m}
    BY DEF HandleThrows
  <1>3. /\ \A d \in Conversations : JobsRise(jobQueue[d])'
        /\ m \in InJobs /\ InJobs' = InJobs \ {m}
    BY <1>1, <1>2, RestOfJobs
  <1>4. OrderInv'
    BY <1>1, QuietOrder DEF QuietIncoming, QuietEncrypted, Quiet
  <1>5. /\ UNCHANGED <<DecryptedRows, Unsaved, Queued, Handling, Dispatched, DecryptJobs,
                       Plaintexts, TableRead, Saving>>
        /\ \A x : MessageOf(x)' = MessageOf(x)
    BY <1>1, UnsavedStays, SameViews DEF MessageOf, TableRead, Saving
  <1> HIDE DEF m
  <1>6. Passed' = Passed
    BY <1>2, <1>3, <1>5 DEF Passed
  <1>7. OnlyToSave' /\ WayIsKept'
    BY <1>1, <1>3, <1>5 DEF WayInv, OnlyToSave, WayIsKept, ToSave, Messages
  <1>8. SavedFirst'
    BY <1>1, <1>2, <1>5 DEF WayInv, SavedFirst, SavedInOrder, LessTogether
  <1>9. SavingNext'
    BY <1>1, <1>3, <1>5, <1>6 DEF WayInv, SavingNext, LessTogether, Less
  <1>10. JobsNext'
    BY <1>3, <1>5, <1>6 DEF WayInv, JobsNext, Less
  <1>11. DispatchedNext' /\ HandlingNext' /\ QueuedNext' /\ NoneLeft'
    BY <1>1, <1>5, <1>6 DEF WayInv, DispatchedNext, HandlingNext, QueuedNext, NoneLeft
  <1>12. QED
    BY <1>4, <1>7, <1>8, <1>9, <1>10, <1>11 DEF WayInv

LEMMA OrderSaveAndConfirm ==
    ASSUME DataType, IInv, SaveInv, OrderInv, WayInv, SaveAndConfirm
    PROVE  OrderInv' /\ WayInv'
  <1> DEFINE m == MessageOf(Head(saving))
  <1>1. UNCHANGED <<incoming, addBatch, zoneQueue, encrypted, decrypted, appQueue, arrived, batchVars,
                    batch, batchPhase, rows, advanced, onServer, live, stoppingProcessing,
                    jobQueue, failedHere, failedEver>>
    BY DEF SaveAndConfirm, serverVars, queueVars, batchVars, flagVars, dbVars, historyVars
  <1>2. /\ saving # <<>> /\ saving' = Tail(saving) /\ saved' = Append(saved, m)
        /\ saving \in Seq(Envelopes) /\ saved \in Seq(Messages)
    BY DEF SaveAndConfirm, DataType, AppType, TableType
  <1>3. /\ Head(saving) = saving[1] /\ Head(saving) \in Envelopes /\ 1 \in DOMAIN saving
        /\ \A i \in DOMAIN saving' : /\ i \in Nat /\ 1 < i + 1
                                     /\ i + 1 \in DOMAIN saving /\ saving'[i] = saving[i + 1]
        /\ \A i \in DOMAIN saving : i = 1 \/ (i - 1 \in DOMAIN saving' /\ saving'[i - 1] = saving[i])
    BY <1>2, TailFacts
  <1>4. OrderInv'
    BY <1>1, QuietOrder DEF QuietIncoming, QuietEncrypted, Quiet
  <1>5. /\ UNCHANGED <<DecryptedRows, Queued, Handling, Dispatched, DecryptJobs, Plaintexts, TableRead>>
        /\ InJobs' = InJobs
        /\ \A x : MessageOf(x)' = MessageOf(x)
    BY <1>1, SameViews DEF MessageOf, TableRead
  <1>6. m \in Saving /\ m \in inMemory /\ m \notin Range(saved)
    BY <1>3 DEF Saving, SaveInv, SavingIsNew
  <1>7. m \in Unsaved /\ m \in ToSave /\ m \in Messages /\ m \in advanced
    BY <1>6 DEF WayInv, WayIsKept, OnlyToSave, Unsaved, ToSave, IInv, PlaintextsApart, Given
  <1>8. Range(saved') = Range(saved) \cup {m}
    BY <1>2, <1>7, RangeFacts
  <1>9. Unsaved' = Unsaved \ {m}
    BY <1>5, <1>8 DEF Unsaved
  <1>10. /\ \A i \in DOMAIN saving' : MessageOf(saving'[i]) # m
         /\ \A i, j \in DOMAIN saving' :
               i < j /\ Together(MessageOf(saving'[i]), MessageOf(saving'[j])) =>
                  MessageOf(saving'[i]) < MessageOf(saving'[j])
         /\ \A i \in DOMAIN saving' :
               Together(m, MessageOf(saving'[i])) => m < MessageOf(saving'[i])
    <2>1. \A i, j \in DOMAIN saving' : i < j => i + 1 < j + 1
      BY <1>3
    <2>2. \A i \in DOMAIN saving' : i + 1 # 1
      BY <1>3
    <2>3. QED
      BY <1>3, <2>1, <2>2 DEF WayInv, SavingNext, SaveInv, SavingOnce
  <1>11. Saving' = Saving \ {m}
    <2>1. Saving \subseteq Saving' \cup {m}
      BY <1>3, <1>5 DEF Saving
    <2>2. Saving' \subseteq Saving
      BY <1>3, <1>5 DEF Saving
    <2>3. m \notin Saving'
      BY <1>5, <1>10 DEF Saving
    <2>4. QED
      BY <2>1, <2>2, <2>3
  <1>12. LessTogether({m}, Unsaved' \ failedEver)
    <2>1. \A u \in Saving' : Together(m, u) => m < u
      BY <1>5, <1>10 DEF Saving
    <2>2. \A u \in Unsaved \ Passed : m < u
      BY <1>6 DEF WayInv, SavingNext, Less
    <2>3. \A u \in InJobs \cap Unsaved : Together(m, u) => m < u
      BY <1>6 DEF WayInv, SavingNext, LessTogether
    <2>4. failedHere \subseteq failedEver
      BY DEF DataType, AppType
    <2> HIDE DEF m
    <2>5. QED
      BY <1>9, <1>11, <2>1, <2>2, <2>3, <2>4 DEF LessTogether, Passed
  <1>13. m \notin failedEver => LessTogether(Range(saved), {m})
    BY <1>7 DEF WayInv, SavedFirst, LessTogether
  <1>14. SavedFirst'
    <2>1. LessTogether(Range(saved'), Unsaved' \ failedEver)
      <3> HIDE DEF m
      <3>1. QED
        BY <1>8, <1>9, <1>12 DEF WayInv, SavedFirst, LessTogether
    <2>2. SavedInOrder'
      <3> DEFINE n == Len(saved) + 1
      <3>1. /\ DOMAIN saved' = DOMAIN saved \cup {n} /\ saved'[n] = m
            /\ \A i \in DOMAIN saved : saved'[i] = saved[i] /\ ~(n < i)
            /\ ~(n < n)
        BY <1>2, <1>7, AppendFacts
      <3> HIDE DEF n
      <3>2. \A i \in DOMAIN saved :
               Together(saved[i], m) => saved[i] <= m \/ m \in failedEver
        <4>1. Messages \subseteq Nat
          BY ReceiverAssumption DEF Messages
        <4>2. \A i \in DOMAIN saved : saved[i] \in Messages /\ saved[i] \in Range(saved)
          BY <1>2 DEF Range
        <4>3. \A i \in DOMAIN saved :
                 Together(saved[i], m) => saved[i] < m \/ m \in failedEver
          BY <1>13, <4>2 DEF LessTogether
        <4>4. m \in Nat /\ \A i \in DOMAIN saved : saved[i] \in Nat
          BY <1>7, <4>1, <4>2
        <4> HIDE DEF m
        <4>5. QED
          BY <4>3, <4>4
      <3> HIDE DEF m
      <3>3. QED
        BY <1>1, <3>1, <3>2 DEF WayInv, SavedFirst, SavedInOrder, Together
    <2>3. QED
      BY <1>1, <2>1, <2>2 DEF SavedFirst
  <1> HIDE DEF m
  <1>15. Unsaved' \ Passed' = Unsaved \ Passed /\ m \in Passed
         /\ Passed \subseteq Passed' \cup {m} /\ Passed' \subseteq Passed
    BY <1>1, <1>5, <1>6, <1>9, <1>11 DEF Passed
  <1>16. SavingNext' /\ JobsNext'
    <2>1. SavingNext'
      BY <1>5, <1>9, <1>10, <1>11, <1>15 DEF WayInv, SavingNext, LessTogether, Less
    <2>2. \A c \in Conversations : JobsRise(jobQueue[c])'
      BY <1>1, <1>5, <1>9 DEF WayInv, JobsNext, JobsRise
    <2>3. QED
      BY <1>5, <1>9, <1>15, <2>1, <2>2 DEF WayInv, JobsNext, Less
  <1>17. DispatchedNext'
    <2>1. Unsaved' \ (Passed' \cup Dispatched') = Unsaved \ (Passed \cup Dispatched)
      BY <1>5, <1>9, <1>15
    <2>2. Rising(appQueue', "message", arrived', Unsaved')
      BY <1>1, <1>9, RisingWithin DEF WayInv, DispatchedNext
    <2>3. QED
      BY <1>5, <1>9, <2>1, <2>2 DEF WayInv, DispatchedNext, Less
  <1>18. HandlingNext'
    <2>1. Unsaved' \ (Passed' \cup Dispatched' \cup Handling')
             = Unsaved \ (Passed \cup Dispatched \cup Handling)
      BY <1>5, <1>9, <1>15
    <2>2. ~stoppingProcessing => Rising(decrypted', "handle", arrived', Unsaved')
      BY <1>1, <1>9, RisingWithin DEF WayInv, HandlingNext
    <2>3. QED
      BY <1>1, <1>5, <1>9, <2>1, <2>2 DEF WayInv, HandlingNext, Less
  <1>19. QueuedNext'
    <2>1. Unsaved' \ (Passed' \cup Dispatched' \cup Handling' \cup Queued')
             = Unsaved \ (Passed \cup Dispatched \cup Handling \cup Queued)
      BY <1>5, <1>9, <1>15
    <2>2. ~stoppingProcessing => Rising(encrypted', "queueDecrypted", arrived', Unsaved')
      BY <1>1, <1>9, RisingWithin DEF WayInv, QueuedNext
    <2>3. QED
      BY <1>1, <1>5, <1>9, <2>1, <2>2 DEF WayInv, QueuedNext, Less
  <1>20. NoneLeft'
    BY <1>1, <1>5, <1>9, <1>15 DEF WayInv, NoneLeft
  <1>21. OnlyToSave'
    BY <1>1, <1>5, <1>7, <1>8 DEF WayInv, OnlyToSave, ToSave, Messages
  <1>22. WayIsKept'
    <2>1. batchPhase = "acking" => m \notin Plaintexts
      BY <1>6 DEF IInv, PlaintextsApart, Given
    <2>2. QED
      BY <1>1, <1>5, <1>7, <1>8, <1>9, <1>11, <2>1 DEF WayInv, WayIsKept
  <1>23. QED
    BY <1>4, <1>14, <1>16, <1>17, <1>18, <1>19, <1>20, <1>21, <1>22 DEF WayInv
-----------------------------------------------------------------------------
(* An envelope goes to the next queue *)

LEMMA MoveInOrder ==
    ASSUME DataType, OrderInv, WayInv,
           UNCHANGED <<arrived, batchVars, rows, advanced, onServer, live, saved, appVars, failedEver,
                       stoppingProcessing>>,
           UNCHANGED <<encrypted, decrypted, appQueue>>,
           TableRead' = TableRead, Requeued' = Requeued,
           PendingInOrder', AttemptsCounted'
    PROVE  OrderInv' /\ WayInv'
  <1>1. UNCHANGED <<batch, batchPhase>>
    BY DEF batchVars
  <1>2. /\ UNCHANGED <<Plaintexts, Plain, Queued, Handling, Dispatched, DecryptJobs, Open>>
    BY <1>1, SameViews
  <1>3. Candidates' = Candidates
    BY SameCandidates
  <1>4. CandidatesInOrder'
    BY <1>3, CandidatesStay DEF OrderInv
  <1>5. AllRequeued'
    BY <1>1, <1>2, <1>3 DEF OrderInv, AllRequeued
  <1>6. BatchInOrder'
    BY <1>1, <1>2, BatchStays DEF OrderInv, BatchInOrder
  <1>7. WayInv'
    BY <1>1, <1>2, CalmWay
  <1>8. QED
    BY <1>4, <1>5, <1>6, <1>7 DEF OrderInv

LEMMA OrderDecryptAndCache ==
    ASSUME DataType, IInv, SaveInv, OrderInv, WayInv, DecryptAndCache
    PROVE  OrderInv' /\ WayInv'
  <1>1. /\ UNCHANGED <<arrived, batchVars, rows, advanced, onServer, live, saved, appVars, failedEver,
                       stoppingProcessing, zoneQueue, encrypted, decrypted, appQueue>>
        /\ UNCHANGED <<batch, batchPhase>>
    BY DEF DecryptAndCache, serverVars, batchVars, appVars, flagVars, dbVars, historyVars
  <1>2. /\ incoming # <<>> /\ incoming' = Tail(incoming) /\ Head(incoming).do = "decryptAndCache"
        /\ incoming \in Seq(IncomingJobs(Envelopes))
        /\ addBatch \in Seq(ItemsOf(Envelopes))
    BY DEF DecryptAndCache, Next1, DataType, QueueType
  <1>3. PICK e \in Envelopes :
           /\ e = Head(incoming).envelope
           /\ e \in Incoming /\ Incoming' = Incoming \ {e}
    BY <1>1, <1>2, PopIncoming DEF IInv, ItemsOnce
  <1>4. PICK item \in ItemsOf(Envelopes) : item = Item(e, 1)
    <2>1. Item(e, 1) \in ItemsOf(Envelopes)
      BY ReceiverAssumption DEF Item, ItemsOf
    <2>2. QED
      BY <2>1
  <1>5. item.envelope = e /\ item.attempts = 1 /\ addBatch' = Append(addBatch, item)
    BY <1>3, <1>4 DEF Item, DecryptAndCache
  <1>6. /\ Rising(incoming', "decryptAndCache", Id, Nat)
        /\ Less({e}, Incoming')
    <2>1. e \in Nat /\ Id[e] = e
      BY DEF Envelopes, Id
    <2>2. Incoming' \subseteq Nat
      BY <1>3, AllArrived DEF Envelopes
    <2>3. /\ Rising(Tail(incoming), "decryptAndCache", Id, Nat)
          /\ Less({e}, Labels(Tail(incoming), "decryptAndCache", Id) \cap Nat)
      BY <1>2, <1>3, <2>1, RisingTail DEF OrderInv, PendingInOrder
    <2>4. Incoming' = Labels(Tail(incoming), "decryptAndCache", Id)
      BY <1>2 DEF Incoming
    <2>5. QED
      BY <1>2, <2>2, <2>3, <2>4
  <1>7. Less(Adding, {e})
    BY <1>3 DEF OrderInv, PendingInOrder, Less
  <1>8. ItemOrder(addBatch') /\ Adding' = Adding \cup {e}
    <2>1. Less(Envs(addBatch), {item.envelope})
      BY <1>5, <1>7 DEF Adding
    <2>2. /\ ItemOrder(Append(addBatch, item))
          /\ Envs(Append(addBatch, item)) = Envs(addBatch) \cup {e}
      <3>1. ItemOrder(addBatch)
        BY DEF OrderInv, PendingInOrder
      <3>2. addBatch \in Seq(ItemsOf(Envelopes))
        BY <1>2
      <3>3. /\ ItemOrder(Append(addBatch, item))
            /\ Envs(Append(addBatch, item)) = Envs(addBatch) \cup {item.envelope}
        BY <2>1, <3>1, <3>2, ItemOrderAppend
      <3>4. QED
        BY <1>5, <3>3
    <2>3. QED
      BY <1>5, <2>2 DEF Adding
  <1>9. UNCHANGED <<Waiting, DecryptJobs, Open>>
    BY <1>1, SameViews
  <1>10. TableRead' = TableRead
    BY <1>2, ReadStays DEF IInv
  <1>11. Requeued' = Requeued
    BY <1>1, <1>3, <1>8, <1>9 DEF Requeued
  <1>12. PendingInOrder'
    <2>1. Less(Adding', Incoming') /\ Less(DOMAIN rows, Incoming')
      BY <1>3, <1>6, <1>8 DEF OrderInv, PendingInOrder, Less
    <2>2. Adding' \cup Incoming' = Adding \cup Incoming
      BY <1>3, <1>8
    <2>3. Waiting \cup Adding' \cup Incoming' = Waiting \cup Adding \cup Incoming
      BY <2>2
    <2>4. QED
      BY <1>1, <1>6, <1>8, <1>9, <2>1, <2>2, <2>3 DEF OrderInv, PendingInOrder
  <1>13. AttemptsCounted'
    <2>1. Candidates' = Candidates
      BY <1>1, <1>11, SameCandidates
    <2>2. \A x : Attempts(x)' = Attempts(x)
      BY <1>1, <1>10, AttemptsStay
    <2>3. Attempts(e) = 1
      BY <1>3 DEF Attempts, IInv, PendingNotDone
    <2>4. /\ DOMAIN addBatch' = DOMAIN addBatch \cup {Len(addBatch) + 1}
          /\ addBatch'[Len(addBatch) + 1] = item
          /\ \A i \in DOMAIN addBatch : addBatch'[i] = addBatch[i]
      BY <1>2, <1>5, AppendFacts
    <2>5. ItemsCounted(addBatch)'
      BY <1>5, <2>1, <2>2, <2>3, <2>4 DEF OrderInv, AttemptsCounted, ItemsCounted
    <2>6. QED
      BY <1>1, <1>9, <2>1, <2>2, <2>5 DEF OrderInv, AttemptsCounted, ItemsCounted
  <1>14. QED
    BY <1>1, <1>10, <1>11, <1>12, <1>13, MoveInOrder

LEMMA OrderStartBatch ==
    ASSUME DataType, IInv, SaveInv, OrderInv, WayInv, StartBatch
    PROVE  OrderInv' /\ WayInv'
  <1>1. /\ UNCHANGED <<arrived, batchVars, rows, advanced, onServer, live, saved, appVars, failedEver,
                       stoppingProcessing, incoming, encrypted, decrypted, appQueue>>
        /\ UNCHANGED <<batch, batchPhase>>
    BY DEF StartBatch, serverVars, batchVars, appVars, flagVars, dbVars, historyVars
  <1>2. /\ addBatch # <<>> /\ addBatch' = <<>> /\ zoneQueue' = Append(zoneQueue, addBatch)
        /\ addBatch \in Seq(ItemsOf(Envelopes))
        /\ zoneQueue \in Seq(Seq(ItemsOf(Envelopes)))
    BY DEF StartBatch, DataType, QueueType
  <1>3. Adding' = {}
    BY <1>2 DEF Adding, Envs
  <1>4. ZoneOrder(zoneQueue') /\ Waiting' = Waiting \cup Adding
    <2>1. Less(Zoned(zoneQueue), Envs(addBatch))
      BY DEF OrderInv, PendingInOrder, Less, Waiting, Adding
    <2>2. QED
      BY <1>2, <2>1, ZoneOrderAppend DEF OrderInv, PendingInOrder, Waiting, Adding
  <1>5. UNCHANGED <<Incoming, DecryptJobs, Open, TableRead>>
    BY <1>1, SameViews DEF TableRead
  <1>6. Requeued' = Requeued
    BY <1>1, <1>3, <1>4, <1>5 DEF Requeued
  <1>7. PendingInOrder'
    <2>1. ItemOrder(addBatch')
      BY <1>2 DEF ItemOrder
    <2>2. Waiting' \cup Adding' \cup Incoming = Waiting \cup Adding \cup Incoming
      BY <1>3, <1>4
    <2>3. Less(Waiting', Adding' \cup Incoming') /\ Less(Adding', Incoming')
      BY <1>3, <1>4, <1>5 DEF OrderInv, PendingInOrder, Less
    <2>4. QED
      BY <1>1, <1>4, <1>5, <2>1, <2>2, <2>3 DEF OrderInv, PendingInOrder
  <1>8. AttemptsCounted'
    <2>1. Candidates' = Candidates
      BY <1>1, <1>6, SameCandidates
    <2>2. \A x : Attempts(x)' = Attempts(x)
      BY <1>1, <1>5, AttemptsStay
    <2>3. /\ DOMAIN zoneQueue' = DOMAIN zoneQueue \cup {Len(zoneQueue) + 1}
          /\ zoneQueue'[Len(zoneQueue) + 1] = addBatch
          /\ \A i \in DOMAIN zoneQueue : zoneQueue'[i] = zoneQueue[i]
      BY <1>2, AppendFacts
    <2>4. \A k \in DOMAIN zoneQueue' :
             \/ zoneQueue'[k] = addBatch
             \/ k \in DOMAIN zoneQueue /\ zoneQueue'[k] = zoneQueue[k]
      BY <2>3
    <2>5. ASSUME NEW k \in DOMAIN zoneQueue' PROVE ItemsCounted(zoneQueue[k])'
      BY <2>1, <2>2, <2>4 DEF OrderInv, AttemptsCounted, ItemsCounted
    <2>6. QED
      BY <1>1, <1>2, <1>5, <2>1, <2>2, <2>5 DEF OrderInv, AttemptsCounted, ItemsCounted
  <1>9. QED
    BY <1>1, <1>5, <1>6, <1>7, <1>8, MoveInOrder

\* Jobs of one name come after a queue that has none of them.
LEMMA JobsLast ==
    ASSUME NEW S, NEW q \in Seq(S), NEW r \in Seq(S), NEW name, NEW f,
           Labels(q, name, f) = {}, \A i \in DOMAIN r : r[i].do = name
    PROVE  \A i, j \in DOMAIN (q \o r) :
              i < j /\ (q \o r)[i].do = name => (q \o r)[j].do = name
  <1> DEFINE t == q \o r
             n == Len(q)
  <1>1. /\ \A i \in DOMAIN q : t[i] = q[i]
        /\ \A i \in DOMAIN t : \/ i \in DOMAIN q
                               \/ i - n \in DOMAIN r /\ t[i] = r[i - n]
    <2>1. \A i \in DOMAIN t : i \in DOMAIN q \/ (i - n) + n = i
      OBVIOUS
    <2>2. QED
      BY <2>1, ConcatFacts
  <1>2. \A i, j \in DOMAIN t : i < j /\ j \in DOMAIN q => i \in DOMAIN q
    OBVIOUS
  <1> HIDE DEF t, n
  <1>3. \A i \in DOMAIN q : q[i].do # name
    <2>1. \A i \in DOMAIN q : q[i].do = name => f[q[i].envelope] \in Labels(q, name, f)
      BY DEF Labels
    <2>2. QED
      BY <2>1
  <1>4. QED
    BY <1>1, <1>2, <1>3 DEF t

\* The items of a batch that enters the zone are decrypted in their order.
LEMMA JobsInOrder ==
    ASSUME DataType, IInv, OrderInv, EnterZone
    PROVE  /\ Rising(encrypted', "decrypt", Id, Nat)
           /\ \A i, j \in DOMAIN encrypted' :
                 i < j /\ encrypted'[i].do = "decrypt" => encrypted'[j].do # "queueDecrypted"
           /\ \A T : Rising(encrypted, "queueDecrypted", arrived, T) =>
                        Rising(encrypted', "queueDecrypted", arrived, T)
           /\ \A e \in DecryptJobs' : Kind[MessageOf(e)] # "unknownUuid"
  <1> DEFINE s == [i \in DOMAIN Decryptable |-> FirstBatch[Decryptable[i]].envelope]
             new == [i \in DOMAIN s |-> Job("decrypt", s[i])]
             S == EncryptedJobs(Envelopes)
  <1>1. /\ zoneQueue # <<>> /\ batchPhase = "none" /\ arrived' = arrived
        /\ encrypted' = encrypted \o
              [i \in DOMAIN Decryptable |-> Job("decrypt", FirstBatch[Decryptable[i]].envelope)]
    BY Zenon DEF EnterZone, FirstBatch, Decryptable, historyVars
  <1>2. new = [i \in DOMAIN Decryptable |-> Job("decrypt", FirstBatch[Decryptable[i]].envelope)]
    OBVIOUS
  <1>3. encrypted' = encrypted \o new /\ encrypted \in Seq(S)
    BY <1>1, <1>2 DEF DataType, QueueType
  <1>4. /\ Decryptable \in Seq(DOMAIN FirstBatch)
        /\ \A i \in DOMAIN Decryptable : FirstBatch[Decryptable[i]].envelope \in Envelopes
        /\ Range(Decryptable) = {i \in DOMAIN FirstBatch :
                  Kind[MessageOf(FirstBatch[i].envelope)] # "unknownUuid"}
    BY <1>1, BatchListed
  <1>5. s \in Seq(Envelopes) /\ \A i \in DOMAIN s : s[i] \in Nat /\ Id[s[i]] = s[i]
    <2>1. s \in Seq(Envelopes)
      BY <1>4
    <2>2. \A i \in DOMAIN s : s[i] \in Nat
      BY <2>1 DEF Envelopes
    <2>3. QED
      BY <2>1, <2>2 DEF Id
  <1>6. new \in Seq(S)
    <2>1. \A e \in Envelopes : Job("decrypt", e) \in S
      BY NewTask DEF EncryptedJobs
    <2>2. \A i \in DOMAIN s : Job("decrypt", s[i]) \in S
      BY <1>5, <2>1
    <2> HIDE DEF S
    <2>3. QED
      BY <1>5, <2>2
  <1>7. Ordered(Decryptable)
    <2> DEFINE D == {i \in DOMAIN FirstBatch :
                        Kind[MessageOf(FirstBatch[i].envelope)] # "unknownUuid"}
    <2>1. FirstBatch \in Seq(ItemsOf(Envelopes))
      BY <1>1, BatchListed
    <2>2. Len(FirstBatch) \in Nat /\ D \in SUBSET (1 .. Len(FirstBatch))
      BY <2>1
    <2>3. Decryptable = InOrder(D)
      BY DEF Decryptable
    <2> HIDE DEF D
    <2>4. QED
      BY <2>2, <2>3, InOrderLists
  <1>8. \A i, j \in DOMAIN s : i < j => Id[s[i]] < Id[s[j]]
    <2>1. ItemOrder(FirstBatch)
      BY <1>1, ZoneOrderTail DEF OrderInv, PendingInOrder, DataType, QueueType, FirstBatch
    <2>2. \A i \in DOMAIN Decryptable : Decryptable[i] \in DOMAIN FirstBatch
      BY <1>4
    <2>3. \A i, j \in DOMAIN s : i < j => s[i] < s[j]
      BY <1>7, <2>1, <2>2 DEF Ordered, ItemOrder
    <2>4. QED
      BY <1>5, <2>3
  <1>9. \A i \in DOMAIN new : new[i].do = "decrypt" /\ new[i].envelope = s[i]
    BY DEF Job
  <1>10. \A i \in DOMAIN s : Kind[MessageOf(s[i])] # "unknownUuid"
    BY <1>4 DEF Range
  <1>11. DecryptJobs = {}
    BY <1>1 DEF DataType, BatchKnowsItems
  <1>12. Rising(new, "decrypt", Id, Nat)
    <2> HIDE DEF s
    <2>1. QED
      BY <1>8, RisingJobs
  <1>13. Labels(new, "decrypt", Id) = {s[i] : i \in DOMAIN s}
    <2> HIDE DEF s
    <2>1. Labels(new, "decrypt", Id) = {Id[s[i]] : i \in DOMAIN s}
      BY LabelsOfJobs
    <2>2. QED
      BY <1>5, <2>1
  <1> HIDE DEF new, s, S
  <1>14. Rising(encrypted', "decrypt", Id, Nat)
    <2>1. Rising(encrypted, "decrypt", Id, Nat)
      BY DEF OrderInv, BatchInOrder
    <2>2. Less(Labels(encrypted, "decrypt", Id) \cap Nat, Labels(new, "decrypt", Id) \cap Nat)
      BY <1>11 DEF DecryptJobs, Less
    <2>3. QED
      BY <1>3, <1>6, <1>12, <2>1, <2>2, RisingConcat
  <1>15. ASSUME NEW T, Rising(encrypted, "queueDecrypted", arrived, T)
         PROVE  Rising(encrypted', "queueDecrypted", arrived, T)
    <2>1. Rising(new, "queueDecrypted", arrived, T)
      BY <1>9 DEF Rising
    <2>2. Labels(new, "queueDecrypted", arrived) = {}
      BY <1>9, InLabels
    <2>3. Less(Labels(encrypted, "queueDecrypted", arrived) \cap T,
               Labels(new, "queueDecrypted", arrived) \cap T)
      BY <2>2 DEF Less
    <2>4. QED
      BY <1>3, <1>6, <1>15, <2>1, <2>3, RisingConcat
  <1>16. \A i, j \in DOMAIN encrypted' :
            i < j /\ encrypted'[i].do = "decrypt" => encrypted'[j].do # "queueDecrypted"
    <2>1. Labels(encrypted, "decrypt", Id) = {} /\ \A i \in DOMAIN new : new[i].do = "decrypt"
      BY <1>9, <1>11 DEF DecryptJobs
    <2>2. \A i, j \in DOMAIN (encrypted \o new) :
             i < j /\ (encrypted \o new)[i].do = "decrypt"
                => (encrypted \o new)[j].do = "decrypt"
      BY <1>3, <1>6, <2>1, JobsLast, Zenon
    <2>3. QED
      BY <1>3, <2>2
  <1>17. \A e \in DecryptJobs' : Kind[MessageOf(e)] # "unknownUuid"
    <2>1. Labels(encrypted \o new, "decrypt", Id) =
             Labels(encrypted, "decrypt", Id) \cup Labels(new, "decrypt", Id)
      BY <1>3, <1>6, LabelsConcat
    <2>2. DecryptJobs' = {s[i] : i \in DOMAIN s}
      BY <1>3, <1>11, <1>13, <2>1 DEF DecryptJobs
    <2>3. QED
      BY <1>10, <2>2
  <1>18. QED
    BY <1>14, <1>15, <1>16, <1>17

LEMMA OrderEnterZone ==
    ASSUME DataType, IInv, SaveInv, OrderInv, WayInv, EnterZone
    PROVE  OrderInv' /\ WayInv'
  <1>1. /\ UNCHANGED <<arrived, rows, advanced, onServer, live, saved, appVars, failedEver,
                       stoppingProcessing, incoming, addBatch, decrypted, appQueue>>
        /\ batchPhase = "none" /\ batchPhase' = "decrypting"
        /\ zoneQueue # <<>> /\ zoneQueue' = Tail(zoneQueue)
        /\ zoneQueue \in Seq(Seq(ItemsOf(Envelopes)))
        /\ batch' = [NoBatch EXCEPT !.items = FirstBatch]
    BY Zenon DEF EnterZone, serverVars, appVars, flagVars, dbVars, historyVars, FirstBatch,
           DataType, QueueType
  <1>2. batch'.items = FirstBatch /\ batch'.plain = <<>>
    BY <1>1 DEF NoBatch
  <1>3. batch.plain = <<>>
    BY <1>1 DEF IInv, KeysInv, NoBatch
  <1>4. Plain = {} /\ Plain' = {} /\ Plaintexts = {} /\ Plaintexts' = {}
    BY <1>2, <1>3 DEF Plain, Plaintexts, Range
  <1>5. /\ UNCHANGED <<Incoming, Adding, Handling, Dispatched, TableRead>>
    BY <1>1, SameViews DEF TableRead
  <1>6. /\ Queued' = Queued
        /\ \A e \in Envs(FirstBatch) :
              Kind[MessageOf(e)] # "unknownUuid" => e \in DecryptJobs'
    BY ItemsQueued
  <1>7. /\ ZoneOrder(zoneQueue') /\ ItemOrder(FirstBatch)
        /\ Less(Envs(FirstBatch), Waiting')
        /\ Waiting' \cup Envs(FirstBatch) = Waiting
    <2>1. ZoneOrder(Tail(zoneQueue)) /\ ItemOrder(FirstBatch)
          /\ Less(Envs(FirstBatch), Zoned(Tail(zoneQueue)))
      BY <1>1, ZoneOrderTail DEF OrderInv, PendingInOrder, FirstBatch
    <2>2. Zoned(Tail(zoneQueue)) \cup Envs(FirstBatch) = Zoned(zoneQueue)
      BY <1>1, ZoneTail DEF IInv, ItemsOnce, FirstBatch
    <2>3. Waiting' = Zoned(Tail(zoneQueue))
      BY <1>1 DEF Waiting
    <2>4. QED
      BY <1>1, <2>1, <2>2, <2>3 DEF Waiting
  <1>8. ~Open /\ Open'
    BY <1>1 DEF Open
  <1>9. Requeued' = Requeued
    BY <1>2, <1>5, <1>7, <1>8 DEF Requeued
  <1>10. Candidates' = Candidates
    BY <1>1, <1>9, SameCandidates
  <1>11. CandidatesInOrder'
    BY <1>1, <1>5, <1>10, CandidatesStay DEF OrderInv
  <1>12. AllRequeued'
    BY <1>1, <1>2, <1>5, <1>9, <1>10 DEF OrderInv, AllRequeued
  <1>13. AttemptsCounted'
    <2>1. \A x : Attempts(x)' = Attempts(x)
      BY <1>1, <1>5, AttemptsStay
    <2>2. /\ FirstBatch = zoneQueue[1] /\ 1 \in DOMAIN zoneQueue
          /\ \A k \in DOMAIN zoneQueue' :
                k + 1 \in DOMAIN zoneQueue /\ zoneQueue'[k] = zoneQueue[k + 1]
      BY <1>1, TailFacts DEF FirstBatch
    <2>3. ASSUME NEW k \in DOMAIN zoneQueue' PROVE ItemsCounted(zoneQueue[k])'
      BY <1>10, <2>1, <2>2 DEF OrderInv, AttemptsCounted, ItemsCounted
    <2>4. ItemsCounted(batch.items)'
      BY <1>2, <1>10, <2>1, <2>2 DEF OrderInv, AttemptsCounted, ItemsCounted
    <2>5. ItemsCounted(addBatch)'
      BY <1>1, <1>10, <2>1 DEF OrderInv, AttemptsCounted, ItemsCounted
    <2>6. QED
      BY <2>3, <2>4, <2>5 DEF AttemptsCounted
  <1>14. PendingInOrder'
    <2>1. Less(Waiting', Adding' \cup Incoming')
      BY <1>5, <1>7 DEF OrderInv, PendingInOrder, Less
    <2>2. Less(Envs(FirstBatch), Waiting' \cup Adding' \cup Incoming')
      BY <1>5, <1>7 DEF OrderInv, PendingInOrder, Less
    <2>3. ItemOrder(batch'.items) /\ Less(Envs(batch'.items), Waiting' \cup Adding' \cup Incoming')
      BY <1>2, <1>7, <2>2
    <2>4. QED
      BY <1>1, <1>5, <1>7, <2>1, <2>3 DEF OrderInv, PendingInOrder
  <1>15. BatchInOrder'
    <2>1. \A e \in Envs(FirstBatch) \ DecryptJobs' : ~ToBeSaved(e)'
      BY <1>1, <1>6 DEF ToBeSaved, ToSave, MessageOf
    <2>2. \A i, j \in DOMAIN batch'.plain : i < j => batch'.plain[i] < batch'.plain[j]
      BY <1>2
    <2>3. Less(Plain', DecryptJobs')
      BY <1>4 DEF Less
    <2>4. QED
      BY <1>2, <1>4, <2>1, <2>2, <2>3, JobsInOrder DEF BatchInOrder
  <1>16. WayInv'
    BY <1>1, <1>4, <1>5, <1>6, JobsInOrder, CalmWay
  <1>17. QED
    BY <1>11, <1>12, <1>13, <1>14, <1>15, <1>16 DEF OrderInv
-----------------------------------------------------------------------------
(* A batch goes on *)

LEMMA OrderSendCommit ==
    ASSUME DataType, IInv, SaveInv, OrderInv, WayInv, SendCommit
    PROVE  OrderInv' /\ WayInv'
  <1>1. /\ UNCHANGED <<arrived, batch, rows, advanced, onServer, live, saved, appVars, failedEver,
                       stoppingProcessing, incoming, addBatch, zoneQueue, encrypted,
                       decrypted, appQueue>>
        /\ batchPhase = "decrypting" /\ batchPhase' = "committing"
    BY DEF SendCommit, serverVars, queueVars, appVars, flagVars, dbVars, historyVars
  <1>2. Open' = Open
    BY <1>1 DEF Open
  <1>3. UNCHANGED <<Incoming, TableRead, Plaintexts, Queued, Handling, Dispatched, DecryptJobs>>
    BY <1>1, SameViews DEF TableRead
  <1>4. BatchInOrder'
    BY <1>1, <1>2, <1>3, BatchStays DEF OrderInv, BatchInOrder
  <1>5. OrderInv'
    BY <1>1, <1>2, <1>3, <1>4, CalmOrder DEF OrderInv, PendingInOrder
  <1>6. WayInv'
    BY <1>1, <1>3, CalmWay
  <1>7. QED
    BY <1>5, <1>6

LEMMA OrderAcknowledge ==
    ASSUME DataType, IInv, SaveInv, OrderInv, WayInv, Acknowledge
    PROVE  OrderInv' /\ WayInv'
  <1>1. /\ UNCHANGED <<arrived, batchPhase, rows, advanced, live, saved, appVars, failedEver,
                       stoppingProcessing, incoming, addBatch, zoneQueue, encrypted,
                       decrypted, appQueue>>
        /\ batchPhase = "acking" /\ onServer' \subseteq onServer
    BY DEF Acknowledge, queueVars, appVars, flagVars, dbVars, historyVars
  <1>2. batch'.plain = batch.plain
    BY DEF Acknowledge, DataType, BatchType, Batches
  <1>3. ~Open /\ Open' = Open
    BY <1>1 DEF Open
  <1>4. UNCHANGED <<Incoming, TableRead, Queued, Handling, Dispatched, DecryptJobs>>
    BY <1>1, SameViews DEF TableRead
  <1>5. Plaintexts' = Plaintexts
    BY <1>1, <1>2 DEF Plaintexts, Plain, Range, MessageOf
  <1>6. BatchInOrder'
    BY <1>1, <1>2, <1>3, <1>4, BatchStays DEF OrderInv, BatchInOrder
  <1>7. OrderInv'
    BY <1>1, <1>3, <1>4, <1>6, CalmOrder DEF OrderInv, PendingInOrder
  <1>8. WayInv'
    BY <1>1, <1>4, <1>5, CalmWay
  <1>9. QED
    BY <1>7, <1>8

\* The plaintexts of a batch are handled in their order.
LEMMA HandledInOrder ==
    ASSUME DataType, BatchInOrder, EndBatch, NEW U, Rising(decrypted, "handle", arrived, U),
           Less(Handling \cap U, Plaintexts \cap U)
    PROVE  Rising(decrypted', "handle", arrived, U)
  <1> DEFINE jobs == [i \in DOMAIN batch.plain |-> Job("handle", batch.plain[i])]
             rest == IF batch.plain = <<>> THEN <<>> ELSE <<Job("batchHandled", 0)>>
             S == DecryptedJobs(Envelopes)
             two == decrypted \o jobs
  <1>1. decrypted' = two \o rest
    BY DEF EndBatch
  <1>2. batch.plain \in Seq(Envelopes) /\ decrypted \in Seq(S)
    BY DEF DataType, QueueType, BatchType, Batches
  <1>3. jobs \in Seq(S)
    <2>1. \A e \in Envelopes : Job("handle", e) \in S
      BY NewTask DEF DecryptedJobs
    <2>2. QED
      BY <1>2, <2>1
  <1>4. /\ rest \in Seq(S)
        /\ Labels(rest, "handle", arrived) = {} /\ Rising(rest, "handle", arrived, U)
    <2>1. Job("batchHandled", 0) \in S
      BY NewTask DEF DecryptedJobs
    <2>2. rest \in Seq(S)
      BY <2>1
    <2>3. \A i \in DOMAIN rest : rest[i].do = "batchHandled"
      BY DEF Job
    <2> HIDE DEF rest
    <2>4. QED
      BY <2>2, <2>3 DEF Labels, Rising
  <1>5. Rising(jobs, "handle", arrived, U)
    <2>1. \A i \in DOMAIN batch.plain : batch.plain[i] \in Plain
      BY DEF Plain, Range
    <2>2. \A i, j \in DOMAIN batch.plain : i < j => arrived[batch.plain[i]] < arrived[batch.plain[j]]
      BY <2>1 DEF BatchInOrder, MessageOf
    <2>3. QED
      BY <2>2, RisingJobs
  <1>6. Labels(jobs, "handle", arrived) = Plaintexts
    <2>1. Labels(jobs, "handle", arrived) = {arrived[batch.plain[i]] : i \in DOMAIN batch.plain}
      BY LabelsOfJobs
    <2>2. {arrived[batch.plain[i]] : i \in DOMAIN batch.plain} = Plaintexts
      BY DEF Plaintexts, Plain, Range, MessageOf
    <2>3. QED
      BY <2>1, <2>2
  <1> HIDE DEF jobs, rest, S, two
  <1>7. two \in Seq(S) /\ Rising(two, "handle", arrived, U)
    <2>1. decrypted \o jobs \in Seq(S)
      BY <1>2, <1>3, ConcatFacts
    <2>2. Less(Labels(decrypted, "handle", arrived) \cap U, Labels(jobs, "handle", arrived) \cap U)
      BY <1>6 DEF Handling
    <2>3. Rising(decrypted \o jobs, "handle", arrived, U)
      BY <1>2, <1>3, <1>5, <2>2, RisingConcat
    <2>4. QED
      BY <2>1, <2>3 DEF two
  <1>8. Less(Labels(two, "handle", arrived) \cap U, Labels(rest, "handle", arrived) \cap U)
    BY <1>4 DEF Less
  <1>9. Rising(two \o rest, "handle", arrived, U)
    BY <1>4, <1>7, <1>8, RisingConcat
  <1>10. QED
    BY <1>1, <1>9

LEMMA OrderEndBatch ==
    ASSUME DataType, IInv, SaveInv, OrderInv, WayInv, EndBatch
    PROVE  OrderInv' /\ WayInv'
  <1>1. /\ UNCHANGED <<arrived, rows, advanced, onServer, live, saved, appVars, failedEver,
                       stoppingProcessing, incoming, addBatch, zoneQueue, encrypted,
                       appQueue>>
        /\ batchPhase = "acking" /\ batchPhase' = "none" /\ batch' = NoBatch
    BY DEF EndBatch, serverVars, appVars, dbVars, historyVars
  <1>2. ~Open /\ Open' = Open
    BY <1>1 DEF Open
  <1>3. /\ UNCHANGED <<Incoming, TableRead, Queued, Dispatched, DecryptJobs, DecryptedRows,
                       Unsaved, Saving, InJobs, Passed>>
        /\ \A x : MessageOf(x)' = MessageOf(x)
    BY <1>1, SameViews, UnsavedStays, SamePlaces DEF TableRead, MessageOf
  <1>4. batch'.plain = <<>> /\ Plain' = {} /\ Plaintexts' = {}
    BY <1>1 DEF NoBatch, Plain, Plaintexts, Range
  <1>5. BatchInOrder'
    <2>1. \A i, j \in DOMAIN batch'.plain : i < j => batch'.plain[i] < batch'.plain[j]
      BY <1>4
    <2>2. QED
      BY <1>1, <1>2, <1>4, <2>1 DEF OrderInv, BatchInOrder
  <1>6. OrderInv'
    BY <1>1, <1>2, <1>3, <1>5, CalmOrder DEF OrderInv, PendingInOrder
  <1>7. Handling' = Handling \cup Plaintexts
    BY BatchEnded
  <1>8. /\ Plaintexts \cap (Passed \cup Dispatched \cup Handling) = {}
        /\ Plaintexts \subseteq Unsaved
    BY <1>1 DEF IInv, PlaintextsApart, Given, SaveInv, SavingIsNew, Saving, Passed, WayInv,
                WayIsKept
  <1>9. TableRead
    BY <1>1 DEF IInv, ReadFirst, Idle, TableRead
  <1>10. OnlyToSave' /\ WayIsKept'
    BY <1>1, <1>3, <1>4, <1>7, <1>8 DEF WayInv, OnlyToSave, WayIsKept, ToSave, Messages
  <1>11. SavedFirst' /\ SavingNext' /\ JobsNext' /\ DispatchedNext'
    BY <1>1, <1>3, FirstStays DEF WayInv, DispatchedNext, Less
  <1>12. ASSUME ~stoppingProcessing
         PROVE  /\ Rising(decrypted', "handle", arrived, Unsaved)
                /\ Less(Handling' \cap Unsaved, Unsaved \ (Passed \cup Dispatched \cup Handling'))
    <2>1. Less(Handling \cap Unsaved, Plaintexts \cap Unsaved)
      BY <1>8, <1>12 DEF WayInv, HandlingNext, Less
    <2>2. Rising(decrypted', "handle", arrived, Unsaved)
      BY <1>12, <2>1, HandledInOrder DEF OrderInv, WayInv, HandlingNext
    <2>3. CASE batch.plain = <<>>
      <3>1. Plaintexts = {}
        BY <2>3 DEF Plaintexts, Plain, Range
      <3>2. QED
        BY <1>7, <1>12, <2>2, <3>1 DEF WayInv, HandlingNext
    <2>4. CASE batch.plain # <<>>
      <3>1. Queued = {}
        BY <2>4 DEF OrderInv, BatchInOrder
      <3>2. Unsaved \subseteq Passed \cup Dispatched \cup Handling'
        BY <1>1, <1>7, <1>9, <1>12, <3>1 DEF WayInv, NoneLeft
      <3>3. Less(Handling' \cap Unsaved, Unsaved \ (Passed \cup Dispatched \cup Handling'))
        BY <3>2 DEF Less
      <3>4. QED
        BY <2>2, <3>3
    <2>5. QED
      BY <2>3, <2>4
  <1>13. HandlingNext'
    BY <1>1, <1>3, <1>12 DEF HandlingNext
  <1>14. QueuedNext'
    BY <1>1, <1>3, <1>7 DEF WayInv, QueuedNext, Less
  <1>15. NoneLeft'
    BY <1>1, <1>3, <1>7 DEF WayInv, NoneLeft
  <1>16. QED
    BY <1>6, <1>10, <1>11, <1>13, <1>14, <1>15 DEF WayInv

\* The rows of candidates are as they were.
LEMMA CandidatesKept ==
    ASSUME CandidatesInOrder, UNCHANGED <<arrived, advanced>>,
           Candidates' = Candidates, \A e \in Candidates : Attempts(e)' = Attempts(e),
           DecryptedRows' \subseteq DecryptedRows, DOMAIN rows' \subseteq DOMAIN rows,
           Candidates \cap DOMAIN rows \subseteq DOMAIN rows',
           onServer' \subseteq onServer, live' \subseteq live
    PROVE  CandidatesInOrder'
  <1>1. \A e : MessageOf(e)' = MessageOf(e)
    BY DEF MessageOf
  <1>2. Fresh' = Fresh /\ ToSave' = ToSave
    BY DEF Fresh, ToSave, Messages
  <1>3. EarliestFirst'
    <2>1. ASSUME NEW f \in Candidates, NEW m \in Fresh, m < MessageOf(f), ComesAgain(m, f)'
          PROVE  ComesBefore(m, f)'
      <3>1. ComesAgain(m, f)
        BY <1>1, <2>1 DEF ComesAgain
      <3>2. ComesBefore(m, f)
        BY <2>1, <3>1 DEF CandidatesInOrder, EarliestFirst
      <3>3. QED
        BY <1>1, <3>2 DEF ComesBefore
    <2>2. QED
      BY <1>1, <1>2, <2>1 DEF EarliestFirst
  <1>4. FreshAreLater'
    <2>1. ASSUME NEW m \in Fresh, Coming(m)' PROVE Less(ToSave \cap advanced, {m})
      <3>1. Coming(m)
        BY <1>1, <2>1 DEF Coming
      <3>2. QED
        BY <3>1 DEF CandidatesInOrder, FreshAreLater
    <2>2. QED
      BY <1>2, <2>1 DEF FreshAreLater, Less
  <1>5. RowsInOrder'
    <2>1. Candidates' \ DOMAIN rows' \subseteq Candidates \ DOMAIN rows
      OBVIOUS
    <2>2. QED
      BY <1>1, <2>1 DEF CandidatesInOrder, RowsInOrder, Less
  <1>6. LiveAreCandidates'
    BY <1>1, <1>2 DEF CandidatesInOrder, LiveAreCandidates
  <1>7. QED
    BY <1>3, <1>4, <1>5, <1>6 DEF CandidatesInOrder

LEMMA OrderCacheRemove ==
    ASSUME DataType, IInv, SaveInv, OrderInv, WayInv, CacheRemove
    PROVE  OrderInv' /\ WayInv'
  <1>1. /\ UNCHANGED <<arrived, batchVars, batch, batchPhase, advanced, onServer, live, saved,
                       appVars, failedEver, stoppingProcessing>>
        /\ UNCHANGED <<incoming, addBatch, zoneQueue, encrypted, decrypted, appQueue>>
        /\ rows' = [e \in DOMAIN rows \ removeBatch |-> rows[e]]
        /\ ~Open
    BY DEF CacheRemove, serverVars, queueVars, batchVars, appVars, flagVars, historyVars,
           ZoneFree, Open
  <1>2. /\ UNCHANGED <<Incoming, Adding, Waiting, DecryptJobs, Open, TableRead>>
        /\ UNCHANGED <<Queued, Handling, Dispatched, Plain, Plaintexts>>
        /\ UNCHANGED <<Saving, InJobs, Passed>>
        /\ \A x : MessageOf(x)' = MessageOf(x)
    BY <1>1, SameViews, SamePlaces DEF TableRead, MessageOf
  <1>3. /\ DOMAIN rows' = DOMAIN rows \ removeBatch
        /\ DecryptedRows' = DecryptedRows \ removeBatch
        /\ \A e \in DOMAIN rows' : rows'[e] = rows[e]
    BY <1>1 DEF DecryptedRows
  <1>4. ASSUME NEW e \in removeBatch
        PROVE  /\ MessageOf(e) \notin Fresh
               /\ e \in DecryptedRows => MessageOf(e) \in Range(saved)
    <2>1. Done(e)
      BY DEF IInv, RemovedIsDone
    <2>2. CASE Kind[MessageOf(e)] \in {"broken", "receipt"}
      <3>1. MessageOf(e) \notin ToSave
        BY <2>2 DEF ToSave
      <3>2. QED
        BY <3>1 DEF Fresh, WayInv, OnlyToSave
    <2>3. CASE MessageOf(e) \in Range(saved)
      BY <2>3 DEF Fresh, WayInv, WayIsKept
    <2>4. CASE e \notin DecryptedRows /\ MessageOf(e) \in Consumed
      BY <1>1, <2>4 DEF Fresh, Consumed
    <2>5. QED
      BY <2>1, <2>2, <2>3, <2>4 DEF Done
  <1>5. Requeued' = Requeued /\ Fresh' = Fresh
    BY <1>1, <1>2 DEF Requeued, Fresh, ToSave, Messages
  <1>6. Candidates' = Candidates
    BY <1>2, <1>3, <1>4, <1>5 DEF Candidates
  <1>7. \A e \in Candidates : e \notin removeBatch
    BY <1>4 DEF Candidates
  <1>8. \A e \in Candidates : Attempts(e)' = Attempts(e)
    BY <1>2, <1>3, <1>7 DEF Attempts
  <1>9. CandidatesInOrder'
    BY <1>1, <1>3, <1>6, <1>7, <1>8, CandidatesKept DEF OrderInv
  <1>10. AllRequeued'
    BY <1>1, <1>2, <1>5, <1>6 DEF OrderInv, AllRequeued
  <1>11. AttemptsCounted'
    BY <1>1, <1>2, <1>6, <1>8 DEF OrderInv, AttemptsCounted, ItemsCounted
  <1>12. PendingInOrder'
    BY <1>1, <1>2, <1>3 DEF OrderInv, PendingInOrder, Less
  <1>13. BatchInOrder'
    BY <1>1, <1>2, BatchStays DEF OrderInv, BatchInOrder
  <1>14. OrderInv'
    BY <1>9, <1>10, <1>11, <1>12, <1>13 DEF OrderInv
  <1>15. Unsaved' = Unsaved
    BY <1>1, <1>2, <1>3, <1>4 DEF Unsaved
  <1>16. OnlyToSave' /\ WayIsKept'
    BY <1>1, <1>2, <1>3, <1>15 DEF WayInv, OnlyToSave, WayIsKept, ToSave, Messages
  <1>17. SavedFirst' /\ SavingNext' /\ JobsNext' /\ DispatchedNext'
    BY <1>1, <1>2, <1>15, FirstStays DEF WayInv, DispatchedNext, Less
  <1>18. HandlingNext' /\ QueuedNext' /\ NoneLeft'
    BY <1>1, <1>2, <1>15 DEF WayInv, HandlingNext, QueuedNext, NoneLeft, Less
  <1>19. QED
    BY <1>14, <1>16, <1>17, <1>18 DEF WayInv
-----------------------------------------------------------------------------
(* A decryption *)

\* The first job of encryptedQueue is before the others; none of them reads a row.
LEMMA FirstDecrypted ==
    ASSUME DataType, IInv, BatchInOrder, Decrypt
    PROVE  LET e == Head(encrypted).envelope
           IN  /\ DecryptJobs' = DecryptJobs \ {e} /\ Less({e}, DecryptJobs')
               /\ Queued = {} /\ Queued' = {}
  <1> DEFINE e == Head(encrypted).envelope
  <1>1. /\ encrypted # <<>> /\ encrypted' = Tail(encrypted) /\ Head(encrypted).do = "decrypt"
        /\ encrypted \in Seq(EncryptedJobs(Envelopes))
        /\ arrived' = arrived
    BY DEF Decrypt, Next1, DataType, QueueType, historyVars
  <1>2. /\ e \in Envelopes /\ DecryptJobs' = DecryptJobs \ {e} /\ Queued' = Queued
    BY <1>1, PopEncrypted DEF IInv, ItemsOnce, PlaintextsOnce
  <1>3. Less({e}, DecryptJobs')
    <2>1. e \in Nat /\ Id[e] = e
      BY <1>2 DEF Envelopes, Id
    <2>2. DecryptJobs' \subseteq Nat
      BY <1>2, AllArrived DEF Envelopes
    <2>3. Less({e}, Labels(Tail(encrypted), "decrypt", Id) \cap Nat)
      BY <1>1, <2>1, RisingTail DEF BatchInOrder
    <2>4. DecryptJobs' = Labels(Tail(encrypted), "decrypt", Id)
      BY <1>1 DEF DecryptJobs
    <2>5. QED
      BY <2>2, <2>3, <2>4
  <1>4. \A j \in DOMAIN encrypted : encrypted[j].do # "queueDecrypted"
    <2>1. encrypted[1] = Head(encrypted) /\ 1 \in DOMAIN encrypted
      BY <1>1, TailFacts
    <2>2. \A j \in DOMAIN encrypted : j = 1 \/ 1 < j
      BY <1>1
    <2>3. QED
      BY <1>1, <2>1, <2>2 DEF BatchInOrder
  <1>5. Queued = {}
    BY <1>4 DEF Queued, Labels
  <1>6. QED
    BY <1>2, <1>3, <1>5

\* A plaintext is of a message to save whose key was not consumed; while the process
\* goes on, the key of each message to save that is tried is consumed.
LEMMA KeyIsConsumed ==
    ASSUME DataType, OnlyToSave, Decrypt
    PROVE  LET e == Head(encrypted).envelope
               m == MessageOf(e)
           IN  /\ Outcome(m) = "plaintext" =>
                     /\ ~stoppingProcessing /\ m \in ToSave
                     /\ m \notin advanced \cup batch.keys
               /\ ~stoppingProcessing /\ m \in ToSave => m \in advanced \cup batch'.keys
               /\ batch.keys \subseteq batch'.keys
  <1> DEFINE e == Head(encrypted).envelope
             m == MessageOf(e)
             o == Outcome(m)
  <1>1. /\ e \in DecryptJobs /\ m \in Messages
        /\ batch'.keys = IF o \in {"plaintext", "blocked"}
                         THEN batch.keys \cup {m} ELSE batch.keys
    BY Decrypted
  <1>2. Kind[m] \in Kinds /\ Kind[m] # "unknownUuid"
    <2>1. Kind[m] \in Kinds
      BY <1>1, ReceiverAssumption DEF Messages
    <2>2. QED
      BY <1>1, <2>1 DEF OnlyToSave
  <1>3. /\ o = "plaintext" => /\ ~stoppingProcessing /\ Kind[m] = "message"
                              /\ m \notin advanced \cup batch.keys
        /\ ~stoppingProcessing /\ Kind[m] = "message" /\ m \notin advanced \cup batch.keys
              => o = "plaintext"
    <2> HIDE DEF m
    <2>1. QED
      BY <1>2 DEF Outcome, Kinds
  <1> HIDE DEF m, o
  <1>4. QED
    BY <1>1, <1>3 DEF ToSave, m, o, e

LEMMA OrderDecrypt ==
    ASSUME DataType, IInv, SaveInv, OrderInv, WayInv, Decrypt
    PROVE  OrderInv' /\ WayInv'
  <1> DEFINE e == Head(encrypted).envelope
             m == MessageOf(e)
             o == Outcome(m)
  <1>1. /\ UNCHANGED <<arrived, batchPhase, rows, advanced, onServer, live, saved, appVars, failedEver,
                       stoppingProcessing, incoming, addBatch, zoneQueue>>
        /\ encrypted # <<>> /\ encrypted' = Tail(encrypted)
    BY DEF Decrypt, Next1, serverVars, appVars, flagVars, dbVars, historyVars
  <1>2. /\ e \in Envelopes /\ m \in Messages /\ e \in DecryptJobs
        /\ batchPhase = "decrypting"
        /\ batch'.items = batch.items
        /\ batch'.plain = IF o = "plaintext" THEN Append(batch.plain, e) ELSE batch.plain
        /\ Plain' = IF o = "plaintext" THEN Plain \cup {e} ELSE Plain
        /\ batch.plain \in Seq(Envelopes)
    BY Decrypted DEF Plain, DataType, BatchType, Batches
  <1>3. /\ DecryptJobs' = DecryptJobs \ {e} /\ Less({e}, DecryptJobs')
        /\ Queued = {} /\ Queued' = {}
    BY FirstDecrypted DEF OrderInv
  <1>4. /\ o = "plaintext" => /\ ~stoppingProcessing /\ m \in ToSave
                              /\ m \notin advanced \cup batch.keys
        /\ ~stoppingProcessing /\ m \in ToSave => m \in advanced \cup batch'.keys
        /\ batch.keys \subseteq batch'.keys
    BY KeyIsConsumed DEF WayInv
  <1>5. /\ UNCHANGED <<Incoming, Adding, Waiting, TableRead, Unsaved, DecryptedRows>>
        /\ \A x : MessageOf(x)' = MessageOf(x) /\ ToBeSaved(x)' = ToBeSaved(x)
    BY <1>1, SameViews, UnsavedStays DEF TableRead, MessageOf, ToBeSaved, ToSave, Messages
  <1>6. /\ Open /\ Open' = Open /\ TableRead
        /\ Consumed = advanced \cup batch.keys /\ Consumed' = advanced \cup batch'.keys
    BY <1>1, <1>2 DEF Open, Consumed, IInv, ReadFirst, Idle, TableRead
  <1>7. QuietDecrypted /\ QuietApp
    <2>1. Job("decryptionError", e) \in DecryptedJobs(Envelopes) /\ Job("delivery", e) \in AppJobs(Envelopes)
      BY <1>2, NewTask DEF DecryptedJobs, AppJobs
    <2>2. /\ \/ decrypted' = decrypted
             \/ decrypted' = Append(decrypted, Job("decryptionError", e))
          /\ appQueue' = appQueue \/ appQueue' = Append(appQueue, Job("delivery", e))
      BY DEF Decrypt
    <2>3. QED
      BY <2>1, <2>2 DEF QuietDecrypted, QuietApp, Quiet
  <1>8. /\ UNCHANGED <<Handling, Dispatched>>
        /\ \A T : Rising(decrypted, "handle", arrived, T) => Rising(decrypted', "handle", arrived, T)
        /\ \A T : Rising(appQueue, "message", arrived, T) => Rising(appQueue', "message", arrived, T)
    BY <1>1, <1>7, QuietPlain
  <1>9. \A T : Rising(encrypted', "queueDecrypted", arrived, T)
    <2>1. \A i \in DOMAIN encrypted' : encrypted'[i].do # "queueDecrypted"
      BY <1>3 DEF Queued, Labels
    <2>2. QED
      BY <2>1 DEF Rising
  <1>10. Plaintexts' = IF o = "plaintext" THEN Plaintexts \cup {m} ELSE Plaintexts
    BY <1>2, <1>5 DEF Plaintexts
  <1> HIDE DEF e, m, o
  <1>11. Plaintexts' \subseteq ToSave
    BY <1>4, <1>10 DEF WayInv, OnlyToSave
  <1>12. WayInv'
    BY <1>1, <1>2, <1>3, <1>5, <1>8, <1>9, <1>11, CalmWay
  <1>13. Requeued' = Requeued
    BY <1>2, <1>5, <1>6 DEF Requeued
  <1>14. Candidates' = Candidates /\ \A x : Attempts(x)' = Attempts(x)
    BY <1>1, <1>5, <1>13, SameCandidates, AttemptsStay
  <1>15. CandidatesInOrder'
    BY <1>1, <1>5, <1>14, CandidatesStay DEF OrderInv
  <1>16. AllRequeued'
    BY <1>1, <1>2, <1>4, <1>6, <1>13, <1>14 DEF OrderInv, AllRequeued
  <1>17. AttemptsCounted' /\ PendingInOrder'
    BY <1>1, <1>2, <1>5, <1>6, <1>14
       DEF OrderInv, AttemptsCounted, ItemsCounted, PendingInOrder
  <1>18. Less(Plain, {e}) /\ Less(Plain', DecryptJobs')
    <2>1. Less(Plain, DecryptJobs)
      BY <1>6 DEF OrderInv, BatchInOrder
    <2>2. QED
      BY <1>2, <1>3, <2>1 DEF Less
  <1>19. \A i, j \in DOMAIN batch'.plain : i < j => batch'.plain[i] < batch'.plain[j]
    <2>1. CASE o # "plaintext"
      BY <1>2, <2>1 DEF OrderInv, BatchInOrder
    <2>2. CASE o = "plaintext"
      <3> DEFINE n == Len(batch.plain) + 1
      <3>1. /\ DOMAIN batch'.plain = DOMAIN batch.plain \cup {n} /\ batch'.plain[n] = e
            /\ \A i \in DOMAIN batch.plain : batch'.plain[i] = batch.plain[i] /\ ~(n < i)
            /\ ~(n < n)
        BY <1>2, <2>2, AppendFacts
      <3> HIDE DEF n
      <3>2. \A i \in DOMAIN batch.plain : batch.plain[i] < e
        BY <1>18 DEF Plain, Range, Less
      <3>3. QED
        BY <3>1, <3>2 DEF OrderInv, BatchInOrder
    <2>3. QED
      BY <2>1, <2>2
  <1>20. ASSUME o = "plaintext", NEW f \in Plain PROVE MessageOf(f) < m
    <2>1. /\ MessageOf(f) \in ToSave /\ MessageOf(f) \in batch.keys
          /\ MessageOf(f) \notin advanced
      BY <1>2, <1>6, <1>20 DEF IInv, KeysInv, Plaintexts, WayInv, OnlyToSave
    <2>2. f \in Candidates /\ m \in Fresh /\ MessageOf(f) \in Fresh
      <3>1. f \in Envs(batch.items)
        BY <1>2, <1>20 DEF DataType, BatchKnowsItems, Stored, Plain
      <3>2. QED
        BY <1>4, <1>6, <1>20, <2>1, <3>1 DEF Candidates, Requeued, Fresh
    <2>3. e \in Candidates /\ MessageOf(e) = m
      <3>1. e \in Envs(batch.items)
        BY <1>2 DEF DataType, BatchKnowsItems
      <3>2. QED
        BY <1>4, <1>6, <1>20, <3>1 DEF Candidates, Requeued, Fresh, m
    <2>4. f < e
      BY <1>18 DEF Less
    <2>5. f \in Nat /\ e \in Nat /\ Candidates \subseteq Nat
      <3>1. Requeued \subseteq Envelopes
        BY AllArrived DEF Requeued
      <3>2. Candidates \subseteq Envelopes
        BY <3>1, AllArrived DEF Candidates
      <3>3. QED
        BY <1>2, <2>2, <3>2 DEF Envelopes
    <2>6. CASE m < MessageOf(f)
      <3>1. ComesAgain(m, f)
        BY <2>3, <2>4 DEF ComesAgain
      <3>2. PICK g \in Candidates : g < f /\ MessageOf(g) = m
        BY <2>2, <2>6, <3>1 DEF OrderInv, CandidatesInOrder, EarliestFirst, ComesBefore
      <3>3. g \in Requeued
        BY <1>4, <1>6, <1>20, <3>2 DEF OrderInv, AllRequeued
      <3>4. f \in Envs(batch.items)
        BY <1>2, <1>20 DEF DataType, BatchKnowsItems, Stored, Plain
      <3>5. g \notin Waiting \cup Adding \cup Incoming
        <4>1. Less(Envs(batch.items), Waiting \cup Adding \cup Incoming)
          BY <1>6 DEF OrderInv, PendingInOrder
        <4>2. ~(f < g)
          BY <2>5, <3>2
        <4>3. QED
          BY <3>4, <4>1, <4>2 DEF Less
      <3>6. g \in Envs(batch.items)
        BY <1>6, <3>3, <3>5 DEF Requeued
      <3>7. m \in Consumed
        BY <1>4, <1>6, <1>20, <3>2, <3>6 DEF OrderInv, BatchInOrder, ToBeSaved
      <3>8. QED
        BY <1>4, <1>6, <1>20, <3>7
    <2>7. CASE ~(m < MessageOf(f))
      <3>1. m # MessageOf(f)
        BY <1>4, <1>20, <2>1
      <3>2. m \in Nat /\ MessageOf(f) \in Nat
        BY <1>2, <2>1, ReceiverAssumption DEF ToSave, Messages
      <3>3. QED
        BY <2>7, <3>1, <3>2
    <2>8. QED
      BY <2>6, <2>7
  <1>21. \A f, g \in Plain' : f < g => MessageOf(f)' < MessageOf(g)'
    <2>1. CASE o # "plaintext"
      BY <1>2, <1>5, <2>1 DEF OrderInv, BatchInOrder
    <2>2. CASE o = "plaintext"
      <3>1. \A f \in Plain : f < e /\ ~(e < f) /\ MessageOf(f) < m
        <4>1. \A f \in Plain : f < e /\ f \in Nat /\ e \in Nat
          BY <1>2, <1>18, AllArrived DEF Less, Envelopes
        <4>2. \A f \in Plain : ~(e < f)
          BY <4>1
        <4>3. QED
          BY <1>20, <2>2, <4>1, <4>2
      <3>2. ~(e < e) /\ MessageOf(e) = m
        BY <1>2 DEF Envelopes, m
      <3>3. QED
        BY <1>2, <1>5, <2>2, <3>1, <3>2 DEF OrderInv, BatchInOrder
    <2>3. QED
      BY <2>1, <2>2
  <1>22. ASSUME ~stoppingProcessing, NEW g \in Envs(batch.items) \ DecryptJobs', ToBeSaved(g)
         PROVE  MessageOf(g) \in Consumed'
    <2>1. CASE g = e
      BY <1>4, <1>6, <1>22, <2>1 DEF ToBeSaved, m
    <2>2. CASE g # e
      <3>1. g \in Envs(batch.items) \ DecryptJobs
        BY <1>3, <1>22, <2>2
      <3>2. MessageOf(g) \in Consumed
        BY <1>6, <1>22, <3>1 DEF OrderInv, BatchInOrder
      <3>3. QED
        BY <1>4, <1>6, <3>2
    <2>3. QED
      BY <2>1, <2>2
  <1>23. ASSUME NEW g \in Envs(batch.items), NEW f \in Plain', g < f, ToBeSaved(g)
         PROVE  MessageOf(g) \in Consumed'
    <2>1. CASE f \in Plain
      <3>1. MessageOf(g) \in Consumed
        BY <1>6, <1>23, <2>1 DEF OrderInv, BatchInOrder
      <3>2. QED
        BY <1>4, <1>6, <3>1
    <2>2. CASE f \notin Plain
      <3>1. o = "plaintext" /\ f = e
        BY <1>2, <2>2
      <3>2. g \in Nat /\ e \in Nat
        BY <1>2, AllArrived DEF Envelopes
      <3>3. ~(e < g)
        BY <1>23, <3>1, <3>2
      <3>4. g \notin DecryptJobs'
        BY <1>3, <3>3 DEF Less
      <3>5. QED
        BY <1>4, <1>22, <1>23, <3>1, <3>4
    <2>3. QED
      BY <2>1, <2>2
  <1>24. /\ Rising(encrypted', "decrypt", Id, Nat)
         /\ \A i, j \in DOMAIN encrypted' :
               i < j /\ encrypted'[i].do = "decrypt" => encrypted'[j].do # "queueDecrypted"
    BY <1>1, EncryptedTail DEF OrderInv
  <1>25. BatchInOrder'
    BY <1>1, <1>2, <1>3, <1>5, <1>6, <1>18, <1>19, <1>21, <1>22, <1>23, <1>24 DEF BatchInOrder
  <1>26. QED
    BY <1>12, <1>15, <1>16, <1>17, <1>25 DEF OrderInv
-----------------------------------------------------------------------------
(* A commit *)

LEMMA CandidatesArrived ==
    ASSUME DataType
    PROVE  /\ Requeued \subseteq Envelopes /\ Candidates \subseteq Envelopes
           /\ Envelopes \subseteq Nat /\ Messages \subseteq Nat /\ ToSave \subseteq Messages
  <1>1. Requeued \subseteq Envelopes
    BY AllArrived DEF Requeued
  <1>2. Candidates \subseteq Envelopes
    BY <1>1, AllArrived DEF Candidates
  <1>3. Envelopes \subseteq Nat /\ Messages \subseteq Nat /\ ToSave \subseteq Messages
    BY ReceiverAssumption DEF Envelopes, Messages, ToSave
  <1>4. QED
    BY <1>1, <1>2, <1>3

\* A row that is stored has the attempts of its item.
LEMMA AttemptsSaved ==
    ASSUME DataType, batchPhase = "committing", NEW e \in Stored
    PROVE  \E i \in DOMAIN batch.items :
              /\ batch.items[i].envelope = e
              /\ SavedRows[e].attempts = batch.items[i].attempts
  <1> DEFINE item(x) == CHOOSE i \in Range(batch.items) : i.envelope = x
             attempts == [x \in Stored |-> item(x).attempts]
             keep == {x \in Stored : attempts[x] < MaxAttempts}
  <1>1. batch.items \in Seq(ItemsOf(Envelopes))
    BY DEF DataType, BatchType, Batches
  <1>2. e \in Envs(batch.items)
    BY DEF DataType, BatchKnowsItems
  <1>3. \E i \in Range(batch.items) : i.envelope = e
    BY <1>2 DEF Envs, Range
  <1>4. item(e) \in Range(batch.items) /\ item(e).envelope = e
    BY <1>3
  <1>5. item(e) \in ItemsOf(Envelopes)
    BY <1>1, <1>4, RangeFacts
  <1>6. attempts[e] = item(e).attempts
    OBVIOUS
  <1>7. SavedRows = [x \in (DOMAIN rows \ Stored) \cup keep |->
            IF x \in keep
            THEN [attempts |-> attempts[x], decrypted |-> x \in Range(batch.plain)]
            ELSE rows[x]]
    BY DEF SavedRows
  <1>8. e \in keep
    <2> HIDE DEF item, attempts
    <2>1. QED
      BY <1>5, <1>6, ReceiverAssumption DEF ItemsOf
  <1> HIDE DEF item, attempts, keep
  <1>9. SavedRows[e].attempts = item(e).attempts
    BY <1>6, <1>7, <1>8
  <1>10. PICK i \in DOMAIN batch.items : batch.items[i] = item(e)
    BY <1>4 DEF Range
  <1>11. QED
    BY <1>4, <1>9, <1>10

\* The candidates that a batch with a plaintext leaves are behind its plaintexts, and
\* so are their messages.
LEMMA BehindPlaintexts ==
    ASSUME DataType, IInv, OrderInv, WayInv, batchPhase = "committing", NEW f \in Plain
    PROVE  /\ f \in Envs(batch.items) /\ f \in Candidates
           /\ MessageOf(f) \in Fresh \cap batch.keys
           /\ \A c \in Candidates : MessageOf(c) \notin batch.keys => f < c
           /\ \A m \in Fresh \ batch.keys : Coming(m) => MessageOf(f) < m
  <1>1. Open /\ Consumed = advanced \cup batch.keys /\ batch.keys \cap advanced = {}
    BY DEF Open, Consumed, IInv, KeysInv
  <1>2. TableRead
    BY DEF IInv, ReadFirst, Idle, TableRead
  <1>3. batch.plain # <<>>
    BY DEF Plain, Range
  <1>4. f \in Envs(batch.items)
    BY DEF DataType, BatchKnowsItems, Stored, Plain
  <1>5. MessageOf(f) \in Fresh \cap batch.keys
    BY <1>1 DEF IInv, KeysInv, Plaintexts, WayInv, OnlyToSave, Fresh
  <1>6. f \in Candidates
    BY <1>1, <1>4, <1>5 DEF Candidates, Requeued
  <1>7. ASSUME NEW c \in Candidates, MessageOf(c) \notin batch.keys
        PROVE  f < c
    <2>1. c \in Requeued
      BY <1>1, <1>2, <1>3 DEF OrderInv, AllRequeued
    <2>2. MessageOf(c) \in ToSave /\ MessageOf(c) \notin Consumed
      BY <1>1, <1>7 DEF Candidates, Fresh
    <2>3. CASE c \in Envs(batch.items)
      <3>1. ~(c < f)
        BY <1>1, <2>2, <2>3 DEF OrderInv, BatchInOrder, ToBeSaved
      <3>2. c # f
        BY <1>5, <1>7
      <3>3. c \in Nat /\ f \in Nat
        BY <1>6, CandidatesArrived
      <3>4. QED
        BY <3>1, <3>2, <3>3
    <2>4. CASE c \notin Envs(batch.items)
      <3>1. c \in Waiting \cup Adding \cup Incoming
        BY <1>1, <2>1, <2>4 DEF Requeued
      <3>2. QED
        BY <1>1, <1>4, <3>1 DEF OrderInv, PendingInOrder, Less
    <2>5. QED
      BY <2>3, <2>4
  <1>8. ASSUME NEW m \in Fresh \ batch.keys, Coming(m)
        PROVE  MessageOf(f) < m
    <2>1. CASE m < MessageOf(f)
      <3>1. ComesAgain(m, f)
        BY <1>7, <1>8 DEF Coming, ComesAgain
      <3>2. PICK g \in Candidates : g < f /\ MessageOf(g) = m
        BY <1>6, <1>8, <2>1, <3>1
           DEF OrderInv, CandidatesInOrder, EarliestFirst, ComesBefore
      <3>3. f < g
        BY <1>7, <1>8, <3>2
      <3>4. f \in Nat /\ g \in Nat
        BY <1>6, CandidatesArrived
      <3>5. QED
        BY <3>2, <3>3, <3>4
    <2>2. CASE ~(m < MessageOf(f))
      <3>1. m # MessageOf(f)
        BY <1>5, <1>8
      <3>2. m \in Nat /\ MessageOf(f) \in Nat
        BY <1>5, <1>8, CandidatesArrived DEF Fresh
      <3>3. QED
        BY <2>2, <3>1, <3>2
    <2>3. QED
      BY <2>1, <2>2
  <1>9. QED
    BY <1>4, <1>5, <1>6, <1>7, <1>8

\* The candidates that are left after a commit: those of other messages.
LEMMA CandidatesCommitted ==
    ASSUME DataType, IInv, OrderInv, WayInv, CommitDone
    PROVE  /\ Candidates' = {e \in Candidates : MessageOf(e) \notin batch.keys}
           /\ \A e \in Candidates' : Attempts(e)' = Attempts(e)
           /\ \A e \in Candidates' : e \in Envs(batch.items) => e \in Stored
  <1>1. /\ UNCHANGED <<arrived, batch, incoming, addBatch, zoneQueue>>
        /\ batchPhase = "committing" /\ batchPhase' = "acking"
        /\ rows' = SavedRows /\ advanced' = advanced \cup batch.keys
    BY DEF CommitDone, queueVars, historyVars
  <1>2. /\ Open /\ ~Open' /\ batch.keys \cap advanced = {}
    BY <1>1 DEF Open, IInv, KeysInv
  <1>3. /\ UNCHANGED <<Incoming, Adding, Waiting, TableRead>>
        /\ \A x : MessageOf(x)' = MessageOf(x)
        /\ TableRead
    BY <1>1, SameViews DEF TableRead, MessageOf, IInv, ReadFirst, Idle
  <1>4. /\ DOMAIN rows' = DOMAIN rows \cup Stored
        /\ DecryptedRows' = DecryptedRows \cup Plain
        /\ Plain \subseteq Stored /\ Stored \cap DecryptedRows = {}
    BY <1>1, RowsCommitted
  <1>5. /\ Stored \subseteq Envs(batch.items)
        /\ \A e \in Envs(batch.items) : ToBeSaved(e) => e \in Stored
        /\ \A e \in DOMAIN rows \ Stored : rows'[e] = rows[e]
    BY <1>1, RowsSaved DEF DataType, BatchKnowsItems, IInv, AnsweredIsKept
  <1>6. \A e \in Plain : MessageOf(e) \in batch.keys
    BY <1>2 DEF IInv, KeysInv, Plaintexts
  <1>7. Fresh' = Fresh \ batch.keys
    BY <1>1 DEF Fresh, ToSave, Messages
  <1>8. Requeued' = Incoming \cup Adding \cup Waiting
    BY <1>2, <1>3 DEF Requeued
  <1>9. \A e \in Candidates : ToBeSaved(e)
    BY DEF Candidates, Fresh, ToBeSaved
  <1>10. Candidates' = {e \in Candidates : MessageOf(e) \notin batch.keys}
    <2>1. ASSUME NEW e \in Candidates'
          PROVE  e \in Candidates /\ MessageOf(e) \notin batch.keys
      <3>1. MessageOf(e) \in Fresh \ batch.keys
        BY <1>3, <1>7 DEF Candidates
      <3>2. e \in Requeued \cup (DOMAIN rows \ DecryptedRows)
        BY <1>2, <1>4, <1>5, <1>8 DEF Candidates, Requeued
      <3>3. QED
        BY <3>1, <3>2 DEF Candidates
    <2>2. ASSUME NEW e \in Candidates, MessageOf(e) \notin batch.keys
          PROVE  e \in Candidates'
      <3>1. MessageOf(e)' \in Fresh'
        BY <1>3, <1>7, <2>2 DEF Candidates
      <3>2. e \notin Plain
        BY <1>6, <2>2
      <3>3. e \in Requeued' \cup (DOMAIN rows' \ DecryptedRows')
        BY <1>2, <1>4, <1>5, <1>8, <1>9, <3>2 DEF Candidates, Requeued
      <3>4. QED
        BY <3>1, <3>3 DEF Candidates
    <2>3. QED
      BY <2>1, <2>2
  <1>11. ASSUME NEW e \in Candidates' PROVE Attempts(e)' = Attempts(e)
    <2>1. CASE e \in Stored
      <3>1. PICK i \in DOMAIN batch.items :
               /\ batch.items[i].envelope = e
               /\ SavedRows[e].attempts = batch.items[i].attempts
        BY <1>1, <2>1, AttemptsSaved
      <3>2. batch.items[i].attempts = Attempts(e)
        BY <1>2, <1>10, <3>1 DEF OrderInv, AttemptsCounted, ItemsCounted
      <3>3. batch.items[i].attempts \in Nat
        <4>1. batch.items[i] \in ItemsOf(Envelopes)
          BY DEF DataType, BatchType, Batches
        <4>2. QED
          BY <4>1, ReceiverAssumption DEF ItemsOf
      <3>4. Attempts(e)' = rows'[e].attempts + 0
        BY <1>3, <1>4, <2>1 DEF Attempts
      <3>5. QED
        BY <1>1, <3>1, <3>2, <3>3, <3>4
    <2>2. CASE e \notin Stored
      BY <1>3, <1>4, <1>5, <2>2 DEF Attempts
    <2>3. QED
      BY <2>1, <2>2
  <1>12. \A e \in Candidates' : e \in Envs(batch.items) => e \in Stored
    BY <1>5, <1>9, <1>10
  <1>13. QED
    BY <1>10, <1>11, <1>12

LEMMA OrderCommitDone ==
    ASSUME DataType, IInv, SaveInv, OrderInv, WayInv, CommitDone
    PROVE  OrderInv'
  <1>1. /\ UNCHANGED <<arrived, batch, onServer, live, stoppingProcessing>>
        /\ UNCHANGED <<incoming, addBatch, zoneQueue, encrypted>>
        /\ batchPhase = "committing" /\ batchPhase' = "acking"
        /\ rows' = SavedRows /\ advanced' = advanced \cup batch.keys
    BY DEF CommitDone, serverVars, queueVars, flagVars, historyVars
  <1>2. /\ Open /\ ~Open' /\ DecryptJobs = {}
        /\ Consumed = advanced \cup batch.keys
    BY <1>1 DEF Open, Consumed, DataType, BatchKnowsItems
  <1>3. /\ UNCHANGED <<Incoming, Adding, Waiting, TableRead, Plain, Queued, DecryptJobs>>
        /\ \A x : MessageOf(x)' = MessageOf(x)
        /\ TableRead
    BY <1>1, SameViews DEF TableRead, MessageOf, IInv, ReadFirst, Idle
  <1>4. /\ DOMAIN rows' = DOMAIN rows \cup Stored
        /\ DecryptedRows' = DecryptedRows \cup Plain
        /\ Stored \subseteq Envs(batch.items)
    BY <1>1, RowsCommitted DEF DataType, BatchKnowsItems
  <1>5. /\ Fresh' = Fresh \ batch.keys /\ ToSave' = ToSave
        /\ \A e \in Candidates : MessageOf(e) \in Fresh /\ ToBeSaved(e)
    BY <1>1 DEF Fresh, ToSave, Messages, Candidates, ToBeSaved
  <1>6. /\ Candidates' = {e \in Candidates : MessageOf(e) \notin batch.keys}
        /\ \A e \in Candidates' : Attempts(e)' = Attempts(e)
        /\ \A e \in Candidates' : e \in Envs(batch.items) => e \in Stored
    BY CandidatesCommitted
  <1>7. \A f \in Plain :
           /\ f \in Envs(batch.items) /\ f \in Candidates
           /\ MessageOf(f) \in Fresh \cap batch.keys
           /\ \A c \in Candidates' : f < c
           /\ \A m \in Fresh' : Coming(m) => MessageOf(f) < m
    BY <1>1, <1>5, <1>6, BehindPlaintexts
  <1>8. \A m \in Fresh' : Coming(m)' => Coming(m) /\ m \in Fresh
    BY <1>1, <1>3, <1>5, <1>6 DEF Coming
  <1>9. EarliestFirst'
    <2>1. ASSUME NEW f \in Candidates', NEW m \in Fresh', m < MessageOf(f), ComesAgain(m, f)'
          PROVE  ComesBefore(m, f)'
      <3>1. ComesAgain(m, f)
        BY <1>1, <1>3, <1>6, <2>1 DEF ComesAgain
      <3>2. PICK e \in Candidates : e < f /\ MessageOf(e) = m /\ Attempts(e) <= Attempts(f)
        BY <1>5, <1>6, <2>1, <3>1 DEF OrderInv, CandidatesInOrder, EarliestFirst, ComesBefore
      <3>3. e \in Candidates'
        BY <1>5, <1>6, <3>2
      <3>4. QED
        BY <1>3, <1>6, <3>2, <3>3 DEF ComesBefore
    <2>2. QED
      BY <1>3, <2>1 DEF EarliestFirst
  <1>10. FreshAreLater'
    <2>1. ASSUME NEW m \in Fresh', Coming(m)', NEW k \in ToSave \cap advanced'
          PROVE  k < m
      <3>1. CASE k \in advanced
        BY <1>8, <2>1, <3>1 DEF OrderInv, CandidatesInOrder, FreshAreLater, Less
      <3>2. CASE k \in batch.keys
        <4>1. PICK f \in Plain : MessageOf(f) = k
          BY <1>1, <2>1, <3>2 DEF IInv, KeysInv, Plaintexts
        <4>2. QED
          BY <1>7, <1>8, <2>1, <4>1
      <3>3. QED
        BY <1>1, <2>1, <3>1, <3>2
    <2>2. QED
      BY <1>5, <2>1 DEF FreshAreLater, Less
  <1>11. RowsInOrder'
    <2>1. ASSUME NEW e \in DecryptedRows', NEW f \in DecryptedRows', e < f
          PROVE  MessageOf(e) < MessageOf(f)
      <3>1. CASE e \in DecryptedRows /\ f \in DecryptedRows
        BY <2>1, <3>1 DEF OrderInv, CandidatesInOrder, RowsInOrder
      <3>2. CASE e \in Plain /\ f \in Plain
        BY <2>1, <3>2 DEF OrderInv, BatchInOrder
      <3>3. CASE e \in DecryptedRows /\ f \in Plain
        <4>1. MessageOf(e) \in ToSave \cap advanced
          BY <3>3 DEF IInv, RowsInv, WayInv, OnlyToSave
        <4>2. MessageOf(f) \in Fresh /\ Coming(MessageOf(f))
          BY <1>7, <3>3 DEF Coming
        <4>3. QED
          BY <4>1, <4>2 DEF OrderInv, CandidatesInOrder, FreshAreLater, Less
      <3>4. CASE e \in Plain /\ f \in DecryptedRows
        <4>1. f < e
          BY <1>7, <3>4 DEF OrderInv, CandidatesInOrder, RowsInOrder, Less
        <4>2. e \in Nat /\ f \in Nat
          BY <3>4, AllArrived, CandidatesArrived
        <4>3. QED
          BY <2>1, <4>1, <4>2
      <3>5. QED
        BY <1>4, <3>1, <3>2, <3>3, <3>4
    <2>2. Less(DecryptedRows', Candidates')
      BY <1>4, <1>6, <1>7 DEF OrderInv, CandidatesInOrder, RowsInOrder, Less
    <2>3. ASSUME NEW r \in DOMAIN rows', NEW c \in Candidates' \ DOMAIN rows'
          PROVE  r < c
      <3>1. c \in Candidates /\ c \notin DOMAIN rows /\ c \notin Envs(batch.items)
        BY <1>4, <1>6, <2>3
      <3>2. CASE r \in DOMAIN rows
        BY <3>1, <3>2 DEF OrderInv, CandidatesInOrder, RowsInOrder, Less
      <3>3. CASE r \in Stored
        <4>1. c \in Waiting \cup Adding \cup Incoming
          BY <1>2, <3>1 DEF Candidates, Requeued
        <4>2. QED
          BY <1>2, <1>4, <3>3, <4>1 DEF OrderInv, PendingInOrder, Less
      <3>4. QED
        BY <1>4, <3>2, <3>3
    <2>4. QED
      BY <1>3, <2>1, <2>2, <2>3 DEF RowsInOrder, Less
  <1>12. LiveAreCandidates'
    <2>1. ASSUME NEW e \in live, MessageOf(e) \in Fresh'
          PROVE  e \in Candidates' /\ Attempts(e)' = 1
      <3>1. e \in Candidates /\ Attempts(e) = 1
        BY <1>5, <2>1 DEF OrderInv, CandidatesInOrder, LiveAreCandidates
      <3>2. e \in Candidates'
        BY <1>5, <1>6, <2>1, <3>1
      <3>3. QED
        BY <1>6, <3>1, <3>2
    <2>2. QED
      BY <1>1, <1>3, <2>1 DEF LiveAreCandidates
  <1>13. CandidatesInOrder'
    BY <1>9, <1>10, <1>11, <1>12 DEF CandidatesInOrder
  <1>14. AllRequeued'
    <2>1. ASSUME ~stoppingProcessing, NEW c \in Candidates'
          PROVE  c \in Requeued'
      <3>1. c \in Candidates /\ MessageOf(c) \notin batch.keys
        BY <1>6
      <3>2. c \in Requeued
        BY <1>3, <2>1, <3>1 DEF OrderInv, AllRequeued
      <3>3. MessageOf(c) \notin Consumed
        BY <1>2, <1>5, <3>1 DEF Fresh
      <3>4. c \notin Envs(batch.items)
        BY <1>2, <1>5, <2>1, <3>1, <3>3 DEF OrderInv, BatchInOrder
      <3>5. QED
        BY <1>2, <1>3, <3>2, <3>4 DEF Requeued
    <2>2. QED
      BY <1>1, <1>2, <2>1 DEF AllRequeued
  <1>15. AttemptsCounted'
    BY <1>1, <1>2, <1>6 DEF OrderInv, AttemptsCounted, ItemsCounted
  <1>16. PendingInOrder'
    <2>1. Less(DOMAIN rows', Incoming)
      BY <1>2, <1>4 DEF OrderInv, PendingInOrder, Less
    <2>2. QED
      BY <1>1, <1>2, <1>3, <2>1 DEF OrderInv, PendingInOrder
  <1>17. BatchInOrder'
    BY <1>1, <1>2, <1>3 DEF OrderInv, BatchInOrder
  <1>18. QED
    BY <1>13, <1>14, <1>15, <1>16, <1>17 DEF OrderInv

\* The plaintexts of the commit are behind every message that is on its way.
LEMMA WayCommitDone ==
    ASSUME DataType, IInv, SaveInv, OrderInv, WayInv, CommitDone
    PROVE  WayInv'
  <1>1. /\ UNCHANGED <<arrived, batch, saved, appVars, failedEver, stoppingProcessing>>
        /\ UNCHANGED <<incoming, encrypted, decrypted, appQueue>>
        /\ batchPhase = "committing" /\ batchPhase' = "acking"
        /\ rows' = SavedRows /\ advanced' = advanced \cup batch.keys
    BY DEF CommitDone, serverVars, queueVars, appVars, flagVars, historyVars
  <1>2. /\ UNCHANGED <<Queued, Handling, Dispatched, Plaintexts, Plain, DecryptJobs,
                       TableRead>>
        /\ UNCHANGED <<Saving, InJobs, Passed, jobQueue, saving>>
        /\ \A x : MessageOf(x)' = MessageOf(x)
        /\ ToSave' = ToSave
    BY <1>1, SameViews, SamePlaces DEF TableRead, MessageOf, ToSave, Messages
  <1>3. DecryptedRows' = DecryptedRows \cup Plain
    BY <1>1, RowsCommitted
  <1>4. \A u \in Plaintexts : u \in ToSave /\ u \notin advanced
        /\ \A k \in ToSave \cap advanced : k < u
    <2>1. ASSUME NEW u \in Plaintexts PROVE u \in Fresh /\ Coming(u)
      <3>1. PICK f \in Plain : MessageOf(f) = u
        BY DEF Plaintexts
      <3>2. QED
        BY <1>1, <3>1, BehindPlaintexts DEF Coming
    <2>2. QED
      BY <2>1 DEF Fresh, OrderInv, CandidatesInOrder, FreshAreLater, Less
  <1>5. /\ Unsaved \subseteq ToSave \cap advanced
        /\ Range(saved) \subseteq ToSave \cap advanced
    BY DEF Unsaved, IInv, RowsInv, WayInv, OnlyToSave, WayIsKept
  <1>6. Unsaved' = Unsaved \cup Plaintexts
    BY <1>1, <1>2, <1>3, <1>4, <1>5 DEF Unsaved, Plaintexts
  <1>7. \A k \in Unsaved \cup Range(saved) : \A u \in Plaintexts : k < u
    BY <1>4, <1>5
  <1>8. OnlyToSave'
    BY <1>1, <1>2, <1>3 DEF WayInv, OnlyToSave, Plaintexts
  <1>9. WayIsKept'
    BY <1>1, <1>2, <1>6 DEF WayInv, WayIsKept
  <1>10. SavedFirst'
    BY <1>1, <1>6, <1>7 DEF WayInv, SavedFirst, SavedInOrder, LessTogether
  <1>11. SavingNext'
    <2>1. Less(Saving, Unsaved' \ Passed)
      BY <1>6, <1>7 DEF WayInv, SavingNext, WayIsKept, Less
    <2>2. LessTogether(Saving, InJobs \cap Unsaved')
      BY <1>6, <1>7 DEF WayInv, SavingNext, WayIsKept, LessTogether
    <2>3. QED
      BY <1>1, <1>2, <2>1, <2>2 DEF WayInv, SavingNext
  <1>12. (Queued \cup Handling \cup Dispatched \cup InJobs) \cap Plaintexts = {}
    BY DEF IInv, PlaintextsApart, Given
  <1>13. JobsNext'
    <2>1. ASSUME NEW c \in Conversations PROVE JobsRise(jobQueue[c])'
      <3>1. \A i \in DOMAIN jobQueue[c] : MessageOf(jobQueue[c][i]) \in InJobs
        BY DEF InJobs, JobMessages
      <3>2. QED
        BY <1>2, <1>6, <1>12, <3>1 DEF WayInv, JobsNext, JobsRise
    <2>2. Less(InJobs \cap Unsaved', Unsaved' \ Passed)
      BY <1>6, <1>7, <1>12 DEF WayInv, JobsNext, Less
    <2>3. QED
      BY <1>2, <2>1, <2>2 DEF JobsNext
  <1>14. DispatchedNext'
    <2>1. Rising(appQueue, "message", arrived, Unsaved')
      BY <1>6, <1>12, RisingOnLabels DEF WayInv, DispatchedNext, Dispatched
    <2>2. QED
      BY <1>1, <1>2, <1>6, <1>7, <1>12, <2>1 DEF WayInv, DispatchedNext, Less
  <1>15. HandlingNext'
    <2>1. ~stoppingProcessing => Rising(decrypted, "handle", arrived, Unsaved')
      BY <1>6, <1>12, RisingOnLabels DEF WayInv, HandlingNext, Handling
    <2>2. QED
      BY <1>1, <1>2, <1>6, <1>7, <1>12, <2>1 DEF WayInv, HandlingNext, Less
  <1>16. QueuedNext'
    <2>1. ~stoppingProcessing => Rising(encrypted, "queueDecrypted", arrived, Unsaved')
      BY <1>6, <1>12, RisingOnLabels DEF WayInv, QueuedNext, Queued
    <2>2. QED
      BY <1>1, <1>2, <1>6, <1>7, <1>12, <2>1 DEF WayInv, QueuedNext, Less
  <1>17. NoneLeft'
    BY <1>1, <1>2, <1>6 DEF WayInv, NoneLeft
  <1>18. QED
    BY <1>8, <1>9, <1>10, <1>11, <1>13, <1>14, <1>15, <1>16, <1>17 DEF WayInv
-----------------------------------------------------------------------------
(* The table is read *)

\* Every row that is left has one attempt more, and so has every row with fewer.
LEMMA RowsCounted ==
    ASSUME DataType
    PROVE  /\ \A e \in DOMAIN rows : rows[e].attempts \in Nat /\ rows[e].attempts >= 1
           /\ \A e \in DOMAIN Kept : Kept[e].attempts = rows[e].attempts + 1
           /\ \A e, f \in DOMAIN rows :
                 f \in DOMAIN Kept /\ rows[e].attempts <= rows[f].attempts
                    => e \in DOMAIN Kept
  <1>1. \A e \in DOMAIN rows :
           /\ rows[e].attempts \in Nat /\ rows[e].attempts >= 1
           /\ [rows[e] EXCEPT !.attempts = @ + 1].attempts = rows[e].attempts + 1
    <2>1. \A e \in DOMAIN rows : rows[e] \in Rows
      BY DEF DataType, RowType
    <2>2. QED
      BY <2>1, ReceiverAssumption DEF Rows
  <1>2. CASE Cardinality(DOMAIN rows) > MaxCached
    BY <1>1, <1>2 DEF Kept
  <1>3. CASE ~(Cardinality(DOMAIN rows) > MaxCached)
    <2> DEFINE kept == {e \in DOMAIN rows : rows[e].attempts + 1 < MaxAttempts}
    <2>1. Kept = [e \in kept |-> [rows[e] EXCEPT !.attempts = @ + 1]]
      BY <1>3 DEF Kept, Retried
    <2>2. \A e, f \in DOMAIN rows :
             f \in kept /\ rows[e].attempts <= rows[f].attempts => e \in kept
      BY <1>1, ReceiverAssumption
    <2> HIDE DEF kept
    <2>3. DOMAIN Kept = kept
      BY <2>1
    <2>4. \A e \in kept : e \in DOMAIN rows
      BY DEF kept
    <2>5. QED
      BY <1>1, <2>1, <2>2, <2>3, <2>4
  <1>4. QED
    BY <1>2, <1>3

\* What is read is queued in the order of the envelopes.
LEMMA ReadInOrder ==
    ASSUME DataType, IInv, OrderInv, QueueAllCached
    PROVE  /\ ~TableRead /\ TableRead'
           /\ Rising(incoming', "decryptAndCache", Id, Nat)
           /\ ItemOrder(addBatch')
           /\ \A i \in DOMAIN addBatch' :
                 /\ addBatch'[i].envelope \in DOMAIN rows'
                 /\ addBatch'[i].attempts = rows'[addBatch'[i].envelope].attempts
           /\ \A i \in DOMAIN encrypted' : encrypted'[i].do # "decrypt"
           /\ \A U : Rising(encrypted', "queueDecrypted", arrived, U)
  <1> DEFINE new == [i \in DOMAIN DoneRows |-> Job("queueDecrypted", DoneRows[i])]
             again == [i \in DOMAIN AgainRows |->
                          Item(AgainRows[i], Kept[AgainRows[i]].attempts)]
             T == {e \in DOMAIN Kept : Kept[e].decrypted}
             U == {e \in DOMAIN Kept : ~Kept[e].decrypted}
  <1>1. /\ incoming # <<>> /\ incoming' = Tail(incoming) /\ Head(incoming).do = "queueAllCached"
        /\ incoming \in Seq(IncomingJobs(Envelopes))
        /\ arrived' = arrived /\ rows' = Kept
        /\ encrypted' = encrypted \o new /\ addBatch' = addBatch \o again
    BY Zenon DEF QueueAllCached, Next1, DoneRows, AgainRows, DataType, QueueType
  <1>2. Idle
    BY RowsQueued
  <1>3. ~TableRead /\ TableRead'
    <2>1. /\ 1 \in DOMAIN incoming /\ incoming[1].do = "queueAllCached"
          /\ \A i \in DOMAIN incoming' :
                i + 1 \in DOMAIN incoming /\ incoming'[i] = incoming[i + 1] /\ i + 1 # 1
      BY <1>1, TailFacts
    <2>2. QED
      BY <2>1 DEF IInv, ReadFirst, TableRead
  <1>4. Rising(incoming', "decryptAndCache", Id, Nat)
    BY <1>1, RisingTail DEF OrderInv, PendingInOrder
  <1>5. DoneRows \in Seq(T) /\ Ordered(DoneRows)
    BY RowsListed DEF DoneRows
  <1>6. AgainRows \in Seq(U) /\ Ordered(AgainRows)
    BY RowsListed DEF AgainRows
  <1>7. addBatch' = again /\ encrypted' = new
    <2>1. encrypted = <<>> /\ addBatch = <<>>
      BY <1>2 DEF Idle
    <2>2. new \in Seq({new[i] : i \in DOMAIN new}) /\ again \in Seq({again[i] : i \in DOMAIN again})
      BY <1>5, <1>6
    <2> HIDE DEF new, again
    <2>3. QED
      BY <1>1, <2>1, <2>2
  <1>8. /\ ItemOrder(addBatch')
        /\ \A i \in DOMAIN addBatch' :
              /\ addBatch'[i].envelope \in DOMAIN rows'
              /\ addBatch'[i].attempts = rows'[addBatch'[i].envelope].attempts
    <2>1. DOMAIN again = DOMAIN AgainRows
          /\ \A i \in DOMAIN again : /\ again[i].envelope = AgainRows[i]
                                     /\ again[i].attempts = Kept[AgainRows[i]].attempts
      BY DEF Item
    <2>2. \A i \in DOMAIN AgainRows : AgainRows[i] \in DOMAIN Kept
      BY <1>6
    <2> HIDE DEF again
    <2>3. ItemOrder(again)
      BY <1>6, <2>1 DEF ItemOrder, Ordered
    <2>4. QED
      BY <1>1, <1>7, <2>1, <2>2, <2>3
  <1>9. \A i \in DOMAIN encrypted' : encrypted'[i].do # "decrypt"
    <2>1. \A i \in DOMAIN new : new[i].do = "queueDecrypted"
      BY DEF Job
    <2> HIDE DEF new
    <2>2. QED
      BY <1>7, <2>1
  <1>10. ASSUME NEW V PROVE Rising(encrypted', "queueDecrypted", arrived, V)
    <2>1. \A i \in DOMAIN DoneRows : DoneRows[i] \in DecryptedRows
      <3>1. \A i \in DOMAIN DoneRows : DoneRows[i] \in T
        BY <1>5
      <3>2. QED
        BY <3>1, RowsRead DEF DecryptedRows
    <2>2. \A i, j \in DOMAIN DoneRows : i < j => arrived[DoneRows[i]] < arrived[DoneRows[j]]
      BY <1>5, <2>1 DEF Ordered, OrderInv, CandidatesInOrder, RowsInOrder, MessageOf
    <2>3. Rising(new, "queueDecrypted", arrived, V)
      BY <2>2, RisingJobs
    <2> HIDE DEF new
    <2>4. QED
      BY <1>7, <2>3
  <1>11. QED
    BY <1>3, <1>4, <1>8, <1>9, <1>10

LEMMA OrderQueueAllCached ==
    ASSUME DataType, IInv, SaveInv, OrderInv, WayInv, QueueAllCached
    PROVE  OrderInv' /\ WayInv'
  <1>1. /\ UNCHANGED <<arrived, zoneQueue, batch, batchPhase, decrypted, appQueue, advanced,
                       onServer, live, saved, appVars, failedEver, stoppingProcessing>>
        /\ rows' = Kept
    BY Zenon DEF QueueAllCached, serverVars, batchVars, appVars, flagVars, historyVars, Kept
  <1>2. /\ Idle /\ Incoming' = Incoming
        /\ DecryptedRows' = {e \in DOMAIN rows' : e \in DecryptedRows}
        /\ DOMAIN rows' \subseteq DOMAIN rows
        /\ Adding' = DOMAIN rows' \ DecryptedRows'
        /\ DecryptJobs' = {}
        /\ Queued' = {MessageOf(e) : e \in DecryptedRows'}
    BY RowsQueued
  <1>3. /\ ~TableRead /\ TableRead'
        /\ Rising(incoming', "decryptAndCache", Id, Nat)
        /\ ItemOrder(addBatch')
        /\ \A i \in DOMAIN addBatch' :
              /\ addBatch'[i].envelope \in DOMAIN rows'
              /\ addBatch'[i].attempts = rows'[addBatch'[i].envelope].attempts
        /\ \A i \in DOMAIN encrypted' : encrypted'[i].do # "decrypt"
        /\ \A U : Rising(encrypted', "queueDecrypted", arrived, U)
    BY ReadInOrder
  <1>4. /\ zoneQueue = <<>> /\ addBatch = <<>> /\ encrypted = <<>> /\ decrypted = <<>>
        /\ appQueue = <<>> /\ saving = <<>> /\ ~Open /\ ~Open'
    BY <1>1, <1>2 DEF Idle, Open
  <1>5. /\ Adding = {} /\ Waiting = {} /\ Waiting' = {} /\ Handling = {} /\ Handling' = {}
        /\ Dispatched = {} /\ Dispatched' = {} /\ Saving = {} /\ Saving' = {}
        /\ InJobs = {} /\ InJobs' = {} /\ Passed' = {}
    BY <1>1, <1>2, <1>4, SamePlaces
       DEF Adding, Waiting, Zoned, Handling, Dispatched, Saving, Passed, Idle, Envs, Labels
  <1>6. Plain = {} /\ Plaintexts = {} /\ Plain' = {} /\ Plaintexts' = {}
        /\ batch'.plain = <<>> /\ batchPhase # "acking"
    BY <1>1, <1>2 DEF IInv, KeysInv, Idle, NoBatch, Plain, Plaintexts, Range
  <1>7. /\ \A x : MessageOf(x)' = MessageOf(x)
        /\ Fresh' = Fresh /\ ToSave' = ToSave
    BY <1>1 DEF MessageOf, Fresh, ToSave, Messages
  <1>8. Requeued = Incoming /\ Requeued' = Incoming \cup Adding'
    BY <1>2, <1>4, <1>5 DEF Requeued
  <1>9. Incoming \cap DOMAIN rows = {}
    BY DEF IInv, PendingNotDone
  <1>10. Candidates' = {e \in Candidates : e \in DOMAIN rows => e \in DOMAIN rows'}
    BY <1>2, <1>7, <1>8, <1>9 DEF Candidates
  <1>11. /\ \A e \in DOMAIN rows : Attempts(e) = rows[e].attempts + 1 /\ rows[e].attempts \in Nat
                                   /\ rows[e].attempts >= 1
         /\ \A e : e \notin DOMAIN rows => Attempts(e) = 1
    BY <1>3, RowsCounted DEF Attempts
  <1>12. \A e \in Candidates' : Attempts(e)' = Attempts(e)
    <2>1. ASSUME NEW e \in Candidates', e \in DOMAIN rows PROVE Attempts(e)' = Attempts(e)
      <3>1. e \in DOMAIN rows' /\ rows'[e].attempts = rows[e].attempts + 1
        BY <1>1, <1>10, <2>1, RowsCounted
      <3>2. Attempts(e)' = rows'[e].attempts + 0
        BY <1>3, <3>1 DEF Attempts
      <3>3. QED
        BY <1>11, <2>1, <3>1, <3>2
    <2>2. ASSUME NEW e \in Candidates', e \notin DOMAIN rows PROVE Attempts(e)' = Attempts(e)
      BY <1>2, <1>11, <2>2 DEF Attempts
    <2>3. QED
      BY <2>1, <2>2
  <1>13. ASSUME NEW e \in Candidates, NEW f \in Candidates', Attempts(e) <= Attempts(f)
         PROVE  e \in Candidates'
    <2>1. CASE e \in DOMAIN rows
      <3>1. f \in DOMAIN rows
        BY <1>11, <1>13, <2>1
      <3>2. f \in DOMAIN Kept
        BY <1>1, <1>10, <3>1
      <3>3. rows[e].attempts <= rows[f].attempts
        BY <1>11, <1>13, <2>1, <3>1
      <3>4. e \in DOMAIN Kept
        BY <2>1, <3>1, <3>2, <3>3, RowsCounted
      <3>5. QED
        BY <1>1, <1>10, <3>4
    <2>2. CASE e \notin DOMAIN rows
      BY <1>10, <2>2
    <2>3. QED
      BY <2>1, <2>2
  <1>14. EarliestFirst'
    <2>1. ASSUME NEW f \in Candidates', NEW m \in Fresh, m < MessageOf(f), ComesAgain(m, f)'
          PROVE  ComesBefore(m, f)'
      <3>1. ComesAgain(m, f) /\ f \in Candidates
        BY <1>1, <1>7, <1>10, <2>1 DEF ComesAgain
      <3>2. PICK e \in Candidates : e < f /\ MessageOf(e) = m /\ Attempts(e) <= Attempts(f)
        BY <2>1, <3>1 DEF OrderInv, CandidatesInOrder, EarliestFirst, ComesBefore
      <3>3. e \in Candidates'
        BY <1>13, <3>2
      <3>4. QED
        BY <1>7, <1>12, <3>2, <3>3 DEF ComesBefore
    <2>2. QED
      BY <1>7, <2>1 DEF EarliestFirst
  <1>15. FreshAreLater'
    <2>1. ASSUME NEW m \in Fresh, Coming(m)' PROVE Less(ToSave \cap advanced, {m})
      <3>1. Coming(m)
        BY <1>1, <1>7, <1>10, <2>1 DEF Coming
      <3>2. QED
        BY <3>1 DEF OrderInv, CandidatesInOrder, FreshAreLater
    <2>2. QED
      BY <1>1, <1>7, <2>1 DEF FreshAreLater, Less
  <1>16. RowsInOrder'
    BY <1>2, <1>7, <1>10 DEF OrderInv, CandidatesInOrder, RowsInOrder, Less
  <1>17. LiveAreCandidates'
    <2>1. ASSUME NEW e \in live, MessageOf(e) \in Fresh
          PROVE  e \in Candidates' /\ Attempts(e)' = 1
      <3>1. e \in Candidates /\ Attempts(e) = 1
        BY <2>1 DEF OrderInv, CandidatesInOrder, LiveAreCandidates
      <3>2. e \notin DOMAIN rows
        BY <1>11, <3>1
      <3>3. QED
        BY <1>10, <1>12, <3>1, <3>2
    <2>2. QED
      BY <1>1, <1>7, <2>1 DEF LiveAreCandidates
  <1>18. AllRequeued'
    BY <1>2, <1>8, <1>10 DEF AllRequeued, Candidates
  <1>19. AttemptsCounted'
    <2>1. \A e \in DOMAIN rows' : rows'[e].attempts \in Nat
      <3>1. Kept \in [DOMAIN Kept -> Rows]
        BY RowsRead
      <3>2. \A e \in DOMAIN Kept : Kept[e].attempts = rows[e].attempts + 1
        BY RowsCounted
      <3>3. QED
        BY <1>1, <1>2, <1>11, <3>1, <3>2
    <2>2. \A x \in DOMAIN rows' : Attempts(x)' = rows'[x].attempts
      BY <1>3, <2>1 DEF Attempts
    <2>3. ItemsCounted(addBatch)'
      BY <1>3, <2>1, <2>2 DEF ItemsCounted, Attempts
    <2>4. QED
      BY <1>1, <1>4, <2>3 DEF AttemptsCounted
  <1>20. PendingInOrder'
    <2>1. Less(DOMAIN rows, Incoming) /\ ZoneOrder(zoneQueue)
      BY DEF OrderInv, PendingInOrder
    <2>2. Less(Adding', Incoming') /\ Less(DOMAIN rows', Incoming')
      BY <1>2, <2>1 DEF Less
    <2>3. Less(Waiting', Adding' \cup Incoming')
      BY <1>5 DEF Less
    <2>4. QED
      BY <1>1, <1>3, <1>4, <2>1, <2>2, <2>3 DEF PendingInOrder
  <1>21. BatchInOrder'
    BY <1>3, <1>4, <1>6 DEF BatchInOrder, Rising
  <1>22. OrderInv'
    BY <1>14, <1>15, <1>16, <1>17, <1>18, <1>19, <1>20, <1>21 DEF OrderInv, CandidatesInOrder
  <1>23. /\ DecryptedRows' \subseteq DecryptedRows
         /\ Unsaved' \subseteq Unsaved /\ Unsaved' \subseteq Queued'
         /\ Queued' \subseteq Unsaved' \cup Range(saved)
    BY <1>1, <1>2, <1>7 DEF Unsaved
  <1>24. OnlyToSave'
    BY <1>1, <1>2, <1>6, <1>7, <1>23 DEF WayInv, OnlyToSave
  <1>25. WayIsKept'
    BY <1>1, <1>5, <1>6, <1>23 DEF WayInv, WayIsKept
  <1>26. SavedFirst'
    BY <1>1, <1>23 DEF WayInv, SavedFirst, SavedInOrder, LessTogether
  <1>27. SavingNext' /\ JobsNext' /\ DispatchedNext' /\ HandlingNext'
    <2>1. \A c \in Conversations : JobsRise(jobQueue[c])'
      BY <1>1, <1>7, <1>23, SamePlaces DEF WayInv, JobsNext, JobsRise
    <2>2. saving' = <<>>
      BY <1>1, <1>4, SamePlaces
    <2>3. QED
      BY <1>1, <1>4, <1>5, <2>1, <2>2
         DEF SavingNext, JobsNext, DispatchedNext, HandlingNext, Rising, LessTogether, Less
  <1>28. QueuedNext'
    <2>1. Less(Queued' \cap Unsaved',
               Unsaved' \ (Passed' \cup Dispatched' \cup Handling' \cup Queued'))
      BY <1>23 DEF Less
    <2>2. QED
      BY <1>1, <1>3, <2>1 DEF QueuedNext
  <1>29. NoneLeft'
    BY <1>23 DEF NoneLeft
  <1>30. QED
    BY <1>22, <1>24, <1>25, <1>26, <1>27, <1>28, <1>29 DEF WayInv
-----------------------------------------------------------------------------
(* The process starts *)

LEMMA OrderInit == Init => OrderInv /\ WayInv
  <1> SUFFICES ASSUME Init PROVE OrderInv /\ WayInv
    OBVIOUS
  <1>1. /\ incoming = <<Job("queueAllCached", 0)>>
        /\ addBatch = <<>> /\ zoneQueue = <<>> /\ batchPhase = "none" /\ batch = NoBatch
        /\ encrypted = <<>> /\ decrypted = <<>> /\ appQueue = <<>> /\ saving = <<>>
        /\ jobQueue = [c \in Conversations |-> <<>>]
        /\ rows = << >> /\ advanced = {} /\ saved = <<>> /\ live = {}
    BY DEF Init
  <1>2. /\ \A i \in DOMAIN incoming : incoming[i].do = "queueAllCached"
        /\ 1 \in DOMAIN incoming
    BY <1>1 DEF Job
  <1>3. /\ ~TableRead /\ Incoming = {}
        /\ Rising(incoming, "decryptAndCache", Id, Nat)
    BY <1>2 DEF TableRead, Incoming, Labels, Rising
  <1>4. /\ Adding = {} /\ Waiting = {} /\ DecryptJobs = {} /\ Queued = {}
        /\ Handling = {} /\ Dispatched = {} /\ Saving = {} /\ InJobs = {}
    BY <1>1 DEF Adding, Waiting, DecryptJobs, Queued, Handling, Dispatched, Saving,
       InJobs, JobMessages, Envs, Zoned, Labels
  <1>5. /\ ~Open /\ batch.plain = <<>> /\ Plain = {} /\ Plaintexts = {}
        /\ DOMAIN rows = {} /\ DecryptedRows = {} /\ Range(saved) = {} /\ Unsaved = {}
    BY <1>1 DEF Open, NoBatch, Plain, Plaintexts, DecryptedRows, Unsaved, Range
  <1>6. Candidates = {}
    BY <1>3, <1>4, <1>5 DEF Candidates, Requeued
  <1>7. CandidatesInOrder
    BY <1>1, <1>5, <1>6 DEF CandidatesInOrder, EarliestFirst, FreshAreLater, RowsInOrder,
       LiveAreCandidates, Less
  <1>8. AllRequeued /\ AttemptsCounted
    BY <1>1, <1>3, <1>5 DEF AllRequeued, AttemptsCounted, ItemsCounted
  <1>9. PendingInOrder
    BY <1>1, <1>3, <1>4, <1>5 DEF PendingInOrder, ItemOrder, ZoneOrder, Less
  <1>10. BatchInOrder
    BY <1>1, <1>5 DEF BatchInOrder, Rising
  <1>11. OnlyToSave /\ WayIsKept /\ SavedFirst
    BY <1>1, <1>4, <1>5 DEF OnlyToSave, WayIsKept, SavedFirst, SavedInOrder, LessTogether
  <1>12. SavingNext /\ JobsNext /\ DispatchedNext /\ HandlingNext /\ QueuedNext /\ NoneLeft
    BY <1>1, <1>4, <1>5 DEF SavingNext, JobsNext, JobsRise, DispatchedNext, HandlingNext,
       QueuedNext, NoneLeft, Rising, LessTogether, Less
  <1>13. QED
    BY <1>7, <1>8, <1>9, <1>10, <1>11, <1>12 DEF OrderInv, WayInv

LEMMA OrderCrashAndRestart ==
    ASSUME DataType, IInv, SaveInv, OrderInv, WayInv, CrashAndRestart
    PROVE  OrderInv' /\ WayInv'
  <1>1. /\ incoming' = <<Job("queueAllCached", 0)>>
        /\ addBatch' = <<>> /\ zoneQueue' = <<>> /\ batchPhase' = "none" /\ batch' = NoBatch
        /\ encrypted' = <<>> /\ decrypted' = <<>> /\ appQueue' = <<>> /\ saving' = <<>>
        /\ jobQueue' = [c \in Conversations |-> <<>>]
        /\ UNCHANGED <<onServer, rows, advanced, saved, arrived, failedEver>> /\ live' = {}
    BY DEF CrashAndRestart, dbVars
  <1>2. /\ \A i \in DOMAIN incoming' : incoming'[i].do = "queueAllCached"
        /\ 1 \in DOMAIN incoming'
    BY <1>1 DEF Job
  <1>3. /\ ~TableRead' /\ Incoming' = {}
        /\ Rising(incoming', "decryptAndCache", Id, Nat)
    BY <1>2 DEF TableRead, Incoming, Labels, Rising
  <1>4. /\ Adding' = {} /\ Waiting' = {} /\ DecryptJobs' = {} /\ Queued' = {}
        /\ Handling' = {} /\ Dispatched' = {} /\ Saving' = {} /\ InJobs' = {}
    BY <1>1 DEF Adding, Waiting, DecryptJobs, Queued, Handling, Dispatched, Saving,
       InJobs, JobMessages, Envs, Zoned, Labels
  <1>5. /\ ~Open' /\ batch'.plain = <<>> /\ Plain' = {} /\ Plaintexts' = {}
    BY <1>1 DEF Open, NoBatch, Plain, Plaintexts, Range
  <1>6. /\ \A x : MessageOf(x)' = MessageOf(x)
        /\ Fresh' = Fresh /\ ToSave' = ToSave
        /\ DecryptedRows' = DecryptedRows /\ Unsaved' = Unsaved
    BY <1>1, UnsavedStays DEF MessageOf, Fresh, ToSave, Messages
  <1>7. /\ Candidates' = {e \in DOMAIN rows \ DecryptedRows : MessageOf(e) \in Fresh}
        /\ Candidates' \subseteq Candidates
    BY <1>1, <1>3, <1>4, <1>5, <1>6 DEF Candidates, Requeued
  <1>8. \A e \in Candidates : e \in DOMAIN rows => e \in Candidates'
    <2>1. \A e \in Candidates : e \in Nat /\ MessageOf(e) \in Fresh
      BY CandidatesArrived DEF Candidates
    <2>2. \A e \in Candidates : e \notin DecryptedRows
      BY <2>1 DEF OrderInv, CandidatesInOrder, RowsInOrder, Less
    <2>3. QED
      BY <1>7, <2>1, <2>2
  <1>9. \A e, f \in DOMAIN rows : Attempts(e) <= Attempts(f) => (Attempts(e) <= Attempts(f))'
    <2>1. \A e \in DOMAIN rows : rows[e].attempts \in Nat
      BY RowsCounted
    <2>2. \A e \in DOMAIN rows : /\ Attempts(e) = rows[e].attempts + (IF TableRead THEN 0 ELSE 1)
                                 /\ Attempts(e)' = rows[e].attempts + 1
      BY <1>1, <1>3 DEF Attempts
    <2>3. QED
      BY <2>1, <2>2
  <1>10. EarliestFirst'
    <2>1. ASSUME NEW f \in Candidates', NEW m \in Fresh, m < MessageOf(f), ComesAgain(m, f)'
          PROVE  ComesBefore(m, f)'
      <3>1. ComesAgain(m, f) /\ f \in Candidates /\ f \in DOMAIN rows
        BY <1>1, <1>6, <1>7, <2>1 DEF ComesAgain
      <3>2. PICK e \in Candidates : e < f /\ MessageOf(e) = m /\ Attempts(e) <= Attempts(f)
        BY <2>1, <3>1 DEF OrderInv, CandidatesInOrder, EarliestFirst, ComesBefore
      <3>3. e \in DOMAIN rows
        <4>1. e \notin DOMAIN rows => f < e
          BY <3>1 DEF OrderInv, CandidatesInOrder, RowsInOrder, Less
        <4>2. e \in Nat /\ f \in Nat
          BY <3>1, CandidatesArrived
        <4>3. QED
          BY <3>2, <4>1, <4>2
      <3>4. e \in Candidates' /\ (Attempts(e) <= Attempts(f))'
        BY <1>8, <1>9, <3>1, <3>2, <3>3
      <3>5. QED
        BY <1>6, <3>2, <3>4 DEF ComesBefore
    <2>2. QED
      BY <1>6, <2>1 DEF EarliestFirst
  <1>11. FreshAreLater'
    <2>1. ASSUME NEW m \in Fresh, Coming(m)' PROVE Less(ToSave \cap advanced, {m})
      <3>1. Coming(m)
        BY <1>1, <1>6, <1>7, <2>1 DEF Coming
      <3>2. QED
        BY <3>1 DEF OrderInv, CandidatesInOrder, FreshAreLater
    <2>2. QED
      BY <1>1, <1>6, <2>1 DEF FreshAreLater, Less
  <1>12. RowsInOrder' /\ LiveAreCandidates'
    BY <1>1, <1>6, <1>7 DEF OrderInv, CandidatesInOrder, RowsInOrder, LiveAreCandidates, Less
  <1>13. AllRequeued' /\ AttemptsCounted'
    BY <1>1, <1>3, <1>5 DEF AllRequeued, AttemptsCounted, ItemsCounted
  <1>14. PendingInOrder'
    BY <1>1, <1>3, <1>4, <1>5 DEF PendingInOrder, ItemOrder, ZoneOrder, Less
  <1>15. BatchInOrder'
    BY <1>1, <1>5 DEF BatchInOrder, Rising
  <1>16. OrderInv'
    BY <1>10, <1>11, <1>12, <1>13, <1>14, <1>15 DEF OrderInv, CandidatesInOrder
  <1>17. OnlyToSave' /\ WayIsKept' /\ SavedFirst'
    BY <1>1, <1>4, <1>5, <1>6 DEF WayInv, OnlyToSave, WayIsKept, SavedFirst, SavedInOrder,
       LessTogether
  <1>18. SavingNext' /\ JobsNext' /\ DispatchedNext' /\ HandlingNext' /\ QueuedNext'
         /\ NoneLeft'
    BY <1>1, <1>3, <1>4 DEF SavingNext, JobsNext, JobsRise, DispatchedNext, HandlingNext,
       QueuedNext, NoneLeft, Rising, LessTogether, Less
  <1>19. QED
    BY <1>16, <1>17, <1>18 DEF WayInv
-----------------------------------------------------------------------------
(* The server sends *)

\* The server sends the first message that no envelope of this connection has.
LEMMA FirstUndelivered ==
    ASSUME DataType, Deliver
    PROVE  \E m \in onServer :
              /\ m \in Messages
              /\ arrived' = Append(arrived, m) /\ arrived'[Len(arrived) + 1] = m
              /\ \A k \in onServer : k < m => \E x \in live : MessageOf(x) = k
              /\ live' = live \cup {Len(arrived) + 1}
              /\ incoming' = Append(incoming, Job("decryptAndCache", Len(arrived) + 1))
  <1>1. PICK m : /\ m = CHOOSE x \in Undelivered : \A y \in Undelivered : x <= y
                 /\ arrived' = Append(arrived, m)
                 /\ live' = live \cup {Len(arrived) + 1}
                 /\ incoming' = Append(incoming, Job("decryptAndCache", Len(arrived) + 1))
    BY DEF Deliver
  <1>2. onServer \subseteq Messages /\ Messages = 1 .. Len(Kind) /\ Len(Kind) \in Nat
    BY ReceiverAssumption DEF DataType, ServerType, Messages
  <1>3. Undelivered # {} /\ Undelivered \subseteq onServer
    BY DEF Deliver, Undelivered
  <1>4. \E x \in Undelivered : \A y \in Undelivered : x <= y
    BY <1>2, <1>3, LeastOf
  <1>5. m \in Undelivered /\ \A y \in Undelivered : m <= y
    BY <1>1, <1>4
  <1>6. ASSUME NEW k \in onServer, k < m PROVE \E x \in live : MessageOf(x) = k
    <2>1. k \notin Undelivered
      BY <1>2, <1>3, <1>5, <1>6
    <2>2. QED
      BY <2>1 DEF Undelivered
  <1>7. arrived'[Len(arrived) + 1] = m
    BY <1>1, <1>2, <1>3, <1>5 DEF DataType, ServerType
  <1>8. QED
    BY <1>1, <1>2, <1>3, <1>5, <1>6, <1>7

\* A job whose label is not read again keeps its place.
LEMMA RisesAfterDeliver ==
    ASSUME DataType, Deliver, NEW U
    PROVE  /\ Rising(encrypted, "queueDecrypted", arrived, U) =>
                 Rising(encrypted', "queueDecrypted", arrived', U)
           /\ Rising(decrypted, "handle", arrived, U) =>
                 Rising(decrypted', "handle", arrived', U)
           /\ Rising(appQueue, "message", arrived, U) =>
                 Rising(appQueue', "message", arrived', U)
  <1>1. \A e \in Envelopes : arrived[e] = arrived'[e]
    BY MoreEnvelopes
  <1>2. UNCHANGED <<encrypted, decrypted, appQueue>>
    BY DEF Deliver
  <1>3. ASSUME NEW names, NEW idle, NEW q \in Seq(Tasks(Envelopes, names, idle)),
               NEW job, job \notin idle, Rising(q, job, arrived, U)
        PROVE  Rising(q, job, arrived', U)
    <2>1. PICK f : f = arrived
      OBVIOUS
    <2>2. PICK g : g = arrived'
      OBVIOUS
    <2>3. \A e \in Envelopes : f[e] = g[e]
      BY <1>1, <2>1, <2>2
    <2>4. Rising(q, job, f, U)
      BY <1>3, <2>1
    <2>5. Rising(q, job, g, U)
      BY <1>3, <2>3, <2>4, RisingRelabelled
    <2>6. QED
      BY <2>2, <2>5
  <1>4. encrypted \in Seq(Tasks(Envelopes, {"decrypt", "queueDecrypted"}, {"waitForEncrypted"}))
    BY DEF DataType, QueueType, EncryptedJobs
  <1>5. decrypted \in Seq(Tasks(Envelopes, {"handle", "decryptionError"},
                                {"batchHandled", "waitForDecrypted"}))
    BY DEF DataType, QueueType, DecryptedJobs
  <1>6. appQueue \in Seq(Tasks(Envelopes, {"message", "delivery"}, {"emitEmpty"}))
    BY DEF DataType, QueueType, AppJobs
  <1>7. QED
    BY <1>2, <1>3, <1>4, <1>5, <1>6

\* The new envelope is the last one; its message may make it a candidate.
LEMMA CandidatesDelivered ==
    ASSUME DataType, IInv, OrderInv, Deliver
    PROVE  \E e \in Nat, m \in onServer :
              /\ \A x \in Envelopes : x < e /\ x \in Nat /\ MessageOf(x)' = MessageOf(x)
              /\ MessageOf(e)' = m /\ live' = live \cup {e}
              /\ e \notin DOMAIN rows
              /\ \A k \in onServer : k < m => \E x \in live : MessageOf(x) = k
              /\ Incoming' = Incoming \cup {e}
              /\ Rising(incoming', "decryptAndCache", Id, Nat)
              /\ Requeued' = Requeued \cup {e}
              /\ Candidates' = Candidates \cup (IF m \in Fresh THEN {e} ELSE {})
              /\ TableRead' = TableRead
              /\ Attempts(e)' = 1 /\ \A x : Attempts(x)' = Attempts(x)
  <1>1. /\ UNCHANGED <<addBatch, zoneQueue, batch, batchPhase, rows, advanced>>
        /\ UNCHANGED batchVars
    BY DEF Deliver, batchVars, dbVars
  <1>2. PICK m \in onServer :
           /\ m \in Messages
           /\ arrived' = Append(arrived, m) /\ arrived'[Len(arrived) + 1] = m
           /\ \A k \in onServer : k < m => \E x \in live : MessageOf(x) = k
           /\ live' = live \cup {Len(arrived) + 1}
           /\ incoming' = Append(incoming, Job("decryptAndCache", Len(arrived) + 1))
    BY FirstUndelivered
  <1>3. PICK e \in Nat : e = Len(arrived) + 1
    BY DEF DataType, ServerType
  <1>4. /\ \A x \in Envelopes : x < e /\ x \in Nat /\ MessageOf(x)' = MessageOf(x)
        /\ e \in Envelopes' /\ e \notin Envelopes /\ Envelopes \subseteq Envelopes'
    <2>1. \A x \in Envelopes : x < e /\ x \in Nat
      BY <1>3 DEF DataType, ServerType, Envelopes
    <2>2. QED
      BY <1>3, <2>1, MoreEnvelopes DEF MessageOf
  <1>5. /\ Incoming \cup Adding \cup Waiting \cup DecryptJobs \subseteq Envelopes
        /\ DOMAIN rows \subseteq Envelopes /\ Envs(batch.items) \subseteq Envelopes
    BY AllArrived
  <1>6. /\ incoming \in Seq(IncomingJobs(Envelopes'))
        /\ Job("decryptAndCache", e) \in IncomingJobs(Envelopes')
    <2>1. incoming \in Seq(IncomingJobs(Envelopes'))
      <3>1. IncomingJobs(Envelopes) \subseteq IncomingJobs(Envelopes')
        BY <1>4, MoreTasks DEF IncomingJobs
      <3>2. incoming \in Seq(IncomingJobs(Envelopes))
        BY DEF DataType, QueueType
      <3>3. QED
        BY <3>1, <3>2, SeqWiden
    <2>2. Job("decryptAndCache", e) \in IncomingJobs(Envelopes')
      BY <1>4, NewTask DEF IncomingJobs
    <2>3. QED
      BY <2>1, <2>2
  <1>7. Id[e] = e
    BY DEF Id
  <1>8. Incoming' = Incoming \cup {e}
    BY <1>2, <1>3, <1>6, <1>7, JobAppended DEF Incoming
  <1>9. Rising(incoming', "decryptAndCache", Id, Nat)
    <2>1. Less(Incoming \cap Nat, {e})
      BY <1>4, <1>5 DEF Less
    <2>2. QED
      BY <1>2, <1>3, <1>6, <1>7, <2>1, RisingAppend DEF OrderInv, PendingInOrder, Incoming
  <1>10. TableRead' = TableRead
    BY <1>2, <1>3, <1>6, ReadJoins
  <1>11. /\ Adding' = Adding /\ Waiting' = Waiting /\ Open' = Open
         /\ DecryptedRows' = DecryptedRows /\ Fresh' = Fresh
    BY <1>1 DEF Adding, Waiting, Open, DecryptedRows, Fresh, ToSave, Messages
  <1>12. Requeued' = Requeued \cup {e}
    BY <1>1, <1>8, <1>11 DEF Requeued
  <1>13. MessageOf(e)' = m
    BY <1>2, <1>3 DEF MessageOf
  <1>14. Candidates' = Candidates \cup (IF m \in Fresh THEN {e} ELSE {})
    <2>1. Requeued \subseteq Envelopes
      BY CandidatesArrived
    <2>2. \A x \in Requeued \cup (DOMAIN rows \ DecryptedRows) :
             x # e /\ MessageOf(x)' = MessageOf(x)
      BY <1>4, <1>5, <2>1
    <2>3. Candidates' = {x \in Requeued' \cup (DOMAIN rows \ DecryptedRows) :
                            MessageOf(x)' \in Fresh}
      BY <1>1, <1>11 DEF Candidates
    <2>4. QED
      BY <1>12, <1>13, <2>2, <2>3 DEF Candidates
  <1>15. Attempts(e)' = 1 /\ \A x : Attempts(x)' = Attempts(x)
    BY <1>1, <1>4, <1>5, <1>10 DEF Attempts
  <1>16. QED
    BY <1>2, <1>3, <1>4, <1>5, <1>8, <1>9, <1>10, <1>12, <1>13, <1>14, <1>15

LEMMA OrderDeliver ==
    ASSUME DataType, IInv, SaveInv, OrderInv, WayInv, Deliver
    PROVE  OrderInv' /\ WayInv'
  <1>1. /\ UNCHANGED <<addBatch, zoneQueue, encrypted, decrypted, appQueue, batch, batchPhase,
                       rows, advanced, saved, jobQueue, saving, failedHere, failedEver,
                       onServer, stoppingProcessing>>
        /\ UNCHANGED batchVars
    BY DEF Deliver, batchVars, appVars, dbVars, flagVars
  <1>2. PICK e \in Nat, m \in onServer :
           /\ \A x \in Envelopes : x < e /\ x \in Nat /\ MessageOf(x)' = MessageOf(x)
           /\ MessageOf(e)' = m /\ live' = live \cup {e}
           /\ e \notin DOMAIN rows
           /\ \A k \in onServer : k < m => \E x \in live : MessageOf(x) = k
           /\ Incoming' = Incoming \cup {e}
           /\ Rising(incoming', "decryptAndCache", Id, Nat)
           /\ Requeued' = Requeued \cup {e}
           /\ Candidates' = Candidates \cup (IF m \in Fresh THEN {e} ELSE {})
           /\ TableRead' = TableRead
           /\ Attempts(e)' = 1 /\ \A x : Attempts(x)' = Attempts(x)
    BY CandidatesDelivered
  <1>3. /\ Incoming \cup Adding \cup Waiting \cup DecryptJobs \subseteq Envelopes
        /\ Plain \subseteq Envelopes /\ Candidates \subseteq Envelopes
        /\ DOMAIN rows \subseteq Envelopes /\ DecryptedRows \subseteq Envelopes
        /\ Envs(batch.items) \subseteq Envelopes /\ live \subseteq Envelopes
    BY AllArrived, CandidatesArrived DEF DataType, ServerType
  <1>4. /\ Adding' = Adding /\ Waiting' = Waiting /\ DecryptJobs' = DecryptJobs
        /\ Plain' = Plain /\ Open' = Open /\ DecryptedRows' = DecryptedRows
        /\ Fresh' = Fresh /\ ToSave' = ToSave /\ Consumed' = Consumed
    BY <1>1 DEF Adding, Waiting, DecryptJobs, Plain, Open, DecryptedRows, Fresh, ToSave,
       Messages, Consumed
  <1>5. UNCHANGED <<Queued, Handling, Dispatched, InJobs, Plaintexts>>
    BY ViewsAfterDeliver
  <1>6. /\ \A x \in Candidates : x \in Candidates' /\ x < e /\ MessageOf(x)' = MessageOf(x)
        /\ \A x \in Candidates' : x \in Candidates \/ x = e
        /\ \A x \in live : x < e /\ MessageOf(x)' = MessageOf(x)
        /\ \A x \in DOMAIN rows : x < e /\ MessageOf(x)' = MessageOf(x)
        /\ \A x \in DecryptedRows : x < e /\ MessageOf(x)' = MessageOf(x)
    BY <1>2, <1>3
  <1>7. \A k, f : ComesBefore(k, f) => ComesBefore(k, f)'
    BY <1>2, <1>6 DEF ComesBefore
  <1>8. EarliestFirst'
    <2>1. ASSUME NEW f \in Candidates, NEW k \in Fresh, k < MessageOf(f), ComesAgain(k, f)'
          PROVE  ComesBefore(k, f)'
      <3>1. ComesAgain(k, f)
        BY <1>1, <1>2, <1>6, <2>1 DEF ComesAgain
      <3>2. QED
        BY <1>7, <2>1, <3>1 DEF OrderInv, CandidatesInOrder, EarliestFirst
    <2>2. ASSUME NEW k \in Fresh, k < m, ComesAgain(k, e)' PROVE ComesBefore(k, e)'
      <3>1. k \in onServer
        <4>1. \A x \in Candidates' : ~(e < x)
          BY <1>2, <1>3, <1>6
        <4>2. QED
          BY <1>1, <2>2, <4>1 DEF ComesAgain
      <3>2. PICK x \in live : MessageOf(x) = k
        BY <1>2, <2>2, <3>1
      <3>3. x \in Candidates /\ Attempts(x) = 1
        BY <2>2, <3>2 DEF OrderInv, CandidatesInOrder, LiveAreCandidates
      <3>4. x \in Candidates' /\ x < e /\ MessageOf(x)' = k /\ Attempts(x)' <= Attempts(e)'
        BY <1>2, <1>6, <3>2, <3>3
      <3>5. QED
        BY <3>4 DEF ComesBefore
    <2>3. ASSUME NEW f \in Candidates', NEW k \in Fresh, k < MessageOf(f)', ComesAgain(k, f)'
          PROVE  ComesBefore(k, f)'
      <3>1. CASE f \in Candidates
        BY <1>6, <2>1, <2>3, <3>1
      <3>2. CASE f = e
        BY <1>2, <2>2, <2>3, <3>2
      <3>3. QED
        BY <1>6, <3>1, <3>2
    <2>4. QED
      BY <1>4, <2>3 DEF EarliestFirst
  <1>9. FreshAreLater'
    <2>1. ASSUME NEW k \in Fresh, Coming(k)' PROVE Less(ToSave \cap advanced, {k})
      <3>1. Coming(k)
        BY <1>1, <1>2, <1>6, <2>1 DEF Coming
      <3>2. QED
        BY <3>1 DEF OrderInv, CandidatesInOrder, FreshAreLater
    <2>2. QED
      BY <1>1, <1>4, <2>1 DEF FreshAreLater, Less
  <1>10. RowsInOrder'
    <2>1. RowsInOrder
      BY DEF OrderInv, CandidatesInOrder
    <2>2. \A x, y \in DecryptedRows : x < y => MessageOf(x)' < MessageOf(y)'
      BY <1>6, <2>1 DEF RowsInOrder
    <2>3. Less(DecryptedRows, Candidates')
      BY <1>6, <2>1 DEF RowsInOrder, Less
    <2>4. Less(DOMAIN rows, Candidates' \ DOMAIN rows)
      BY <1>6, <2>1 DEF RowsInOrder, Less
    <2>5. QED
      BY <1>1, <1>4, <2>2, <2>3, <2>4 DEF RowsInOrder
  <1>11. LiveAreCandidates'
    <2>1. ASSUME NEW x \in live, MessageOf(x)' \in Fresh
          PROVE  x \in Candidates' /\ Attempts(x)' = 1
      BY <1>2, <1>6, <2>1 DEF OrderInv, CandidatesInOrder, LiveAreCandidates
    <2>2. MessageOf(e)' \in Fresh => e \in Candidates' /\ Attempts(e)' = 1
      BY <1>2
    <2>3. QED
      BY <1>2, <1>4, <2>1, <2>2 DEF LiveAreCandidates
  <1>12. AllRequeued'
    BY <1>1, <1>2, <1>4, <1>6 DEF OrderInv, AllRequeued
  <1>13. AttemptsCounted'
    <2>1. ASSUME NEW s, Envs(s) \subseteq Envelopes, ItemsCounted(s), NEW i \in DOMAIN s,
                 NEW x, x = s[i].envelope, x \in Candidates'
          PROVE  s[i].attempts = Attempts(x)'
      <3>1. x \in Envelopes
        BY <2>1 DEF Envs
      <3>2. x \in Candidates
        BY <1>2, <1>6, <2>1, <3>1
      <3>3. QED
        BY <1>2, <2>1, <3>2 DEF ItemsCounted
    <2>2. Envs(addBatch) \subseteq Envelopes
      BY <1>3 DEF Adding
    <2>3. \A k \in DOMAIN zoneQueue : Envs(zoneQueue[k]) \subseteq Envelopes
      BY <1>3 DEF Waiting, Zoned
    <2>4. ItemsCounted(addBatch)'
      <3>1. ItemsCounted(addBatch)
        BY DEF OrderInv, AttemptsCounted
      <3>2. QED
        BY <1>1, <2>1, <2>2, <3>1 DEF ItemsCounted
    <2>5. (\A k \in DOMAIN zoneQueue : ItemsCounted(zoneQueue[k]))'
      <3>1. \A k \in DOMAIN zoneQueue : ItemsCounted(zoneQueue[k])
        BY DEF OrderInv, AttemptsCounted
      <3>2. ASSUME NEW k \in DOMAIN zoneQueue PROVE ItemsCounted(zoneQueue[k])'
        BY <1>1, <2>1, <2>3, <3>1 DEF ItemsCounted
      <3>3. QED
        BY <1>1, <3>2
    <2>6. Open => ItemsCounted(batch.items)'
      <3>1. Open => ItemsCounted(batch.items)
        BY DEF OrderInv, AttemptsCounted
      <3>2. QED
        BY <1>1, <1>3, <2>1, <3>1 DEF ItemsCounted
    <2>7. QED
      BY <1>4, <2>4, <2>5, <2>6 DEF AttemptsCounted
  <1>14. PendingInOrder'
    <2>1. PendingInOrder
      BY DEF OrderInv
    <2>2. Less(Adding, Incoming') /\ Less(Waiting, Adding \cup Incoming')
          /\ Less(DOMAIN rows, Incoming')
      BY <1>2, <1>3, <2>1 DEF PendingInOrder, Less
    <2>3. Open => Less(Envs(batch.items), Waiting \cup Adding \cup Incoming')
      BY <1>2, <1>3, <2>1 DEF PendingInOrder, Less
    <2>4. QED
      BY <1>1, <1>2, <1>4, <2>1, <2>2, <2>3 DEF PendingInOrder
  <1>15. BatchInOrder'
    <2>1. BatchInOrder
      BY DEF OrderInv
    <2>2. \A x, y \in Plain : x < y => MessageOf(x)' < MessageOf(y)'
      BY <1>2, <1>3, <2>1 DEF BatchInOrder
    <2>3. \A x \in Envs(batch.items) :
             /\ MessageOf(x)' = MessageOf(x)
             /\ ToBeSaved(x)' = ToBeSaved(x)
      BY <1>2, <1>3, <1>4 DEF ToBeSaved
    <2>4. Open => \A x \in Envs(batch.items) : \A f \in Plain :
                     x < f /\ ToBeSaved(x)' => MessageOf(x)' \in Consumed
      BY <2>1, <2>3 DEF BatchInOrder
    <2>5. Open /\ ~stoppingProcessing =>
             \A x \in Envs(batch.items) \ DecryptJobs :
                ToBeSaved(x)' => MessageOf(x)' \in Consumed
      BY <2>1, <2>3 DEF BatchInOrder
    <2>6. QED
      BY <1>1, <1>4, <1>5, <2>1, <2>2, <2>4, <2>5 DEF BatchInOrder
  <1>16. OrderInv'
    BY <1>8, <1>9, <1>10, <1>11, <1>12, <1>13, <1>14, <1>15 DEF OrderInv, CandidatesInOrder
  <1>17. /\ \A i \in DOMAIN saving : MessageOf(saving[i])' = MessageOf(saving[i])
         /\ \A c \in Conversations : \A i \in DOMAIN jobQueue[c] :
               MessageOf(jobQueue[c][i])' = MessageOf(jobQueue[c][i])
    <2>1. \A i \in DOMAIN saving : saving[i] \in Envelopes
      BY DEF DataType, AppType
    <2>2. ASSUME NEW c \in Conversations, NEW i \in DOMAIN jobQueue[c]
          PROVE  jobQueue[c][i] \in Envelopes
      <3>1. jobQueue[c] \in Seq(Envelopes)
        BY DEF DataType, AppType
      <3>2. QED
        BY <3>1
    <2>3. QED
      BY <1>1, <1>2, <2>1, <2>2 DEF MessageOf
  <1>18. Unsaved' = Unsaved /\ Saving' = Saving /\ Passed' = Passed
         /\ {MessageOf(x) : x \in DecryptedRows}' = {MessageOf(x) : x \in DecryptedRows}
    BY <1>1, <1>4, <1>5, <1>6, <1>17 DEF Unsaved, Saving, Passed
  <1>19. OnlyToSave'
    <2>1. \A x \in DecryptJobs : Kind[MessageOf(x)'] # "unknownUuid"
      BY <1>2, <1>3 DEF WayInv, OnlyToSave
    <2>2. QED
      BY <1>1, <1>4, <1>5, <1>18, <2>1 DEF WayInv, OnlyToSave
  <1>20. WayIsKept' /\ SavedFirst'
    BY <1>1, <1>5, <1>18 DEF WayInv, WayIsKept, SavedFirst, SavedInOrder
  <1>21. SavingNext' /\ JobsNext'
    <2>1. SavingNext'
      BY <1>1, <1>5, <1>17, <1>18 DEF WayInv, SavingNext
    <2>2. \A c \in Conversations : JobsRise(jobQueue[c])'
      BY <1>1, <1>17, <1>18 DEF WayInv, JobsNext, JobsRise
    <2>3. QED
      BY <1>5, <1>18, <2>1, <2>2 DEF WayInv, JobsNext
  <1>22. DispatchedNext' /\ HandlingNext' /\ QueuedNext'
    BY <1>1, <1>5, <1>18, RisesAfterDeliver DEF WayInv, DispatchedNext, HandlingNext, QueuedNext
  <1>23. NoneLeft'
    BY <1>1, <1>2, <1>5, <1>18 DEF WayInv, NoneLeft
  <1>24. QED
    BY <1>16, <1>19, <1>20, <1>21, <1>22, <1>23 DEF WayInv

LEMMA StepKeepsOrder ==
    ASSUME NoReplays, ~DbMayFail, replays \in Nat, DataType, IInv, SaveInv, OrderInv, WayInv,
           [Next]_vars
    PROVE  OrderInv' /\ WayInv'
  <1>1. CASE Progress
    BY <1>1, QuietSteps, OrderDecryptAndCache, OrderQueueAllCached, OrderStartBatch,
       OrderEnterZone, OrderDecrypt, OrderQueueDecrypted, OrderSendCommit, OrderCommitDone,
       WayCommitDone, OrderAcknowledge, OrderEndBatch, OrderHandle, OrderHandleDataMessage,
       OrderOnMessageReceived, OrderSaveAndConfirm, OrderCacheRemove, Zenon DEF Progress
  <1>2. ~Reconnect /\ ~RetryTimeout
    BY DEF Reconnect, RetryTimeout, NoReplays
  <1>3. ~CommitRejected /\ ~SaveRejected /\ ~CacheRemoveRejected /\ ~QueueAllCachedRejected
    BY DEF CommitRejected, SaveRejected, CacheRemoveRejected, QueueAllCachedRejected
  <1>4. QED
    BY <1>1, <1>2, <1>3, QuietSteps, OrderDeliver, OrderCrashAndRestart, OrderHandleThrows,
       Zenon DEF Next

\* The messages of each conversation are saved in the order of the server, whichever
\* comes from the table and whichever from the web socket, wherever the process stops
\* or crashes and whatever the limits of queueAllCached delete: all but those whose
\* handling has thrown, which are handled again at the next start.  Both conditions
\* are needed: after a read of the table was rejected, new messages are saved before
\* the rows; and when the table is read again after stopProcessing, a row that
\* stopping left behind is handled after later messages.
THEOREM MessagesSavedInOrder ==
    MaxReplays = 0 /\ ~DbMayFail => (Spec => []SavedInOrder)
  <1> DEFINE Calls == NoReplays /\ ~DbMayFail
             Inv == Calls /\ OrderInv /\ WayInv
  <1>1. Calls /\ Init => Inv
    BY OrderInit
  <1>2. Counted /\ DataType /\ SaveInv /\ IInv /\ Inv /\ [Next]_vars => Inv'
    <2>1. Calls => Calls'
      BY DEF NoReplays
    <2>2. Counted /\ DataType /\ SaveInv /\ IInv /\ Inv /\ [Next]_vars => OrderInv' /\ WayInv'
      BY StepKeepsOrder DEF Counted
    <2>3. QED
      BY <2>1, <2>2
  <1>3. Inv => SavedInOrder
    BY DEF WayInv, SavedFirst
  <1>4. Calls => NoReplays
    OBVIOUS
  <1> HIDE DEF Inv, Calls
  <1>5. Calls => (Spec => []SavedInOrder)
    BY <1>1, <1>2, <1>3, <1>4, DataTypeCorrect, SaveInvCorrect, ReplaysCounted, IInvCorrect,
       PTL DEF Spec
  <1>6. QED
    BY <1>5 DEF Calls, NoReplays
=============================================================================
