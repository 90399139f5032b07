--------------------------- MODULE MessageReceiver ---------------------------
(***************************************************************************)
(* The receive path of ts/textsecure/MessageReceiver.ts: an envelope goes  *)
(* from the web socket through incomingQueue, the decryptAndCacheBatcher,  *)
(* encryptedQueue, the transaction of decryptAndCacheBatch, decryptedQueue *)
(* and appQueue to the application, where each conversation has a queue,   *)
(* which saves the message and confirms it; the `unprocessed` table keeps  *)
(* it from the commit to the confirm.                                      *)
(*                                                                         *)
(* The zone of ProtocolStoreZones appears as batchPhase: a batch holds it  *)
(* from EnterZone to the end of its commit, and the calls made in          *)
(* GLOBAL_ZONE (queueAllCached, cacheRemoveBatch) wait for it to be free.  *)
(* A batch may wait though no batch holds the zone: other calls may.       *)
(***************************************************************************)
EXTENDS Naturals, Sequences, FiniteSets, SequencesExt

CONSTANTS
    Kind,          \* what message i of the server's queue is
    ConversationOf, \* and the conversation it is of
    MaxAttempts,   \* MAX_UNPROCESSED_ATTEMPTS
    MaxCached,     \* 1500 rows in queueAllCached
    MaxArrivals,   \* bound: envelopes received
    MaxCrashes,    \* bound: crashes, each followed by a restart
    MaxReplays,    \* bound: reconnections and retry timeouts
    MayStop,       \* the shutdown may call stopProcessing
    DbMayFail,     \* the SQL channel may reject or time out
    MayThrow       \* messages at which handleDataMessage may throw

Kinds == {"message", "receipt", "blocked", "broken", "unknownUuid"}

ASSUME ReceiverAssumption ==
    /\ Kind \in Seq(Kinds)
    /\ DOMAIN ConversationOf = DOMAIN Kind
    /\ {MaxAttempts, MaxCached, MaxArrivals, MaxCrashes, MaxReplays} \subseteq Nat
    /\ MaxAttempts > 1
    /\ MayStop \in BOOLEAN
    /\ DbMayFail \in BOOLEAN
    /\ MayThrow \subseteq DOMAIN Kind

Messages == DOMAIN Kind
Conversations == {ConversationOf[m] : m \in Messages}

VARIABLES
    (* the server *)
    onServer,     \* messages it has no 200 for
    live,         \* envelopes whose request can still be answered
    emptySent,    \* PUT /api/v1/queue/empty has been sent on this connection
    (* the process *)
    incoming,     \* this.incomingQueue
    addBatch,     \* decryptAndCacheBatcher: items not yet in a batch
    zoneQueue,    \* batches that wait for the zone
    batchPhase,   \* "none", "decrypting", "committing", "acking" or "stuck"
    batch,        \* the batch that has the zone, or is answering its requests
    encrypted,    \* this.encryptedQueue
    decrypted,    \* this.decryptedQueue
    appQueue,     \* this.appQueue
    jobQueue,     \* of each conversation: envelopes for handleDataMessage
    removeBatch,  \* cacheRemoveBatcher: envelopes to remove
    inMemory,     \* MessageController: messages registered
    saving,       \* saveNewMessageBatcher: envelopes being saved, to be confirmed
    failedHere,   \* history: messages whose handling or save failed in this process
    waitForBatcher, \* onEmpty awaits decryptAndCacheBatcher.onIdle
    isEmptied,
    retryTimer,   \* retryCachedTimeout is set
    stoppingProcessing,
    (* the database *)
    rows,         \* the unprocessed table
    advanced,     \* messages whose keys the stored sessions have consumed
    saved,        \* the messages table, in the order of the inserts
    (* history *)
    arrived,      \* message of each envelope received: an envelope is its index
    gaveUp,       \* messages of rows deleted by the limits of queueAllCached
    failedEver,   \* messages that have ever been in failedHere
    crashes, replays

serverVars == <<onServer, live, emptySent>>
queueVars == <<incoming, addBatch, zoneQueue, encrypted, decrypted, appQueue>>
batchVars == <<batchPhase, batch>>
appVars == <<jobQueue, inMemory, saving, failedHere>>
flagVars == <<waitForBatcher, isEmptied, retryTimer, stoppingProcessing>>
dbVars == <<rows, advanced, saved>>
historyVars == <<arrived, gaveUp, failedEver, crashes, replays>>
vars == <<serverVars, queueVars, batchVars, removeBatch, appVars, flagVars,
          dbVars, historyVars>>

Envelopes == 1 .. Len(arrived)
MessageOf(e) == arrived[e]

\* Jobs of the queues.  An item is an envelope with the attempts made at it; the
\* request of one read from the table is a fake.
Job(name, e) == [do |-> name, envelope |-> e]
ItemUncounted(e, attempts) ==   \* mutant: the first attempt is not counted
    [envelope |-> e, attempts |-> attempts - 1]
Item(e, attempts) == [envelope |-> e, attempts |-> attempts]
HasRequest(item) == item.attempts = 1

NoBatch ==
    [items |-> <<>>,    \* all of them, to be acknowledged
     plain |-> <<>>,    \* `decrypted`
     failed |-> {},     \* `failed`
     keys |-> {}]       \* messages whose keys the pending sessions consumed

ZoneFree == batchPhase \in {"none", "acking"}

\* A process that has just connected: reset() has been called.
Init ==
    /\ live = {} /\ emptySent = FALSE
    /\ incoming = <<Job("queueAllCached", 0)>>
    /\ addBatch = <<>> /\ zoneQueue = <<>>
    /\ batchPhase = "none" /\ batch = NoBatch
    /\ encrypted = <<>> /\ decrypted = <<>> /\ appQueue = <<>>
    /\ removeBatch = {}
    /\ jobQueue = [c \in Conversations |-> <<>>]
    /\ inMemory = {} /\ saving = <<>> /\ failedHere = {}
    /\ waitForBatcher = FALSE /\ isEmptied = FALSE /\ retryTimer = FALSE
    /\ stoppingProcessing = FALSE
    /\ onServer = Messages
    /\ rows = << >> /\ advanced = {} /\ saved = <<>>
    /\ arrived = <<>> /\ gaveUp = {} /\ failedEver = {}
    /\ crashes = 0 /\ replays = 0

-----------------------------------------------------------------------------
(* The web socket *)

Undelivered == {m \in onServer : \A e \in live : MessageOf(e) # m}

\* handleRequest, /api/v1/message: the server sends what it has in order.
Deliver ==
    /\ ~stoppingProcessing
    /\ Undelivered # {}
    /\ Len(arrived) < MaxArrivals
    /\ LET m == CHOOSE x \in Undelivered : \A y \in Undelivered : x <= y
           e == Len(arrived) + 1
       IN  /\ arrived' = Append(arrived, m)
           /\ live' = live \cup {e}
           /\ incoming' = Append(incoming, Job("decryptAndCache", e))
    /\ UNCHANGED <<onServer, emptySent, addBatch, zoneQueue, encrypted, decrypted,
                   appQueue, batchVars, removeBatch, appVars, flagVars, dbVars,
                   gaveUp, failedEver, crashes, replays>>

\* handleRequest, /api/v1/queue/empty
DeliverEmpty ==
    /\ ~stoppingProcessing
    /\ ~emptySent
    /\ Undelivered = {}
    /\ emptySent' = TRUE
    /\ incoming' = Append(incoming, Job("onEmpty", 0))
    /\ UNCHANGED <<onServer, live, addBatch, zoneQueue, encrypted, decrypted,
                   appQueue, batchVars, removeBatch, appVars, flagVars, dbVars,
                   arrived, gaveUp, failedEver, crashes, replays>>

\* The connection is lost and made again: connect() calls reset().
Reconnect ==
    /\ replays < MaxReplays
    /\ replays' = replays + 1
    /\ live' = {}
    /\ emptySent' = FALSE
    /\ incoming' = Append(incoming, Job("queueAllCached", 0))
    /\ isEmptied' = FALSE
    /\ stoppingProcessing' = FALSE
    /\ UNCHANGED <<onServer, addBatch, zoneQueue, encrypted, decrypted, appQueue,
                   batchVars, removeBatch, appVars, waitForBatcher, retryTimer,
                   dbVars, arrived, gaveUp, failedEver, crashes>>

\* The timer of maybeScheduleRetryTimeout.
RetryTimeout ==
    /\ retryTimer
    /\ replays < MaxReplays
    /\ replays' = replays + 1
    /\ retryTimer' = FALSE
    /\ incoming' = Append(incoming, Job("queueAllCached", 0))
    /\ UNCHANGED <<serverVars, addBatch, zoneQueue, encrypted, decrypted, appQueue,
                   batchVars, removeBatch, appVars, waitForBatcher, isEmptied,
                   stoppingProcessing, dbVars, arrived, gaveUp, failedEver,
                   crashes>>

StopProcessing ==
    /\ MayStop
    /\ ~stoppingProcessing
    /\ stoppingProcessing' = TRUE
    /\ UNCHANGED <<serverVars, queueVars, batchVars, removeBatch, appVars,
                   waitForBatcher, isEmptied, retryTimer, dbVars, historyVars>>

RestartWithoutReset ==   \* mutant: the table is not read again
    /\ crashes < MaxCrashes
    /\ crashes' = crashes + 1
    /\ live' = {} /\ emptySent' = FALSE
    /\ incoming' = <<>>
    /\ addBatch' = <<>> /\ zoneQueue' = <<>>
    /\ batchPhase' = "none" /\ batch' = NoBatch
    /\ encrypted' = <<>> /\ decrypted' = <<>> /\ appQueue' = <<>>
    /\ removeBatch' = {}
    /\ jobQueue' = [c \in Conversations |-> <<>>]
    /\ inMemory' = {} /\ saving' = <<>> /\ failedHere' = {}
    /\ waitForBatcher' = FALSE /\ isEmptied' = FALSE /\ retryTimer' = FALSE
    /\ stoppingProcessing' = FALSE
    /\ UNCHANGED <<onServer, dbVars, arrived, gaveUp, failedEver, replays>>

\* Everything in memory is lost; at the restart connect() calls reset().
CrashAndRestart ==
    /\ crashes < MaxCrashes
    /\ crashes' = crashes + 1
    /\ live' = {} /\ emptySent' = FALSE
    /\ incoming' = <<Job("queueAllCached", 0)>>
    /\ addBatch' = <<>> /\ zoneQueue' = <<>>
    /\ batchPhase' = "none" /\ batch' = NoBatch
    /\ encrypted' = <<>> /\ decrypted' = <<>> /\ appQueue' = <<>>
    /\ removeBatch' = {}
    /\ jobQueue' = [c \in Conversations |-> <<>>]
    /\ inMemory' = {} /\ saving' = <<>> /\ failedHere' = {}
    /\ waitForBatcher' = FALSE /\ isEmptied' = FALSE /\ retryTimer' = FALSE
    /\ stoppingProcessing' = FALSE
    /\ UNCHANGED <<onServer, dbVars, arrived, gaveUp, failedEver, replays>>

-----------------------------------------------------------------------------
(* incomingQueue *)

Next1(queue, job) == queue # <<>> /\ Head(queue).do = job

DecryptAndCache ==
    /\ Next1(incoming, "decryptAndCache")
    /\ incoming' = Tail(incoming)
    /\ addBatch' = Append(addBatch, Item(Head(incoming).envelope, 1))
    /\ UNCHANGED <<serverVars, zoneQueue, encrypted, decrypted, appQueue, batchVars,
                   removeBatch, appVars, flagVars, dbVars, historyVars>>

\* getAllUnprocessedAndIncrementAttempts: what is left of the table.
Retried ==
    LET kept == {e \in DOMAIN rows : rows[e].attempts + 1 < MaxAttempts}
    IN  [e \in kept |-> [rows[e] EXCEPT !.attempts = @ + 1]]

InReverse(S) ==   \* mutant: no ORDER BY
    CHOOSE s \in [1 .. Cardinality(S) -> S] : \A i, j \in DOMAIN s : i < j => s[i] > s[j]

\* ORDER BY receivedAtCounter
InOrder(S) ==
    CHOOSE s \in [1 .. Cardinality(S) -> S] : \A i, j \in DOMAIN s : i < j => s[i] < s[j]

\* getAllFromCache: with too many rows, none is kept.
Kept == IF Cardinality(DOMAIN rows) > MaxCached THEN << >> ELSE Retried

\* queueAllCached: decrypted envelopes go through encryptedQueue, behind what is
\* there already; the others are batched again.
QueueAllCached ==
    /\ Next1(incoming, "queueAllCached")
    /\ ZoneFree
    /\ incoming' = Tail(incoming)
    /\ LET kept == Kept
           done == InOrder({e \in DOMAIN kept : kept[e].decrypted})
           again == InOrder({e \in DOMAIN kept : ~kept[e].decrypted})
       IN  /\ rows' = kept
           /\ gaveUp' = gaveUp \cup {MessageOf(e) : e \in DOMAIN rows \ DOMAIN kept}
           /\ encrypted' = encrypted \o
                 [i \in DOMAIN done |-> Job("queueDecrypted", done[i])]
           /\ addBatch' = addBatch \o
                 [i \in DOMAIN again |-> Item(again[i], kept[again[i]].attempts)]
    /\ UNCHANGED <<serverVars, zoneQueue, decrypted, appQueue, batchVars,
                   removeBatch, appVars, flagVars, advanced, saved, arrived,
                   failedEver, crashes, replays>>

\* The query was rejected, and may have been made all the same: nothing is queued.
QueueAllCachedRejected ==
    /\ DbMayFail
    /\ Next1(incoming, "queueAllCached")
    /\ ZoneFree
    /\ incoming' = Tail(incoming)
    /\ rows' \in {rows, Kept}
    /\ gaveUp' = gaveUp \cup {MessageOf(e) : e \in DOMAIN rows \ DOMAIN rows'}
    /\ UNCHANGED <<serverVars, addBatch, zoneQueue, encrypted, decrypted, appQueue,
                   batchVars, removeBatch, appVars, flagVars, advanced, saved, arrived,
                   failedEver, crashes, replays>>

\* onEmpty: wait for the batcher, then for each queue in turn.
OnEmpty ==
    /\ Next1(incoming, "onEmpty")
    /\ incoming' = Tail(incoming)
    /\ waitForBatcher' = TRUE
    /\ UNCHANGED <<serverVars, addBatch, zoneQueue, encrypted, decrypted, appQueue,
                   batchVars, removeBatch, appVars, isEmptied, retryTimer,
                   stoppingProcessing, dbVars, historyVars>>

BatcherIdle ==
    /\ waitForBatcher
    /\ addBatch = <<>>
    /\ waitForBatcher' = FALSE
    /\ incoming' = Append(incoming, Job("waitForIncoming", 0))
    /\ UNCHANGED <<serverVars, addBatch, zoneQueue, encrypted, decrypted, appQueue,
                   batchVars, removeBatch, appVars, isEmptied, retryTimer,
                   stoppingProcessing, dbVars, historyVars>>

WaitForIncoming ==
    /\ Next1(incoming, "waitForIncoming")
    /\ incoming' = Tail(incoming)
    /\ encrypted' = Append(encrypted, Job("waitForEncrypted", 0))
    /\ UNCHANGED <<serverVars, addBatch, zoneQueue, decrypted, appQueue, batchVars,
                   removeBatch, appVars, flagVars, dbVars, historyVars>>

-----------------------------------------------------------------------------
(* decryptAndCacheBatch *)

\* The batcher's timer or size limit: the batch asks for the zone.
StartBatch ==
    /\ addBatch # <<>>
    /\ addBatch' = <<>>
    /\ zoneQueue' = Append(zoneQueue, addBatch)
    /\ UNCHANGED <<serverVars, incoming, encrypted, decrypted, appQueue, batchVars,
                   removeBatch, appVars, flagVars, dbVars, historyVars>>

\* The body of withZone: every item goes to encryptedQueue, but for one with an
\* unknown destination uuid.
EnterZone ==
    /\ batchPhase = "none"
    /\ zoneQueue # <<>>
    /\ LET items == Head(zoneQueue)
           known == InOrder({i \in DOMAIN items :
                       Kind[MessageOf(items[i].envelope)] # "unknownUuid"})
       IN  /\ batch' = [NoBatch EXCEPT !.items = items]
           /\ encrypted' = encrypted \o
                 [i \in DOMAIN known |-> Job("decrypt", items[known[i]].envelope)]
    /\ zoneQueue' = Tail(zoneQueue)
    /\ batchPhase' = "decrypting"
    /\ UNCHANGED <<serverVars, incoming, addBatch, decrypted, appQueue, removeBatch,
                   appVars, flagVars, dbVars, historyVars>>

\* What the job of queueEncryptedEnvelope comes to.
Outcome(m) ==
    IF stoppingProcessing THEN "dropped by stop"
    ELSE IF Kind[m] = "receipt" THEN "receipt"
    ELSE IF Kind[m] = "broken" THEN "decryption error"
    ELSE IF m \in advanced \cup batch.keys THEN "old counter"
    ELSE IF Kind[m] = "blocked" THEN "blocked"
    ELSE "plaintext"

Fails(outcome) ==
    outcome \in {"dropped by stop", "decryption error", "old counter"}

Decrypt ==
    /\ Next1(encrypted, "decrypt")
    /\ encrypted' = Tail(encrypted)
    /\ LET e == Head(encrypted).envelope
           outcome == Outcome(MessageOf(e))
       IN  /\ batch' = [batch EXCEPT
                 !.plain = IF outcome = "plaintext" THEN Append(@, e) ELSE @,
                 !.failed = IF Fails(outcome) THEN @ \cup {e} ELSE @,
                 !.keys = IF outcome \in {"plaintext", "blocked"}
                          THEN @ \cup {MessageOf(e)} ELSE @]
           /\ removeBatch' = IF outcome = "old counter"
                             THEN removeBatch \cup {e} ELSE removeBatch
           /\ decrypted' = IF outcome = "decryption error"
                           THEN Append(decrypted, Job("decryptionError", e))
                           ELSE decrypted
           /\ appQueue' = IF outcome = "receipt"
                          THEN Append(appQueue, Job("delivery", e)) ELSE appQueue
    /\ UNCHANGED <<serverVars, incoming, addBatch, zoneQueue, batchPhase, appVars,
                   flagVars, dbVars, historyVars>>

QueueDecrypted ==
    /\ Next1(encrypted, "queueDecrypted")
    /\ encrypted' = Tail(encrypted)
    /\ decrypted' = Append(decrypted, Job("handle", Head(encrypted).envelope))
    /\ UNCHANGED <<serverVars, incoming, addBatch, zoneQueue, appQueue, batchVars,
                   removeBatch, appVars, flagVars, dbVars, historyVars>>

WaitForEncrypted ==
    /\ Next1(encrypted, "waitForEncrypted")
    /\ encrypted' = Tail(encrypted)
    /\ decrypted' = Append(decrypted, Job("waitForDecrypted", 0))
    /\ UNCHANGED <<serverVars, incoming, addBatch, zoneQueue, appQueue, batchVars,
                   removeBatch, appVars, flagVars, dbVars, historyVars>>

\* Promise.all has settled: addMultipleUnprocessed, the end of the body and
\* commitZoneChanges.
SendCommit ==
    /\ batchPhase = "decrypting"
    /\ \A i \in DOMAIN encrypted : encrypted[i].do # "decrypt"
    /\ batchPhase' = "committing"
    /\ UNCHANGED <<serverVars, queueVars, batch, removeBatch, appVars, flagVars,
                   dbVars, historyVars>>

Stored == Range(batch.plain) \cup batch.failed

\* saveUnprocessedSync of every row, in the transaction of the sessions.
SavedRows ==
    LET attempts == [e \in Stored |->
              (CHOOSE i \in Range(batch.items) : i.envelope = e).attempts]
        keep == {e \in Stored : attempts[e] < MaxAttempts}
    IN  [e \in (DOMAIN rows \ Stored) \cup keep |->
            IF e \in keep
            THEN [attempts |-> attempts[e], decrypted |-> e \in Range(batch.plain)]
            ELSE rows[e]]

CommitSessionsFirst ==   \* mutant: two transactions, the sessions' first
    /\ batchPhase = "committing"
    /\ IF batch.keys \subseteq advanced
       THEN /\ rows' = SavedRows
            /\ batchPhase' = "acking"
            /\ UNCHANGED advanced
       ELSE /\ advanced' = advanced \cup batch.keys
            /\ UNCHANGED <<rows, batchPhase>>
    /\ UNCHANGED <<serverVars, queueVars, batch, removeBatch, appVars, flagVars,
                   saved, historyVars>>

CommitDone ==
    /\ batchPhase = "committing"
    /\ rows' = SavedRows
    /\ advanced' = advanced \cup batch.keys
    /\ batchPhase' = "acking"
    /\ UNCHANGED <<serverVars, queueVars, batch, removeBatch, appVars, flagVars,
                   saved, historyVars>>

\* The zone is never left (see CommitRejected of ProtocolStoreZones) and the
\* requests are answered with a 500.
CommitRejected ==
    /\ DbMayFail
    /\ batchPhase = "committing"
    /\ \/ UNCHANGED <<rows, advanced>>
       \/ rows' = SavedRows /\ advanced' = advanced \cup batch.keys
    /\ batchPhase' = "stuck"
    /\ UNCHANGED <<serverVars, queueVars, batch, removeBatch, appVars, flagVars,
                   saved, historyVars>>

AcknowledgeEarly ==   \* mutant: acknowledged before the commit
    /\ batchPhase \in {"committing", "acking"}
    /\ \E item \in Range(batch.items) :
          onServer' = onServer \ {MessageOf(item.envelope)}
    /\ batch' = IF batchPhase = "acking" THEN [batch EXCEPT !.items = Tail(@)]
                ELSE batch
    /\ UNCHANGED <<live, emptySent, queueVars, batchPhase, removeBatch, appVars,
                   flagVars, dbVars, historyVars>>

\* request.respond(200): lost with the connection of the request.
Acknowledge ==
    /\ batchPhase = "acking"
    /\ batch.items # <<>>
    /\ LET item == Head(batch.items)
       IN  onServer' = IF HasRequest(item) /\ item.envelope \in live
                       THEN onServer \ {MessageOf(item.envelope)} ELSE onServer
    /\ batch' = [batch EXCEPT !.items = Tail(@)]
    /\ UNCHANGED <<live, emptySent, queueVars, batchPhase, removeBatch, appVars,
                   flagVars, dbVars, historyVars>>

\* queueDecryptedEnvelope of each; when the last has been handled,
\* maybeScheduleRetryTimeout.
EndBatch ==
    /\ batchPhase = "acking"
    /\ batch.items = <<>>
    /\ decrypted' = decrypted
          \o [i \in DOMAIN batch.plain |-> Job("handle", batch.plain[i])]
          \o IF batch.plain = <<>> THEN <<>> ELSE <<Job("batchHandled", 0)>>
    /\ retryTimer' = (retryTimer \/ (isEmptied /\ batch.plain = <<>>))
    /\ batchPhase' = "none"
    /\ batch' = NoBatch
    /\ UNCHANGED <<serverVars, incoming, addBatch, zoneQueue, encrypted, appQueue,
                   removeBatch, appVars, waitForBatcher, isEmptied,
                   stoppingProcessing, dbVars, historyVars>>

BatchHandled ==
    /\ Next1(decrypted, "batchHandled")
    /\ decrypted' = Tail(decrypted)
    /\ retryTimer' = (retryTimer \/ isEmptied)
    /\ UNCHANGED <<serverVars, incoming, addBatch, zoneQueue, encrypted, appQueue,
                   batchVars, removeBatch, appVars, waitForBatcher, isEmptied,
                   stoppingProcessing, dbVars, historyVars>>

-----------------------------------------------------------------------------
(* decryptedQueue, appQueue and the application *)

\* handleDecryptedEnvelope: dispatchAndWait puts the event on appQueue.  While
\* stopping, the row is left for the next start.
Handle ==
    /\ Next1(decrypted, "handle")
    /\ decrypted' = Tail(decrypted)
    /\ appQueue' = IF stoppingProcessing THEN appQueue
                   ELSE Append(appQueue, Job("message", Head(decrypted).envelope))
    /\ UNCHANGED <<serverVars, incoming, addBatch, zoneQueue, encrypted, batchVars,
                   removeBatch, appVars, flagVars, dbVars, historyVars>>

\* The DecryptionErrorEvent is dispatched and confirmed.
DecryptionError ==
    /\ Next1(decrypted, "decryptionError")
    /\ decrypted' = Tail(decrypted)
    /\ removeBatch' = removeBatch \cup {Head(decrypted).envelope}
    /\ UNCHANGED <<serverVars, incoming, addBatch, zoneQueue, encrypted, appQueue,
                   batchVars, appVars, flagVars, dbVars, historyVars>>

WaitForDecrypted ==
    /\ Next1(decrypted, "waitForDecrypted")
    /\ decrypted' = Tail(decrypted)
    /\ appQueue' = Append(appQueue, Job("emitEmpty", 0))
    /\ UNCHANGED <<serverVars, incoming, addBatch, zoneQueue, encrypted, batchVars,
                   removeBatch, appVars, flagVars, dbVars, historyVars>>

KnownIfSaved(m) == m \in Range(saved)   \* mutant: the table alone is looked at
KnownInMemory(m) == m \in inMemory   \* mutant: memory alone is looked at

\* The duplicate check of handleDataMessage.
Known(m) == m \in inMemory \cup Range(saved)

\* onMessageReceived: the envelope goes to the queue of its conversation, which is
\* not waited for.
OnMessageReceived ==
    /\ Next1(appQueue, "message")
    /\ appQueue' = Tail(appQueue)
    /\ LET e == Head(appQueue).envelope
       IN  jobQueue' = [jobQueue EXCEPT ![ConversationOf[MessageOf(e)]] = Append(@, e)]
    /\ UNCHANGED <<serverVars, incoming, addBatch, zoneQueue, encrypted, decrypted,
                   batchVars, removeBatch, inMemory, saving, failedHere, flagVars,
                   dbVars, historyVars>>

DuplicateNotConfirmed(c) ==   \* mutant: the row of a duplicate is left
    /\ jobQueue[c] # <<>>
    /\ jobQueue' = [jobQueue EXCEPT ![c] = Tail(@)]
    /\ LET e == Head(jobQueue[c])
           m == MessageOf(e)
       IN  IF Known(m) THEN UNCHANGED <<inMemory, saving>>
           ELSE /\ inMemory' = inMemory \cup {m}
                /\ saving' = Append(saving, e)
    /\ UNCHANGED <<serverVars, queueVars, batchVars, removeBatch, failedHere, flagVars,
                   dbVars, historyVars>>

\* handleDataMessage: a duplicate is confirmed at once, any other message is
\* registered and its save batched.
HandleDataMessage(c) ==
    /\ jobQueue[c] # <<>>
    /\ jobQueue' = [jobQueue EXCEPT ![c] = Tail(@)]
    /\ LET e == Head(jobQueue[c])
           m == MessageOf(e)
       IN  IF Known(m)
           THEN /\ removeBatch' = removeBatch \cup {e}
                /\ UNCHANGED <<inMemory, saving>>
           ELSE /\ inMemory' = inMemory \cup {m}
                /\ saving' = Append(saving, e)
                /\ UNCHANGED removeBatch
    /\ UNCHANGED <<serverVars, queueVars, batchVars, failedHere, flagVars, dbVars,
                   historyVars>>

\* It throws, of a group update that failed before the message is registered, or
\* after: the row is left, and the queue goes on.
HandleThrows(c) ==
    /\ jobQueue[c] # <<>>
    /\ jobQueue' = [jobQueue EXCEPT ![c] = Tail(@)]
    /\ LET m == MessageOf(Head(jobQueue[c]))
       IN  /\ m \in MayThrow
           /\ ~Known(m)
           /\ inMemory' \in {inMemory, inMemory \cup {m}}
           /\ failedHere' = failedHere \cup {m}
           /\ failedEver' = failedEver \cup {m}
    /\ UNCHANGED <<serverVars, queueVars, batchVars, removeBatch, saving, flagVars,
                   dbVars, arrived, gaveUp, crashes, replays>>

\* saveAndNotify: the save is in the table, then the envelope is confirmed.
SaveAndConfirm ==
    /\ saving # <<>>
    /\ saving' = Tail(saving)
    /\ saved' = Append(saved, MessageOf(Head(saving)))
    /\ removeBatch' = removeBatch \cup {Head(saving)}
    /\ UNCHANGED <<serverVars, queueVars, batchVars, jobQueue, inMemory, failedHere,
                   flagVars, rows, advanced, historyVars>>

\* The save was rejected, and may have been made all the same: the envelope is
\* not confirmed, and the message stays registered.
SaveRejected ==
    /\ DbMayFail
    /\ saving # <<>>
    /\ saving' = Tail(saving)
    /\ LET m == MessageOf(Head(saving))
       IN  /\ saved' \in {saved, Append(saved, m)}
           /\ failedHere' = failedHere \cup {m}
           /\ failedEver' = failedEver \cup {m}
    /\ UNCHANGED <<serverVars, queueVars, batchVars, removeBatch, jobQueue, inMemory,
                   flagVars, rows, advanced, arrived, gaveUp, crashes, replays>>

Delivery ==
    /\ Next1(appQueue, "delivery")
    /\ appQueue' = Tail(appQueue)
    /\ removeBatch' = removeBatch \cup {Head(appQueue).envelope}
    /\ UNCHANGED <<serverVars, incoming, addBatch, zoneQueue, encrypted, decrypted,
                   batchVars, appVars, flagVars, dbVars, historyVars>>

\* emitEmpty, once both batchers are flushed.
EmitEmpty ==
    /\ Next1(appQueue, "emitEmpty")
    /\ addBatch = <<>> /\ removeBatch = {}
    /\ appQueue' = Tail(appQueue)
    /\ isEmptied' = TRUE
    /\ retryTimer' = TRUE
    /\ UNCHANGED <<serverVars, incoming, addBatch, zoneQueue, encrypted, decrypted,
                   batchVars, removeBatch, appVars, waitForBatcher,
                   stoppingProcessing, dbVars, historyVars>>

\* cacheRemoveBatch, in GLOBAL_ZONE.
CacheRemove ==
    /\ removeBatch # {}
    /\ ZoneFree
    /\ rows' = [e \in DOMAIN rows \ removeBatch |-> rows[e]]
    /\ removeBatch' = {}
    /\ UNCHANGED <<serverVars, queueVars, batchVars, appVars, flagVars, advanced,
                   saved, historyVars>>

\* The rejection is nobody's: the rows stay.
CacheRemoveRejected ==
    /\ DbMayFail
    /\ removeBatch # {}
    /\ ZoneFree
    /\ removeBatch' = {}
    /\ UNCHANGED <<serverVars, queueVars, batchVars, appVars, flagVars, dbVars,
                   historyVars>>

-----------------------------------------------------------------------------
Progress ==
    \/ DecryptAndCache \/ QueueAllCached \/ OnEmpty \/ BatcherIdle
    \/ WaitForIncoming
    \/ StartBatch \/ EnterZone \/ Decrypt \/ QueueDecrypted \/ WaitForEncrypted
    \/ SendCommit \/ CommitDone \/ Acknowledge \/ EndBatch
    \/ Handle \/ BatchHandled \/ DecryptionError \/ WaitForDecrypted
    \/ OnMessageReceived \/ SaveAndConfirm \/ Delivery \/ EmitEmpty
    \/ CacheRemove
    \/ \E c \in Conversations : HandleDataMessage(c)

Next ==
    \/ Progress
    \/ Deliver \/ DeliverEmpty
    \/ Reconnect \/ RetryTimeout \/ StopProcessing \/ CrashAndRestart
    \/ CommitRejected \/ SaveRejected \/ CacheRemoveRejected
    \/ QueueAllCachedRejected
    \/ \E c \in Conversations : HandleThrows(c)

Spec == Init /\ [][Next]_vars

\* Every queue goes on: a job's promise settles, at the latest by the timer of
\* createTaskWithTimeout.  The server sends what it has on every connection.
Fairness ==
    /\ WF_vars(DecryptAndCache) /\ WF_vars(QueueAllCached)
    /\ WF_vars(StartBatch) /\ WF_vars(EnterZone) /\ WF_vars(Decrypt)
    /\ WF_vars(QueueDecrypted) /\ WF_vars(WaitForEncrypted)
    /\ WF_vars(SendCommit) /\ WF_vars(CommitDone) /\ WF_vars(Acknowledge)
    /\ WF_vars(EndBatch)
    /\ WF_vars(Handle) /\ WF_vars(BatchHandled)
    /\ WF_vars(DecryptionError) /\ WF_vars(WaitForDecrypted)
    /\ WF_vars(OnMessageReceived) /\ WF_vars(SaveAndConfirm)
    /\ \A c \in Conversations : WF_vars(HandleDataMessage(c))
    /\ WF_vars(Delivery) /\ WF_vars(EmitEmpty) /\ WF_vars(CacheRemove)
    /\ WF_vars(OnEmpty) /\ WF_vars(BatcherIdle) /\ WF_vars(WaitForIncoming)
    /\ WF_vars(Deliver)

FairSpec == Spec /\ Fairness

-----------------------------------------------------------------------------
(* Properties *)

JobsOf(names) == [do : names, envelope : Nat]
Items == [envelope : Nat, attempts : Nat]

TypeOK ==
    /\ onServer \subseteq Messages
    /\ live \subseteq Envelopes
    /\ incoming \in Seq(JobsOf({"queueAllCached", "decryptAndCache", "onEmpty",
                                "waitForIncoming"}))
    /\ addBatch \in Seq(Items)
    /\ zoneQueue \in Seq(Seq(Items))
    /\ batchPhase \in {"none", "decrypting", "committing", "acking", "stuck"}
    /\ batch \in [items : Seq(Items), plain : Seq(Envelopes),
                  failed : SUBSET Envelopes, keys : SUBSET Messages]
    /\ encrypted \in Seq(JobsOf({"decrypt", "queueDecrypted", "waitForEncrypted"}))
    /\ decrypted \in Seq(JobsOf({"handle", "batchHandled", "decryptionError",
                                 "waitForDecrypted"}))
    /\ appQueue \in Seq(JobsOf({"message", "delivery", "emitEmpty"}))
    /\ removeBatch \subseteq Envelopes
    /\ jobQueue \in [Conversations -> Seq(Envelopes)]
    /\ inMemory \subseteq Messages
    /\ saving \in Seq(Envelopes)
    /\ failedHere \subseteq failedEver
    /\ {emptySent, waitForBatcher, isEmptied, retryTimer, stoppingProcessing}
          \subseteq BOOLEAN
    /\ DOMAIN rows \subseteq Envelopes
    /\ \A e \in DOMAIN rows :
          rows[e] \in [attempts : 1 .. (MaxAttempts - 1), decrypted : BOOLEAN]
    /\ advanced \subseteq Messages
    /\ saved \in Seq(Messages)
    /\ arrived \in Seq(Messages)
    /\ gaveUp \subseteq Messages
    /\ failedEver \subseteq Messages

ToSave == {m \in Messages : Kind[m] = "message"}

\* The plaintext of m is in a table, or is on its way to one in this process.
\* A row the limits of queueAllCached deleted is given up on.
PlaintextKept(m) ==
    \/ \E e \in DOMAIN rows : MessageOf(e) = m /\ rows[e].decrypted
    \/ m \in Range(saved)
    \/ \E i \in DOMAIN saving : MessageOf(saving[i]) = m
    \/ m \in gaveUp

\* "Commit both sender keys, sessions and unprocessed in the same database
\* transaction" (commitZoneChanges): once the stored session has consumed the key
\* of a message, which nothing can decrypt again, its plaintext is kept until the
\* message is saved: across crashes, lost acknowledgements and rejected commits.
ConsumedIsKept == \A m \in ToSave \cap advanced : PlaintextKept(m)

\* A message the server was told to forget is kept here, decrypted or not.
AcknowledgedIsKept ==
    \A m \in ToSave \ onServer :
        PlaintextKept(m) \/ \E e \in DOMAIN rows : MessageOf(e) = m

\* However often an envelope is delivered or read from the table, its message is
\* saved at most once.
SavedOnce == \A i, j \in DOMAIN saved : saved[i] = saved[j] => i = j

\* The messages of a conversation are saved in the order of the server, whichever of
\* the table and the web socket each comes from, and whatever the process before the
\* crash had saved already: but a message whose handling or save has failed, which
\* waits in the table for the next start.
SavedInOrder ==
    \A i, j \in DOMAIN saved :
       /\ i < j
       /\ ConversationOf[saved[i]] = ConversationOf[saved[j]]
       => saved[i] <= saved[j] \/ saved[j] \in failedEver

\* Each message is saved in the end, or given up on at the limits, though the
\* process crashes and acknowledgements are lost: but for one whose handling fails in
\* the last process, which no one starts again.
EventuallySaved ==
    \A m \in ToSave : <>[](m \in Range(saved) \cup gaveUp \cup failedHere)

\* No envelope stays in the table for ever but that of a message whose handling
\* failed: a row inserted after its removal was asked for, or read again while it was
\* being handled, is removed too.
TableDrains == <>[](\A e \in DOMAIN rows : MessageOf(e) \in failedHere)

=============================================================================
