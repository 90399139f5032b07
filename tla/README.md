# A verification of Signal Desktop in TLA+

This directory holds TLA+ models of the parts of Signal Desktop 5.48.0 whose
correctness depends on order and failure: what happens between an envelope that
comes in on the web socket and a message in the database, between a job
that is added and a job that has run, between a message sent and the receipts for
it, between the devices that share settings through the storage service, and between
a group on the server and what a device makes of its changes. TLC checks the models
on small instances; TLAPS proves theorems about them for every instance.

`PROJECT.json` lists, for tools: the components, the runs, the definitions of
the modules with the source lines each one models, the mutants (small changes
of a definition that each property must notice), the findings, the hazards and
the theorems.

## The system

The program is an Electron application. Everything modelled here runs in the
renderer: one JavaScript thread, so a step of a model is what runs between two
awaits, and the interleavings are those of promises, timers and answers of the
SQL worker. A crash can come between any two steps; the SQL database survives.

| component | code (`src/ts/`) | state | operations | hard behaviour | status |
|---|---|---|---|---|---|
| zone transactions | `SignalProtocolStore.ts`, `util/Zone.ts` | `currentZone`, `currentZoneDepth`, `zoneQueue`, three pending maps, the maps in memory, the tables | `withZone` and every method that runs inside it | re-entrancy, waiters, commit and revert over awaits, rejected commits, callers that time out | `ProtocolStoreZones` |
| message receiver | `textsecure/MessageReceiver.ts`, `util/batcher.ts`, `util/waitBatcher.ts` | four `PQueue`s, two batchers, flags, the `unprocessed` table | `handleRequest`, `reset`, `decryptAndCacheBatch`, `queueAllCached`, `onEmpty`, `stopProcessing` | crashes, lost acknowledgements, replays of rows, batches that wait for a zone | `MessageReceiver` |
| incoming data messages | `models/messages.ts`, `background.ts` | a queue per conversation, `MessageController`, the `messages` table | `onMessageReceived`, `handleDataMessage`, `saveAndNotify` | handling that throws, a save that fails after the message is registered | the application end of `MessageReceiver` |
| durable job queues | `jobs/JobQueue.ts`, `JobQueueDatabaseStore.ts`, `util/AsyncQueue.ts`, `jobs/helpers/InMemoryQueues.ts` | the `jobs` table, an `AsyncQueue` per type, a `PQueue` per conversation | `streamJobs`, `add`, `enqueueStoredJob` | fetch against insert, order over restarts, failed deletions | `JobQueue` |
| SQL channel and worker | `sql/Client.ts`, `sql/Server.ts` | calls sent and not answered | `makeChannel`, the queries used | a call that times out and runs all the same | the environment of the three above |
| task timeouts | `textsecure/TaskWithTimeout.ts` | running timers | `createTaskWithTimeout` | the task behind a rejected promise runs on | `GiveUp` of `ProtocolStoreZones` |
| conversation job queue | `jobs/conversationJobQueue.ts`, `challenge.ts`, `state/ducks/conversations.ts` | verification waiters, registered challenges, timers, pending starts, cancellation tombstones | `run`, `resolveVerificationWaiter`, `register`, `solve`, `startQueue`, verify and cancel | a five-minute race, a waiter shared by jobs, a challenge started while it is registered, offline and online | `ConversationJobs` |
| send states, receipts | `messages/MessageSendState.ts`, `messageModifiers/MessageReceipts.ts`, `jobs/helpers/sendNormalMessage.ts`, `models/messages.ts`, `util/MessageController.ts` | status per recipient, in models and in the row; receipts without a message yet | `sendStateReducer`, `onReceipt`, `forMessage`, `send`, `retrySend`, transcripts | receipts early, late, twice; saves over awaits; two models of one message | `SendStates`, abstractly `DeliveryStatus` |
| sending | `textsecure/OutgoingMessage.ts`, `SendMessage.ts`, `util/sendToGroup.ts` | sessions, device lists | send, 409/410 retries | stale device lists | planned |
| decryption errors | `util/handleRetry.ts`, `util/retryPlaceholders.ts` | placeholders | resend requests | expiry against an answer | planned |
| attachment downloads | `messageModifiers/AttachmentDownloads.ts` | active jobs | polling, backoff | restart with pending rows | planned |
| storage service | `services/storage.ts`, `storageRecordOps.ts` | storage IDs and marks of the conversations, manifest version, keys to delete | `sync`, `upload` | devices that upload at once, conflicts, lost answers, crashes | `StorageService` |
| groups v2 | `groups.ts`, `groups/joinViaLink.tsx`, the group commands of `models/conversations.ts` | revision, members, invited, asking, banned, `left` | `maybeUpdateGroup`, `modifyGroupV2`, `joinViaLink` | changes that come by four ways, out of order; attributes written back after awaits; conflicts | `GroupUpdates`, with `GroupChanges` |
| web sockets | `textsecure/SocketManager.ts`, `WebsocketResources.ts` | connections | connect, keep-alive | reconnection | seen as `Deliver`, `Reconnect` |
| other modifiers | `messageModifiers/*` | reactions, deletes, syncs that came early | like receipts | like receipts | not modelled |
| other parts of conversations, accounts, expiring messages | `models/conversations.ts`, ... | large records | many | mostly data | not modelled |
| calling, cryptography, updater, user interface, sticker creator | | | | libraries, input and output, rendering | not modelled |

How they interact. `MessageReceiver` decrypts a batch inside one `withZone` call,
whose stores (`LibSignalStores`) call `withZone` again with the same zone; its
other calls of the store, and those of sending, use `GLOBAL_ZONE` and wait. After
the commit it answers the server and dispatches events on `appQueue`; the
handler of a data message puts `handleDataMessage` on the conversation's queue and
does not wait for it, and the event's `confirm` removes the row. The store and the queues reach the tables through the
SQL channel. Sending a message is a job of the conversation job queue, whose row
is inserted in the transaction of the message (`OwnInsert`). Before each attempt
`run` of that queue waits for the captcha and the safety number dialog
(`ConversationJobs`); the attempt itself, what the server answers and the receipts
that come back through `MessageReceiver` change the message (`SendStates`). The
setters of a conversation mark it for the storage service, which tells the other
devices with a sync message that is itself a job of a durable queue. A data message
of a group names its revision: `handleDataMessage` brings the group up to it before
the message is saved, on the same queue of the conversation that runs this device's
own changes of the group (`GroupUpdates`).

### What makes each part correct

* Zone transactions: one zone at a time, no lost wakeup; what is stored in one
  transaction reaches the tables together or not at all; memory follows the tables.
* Message receiver: a message whose key has been consumed, or that the server was
  told to forget, is in a table until it is saved; it is saved once, in the end, and
  in the order of its conversation.
* Job queues: a row is kept until no run is to come; a process queues a job once;
  the jobs of a conversation run one at a time and start in order; a settled
  completion is of a job that is gone; every job added ends.
* Conversation job queue: a job that waits has somebody to let it go; a challenge
  that may be retried is never forgotten and is retried; a cancelled job is not sent.
* Send states: a status in the table claims only what has happened and never goes
  back; every receipt counts, in whatever order it, the send and the saves come; no
  recipient an attempt was made for is left `Pending` when nobody tries; nobody
  reached is sent to again.
* Storage service: the manifest lists one record, which the server has, for each
  conversation; what is not marked for upload is as its record says; each write a
  device derives is valid; devices catch up, and what is marked reaches the server.
* Groups: the lists of people a device has are those of the revision it says it is at,
  by whatever way it got there; a message handled has brought its revision.

The hazards in `PROJECT.json` list, at their lines, the places where one of these
could fail. Those without a property carry the reason.

## The models

A step is what the one thread runs between two awaits. A call to SQL is a step
that sends it and one that handles its answer: `sql/Client.ts` queues what it is
asked, and the worker behind it is serial. `DbMayFail` lets an answer be a
rejection. The timer of `makeChannel` rejects a call that may run all the same, so
a rejected call has or has not been made. Contents, addresses, logs and counters
without an effect on control are left out.

### `ProtocolStoreZones`

One element of `Calls` is one invocation of `withZone`; `ZoneOf`, `Parent`, `Kind`
and `KeyOf` say which zone it names, which body makes it, what that body does and
to which record. `pc[c]` is where it is:

| code | module |
|---|---|
| `withZone`, up to `enterZone` or the wait in `zoneQueue` | `EnterNow`, `Wait` |
| `storeSession`, `saveSenderKey`, `addUnprocessed` | `Write` |
| `removeSession`, `removeAllSessions` | `SendRemove`, `Removed`, `RemoveRejected` |
| the body of a batch, or of a session job | `MayCall`, `EndBody` |
| `createTaskWithTimeout`, the timeout of a `PQueue` | `GiveUp` |
| `isInTopLevelZone`, `commitZoneChanges`, `revertZoneChanges` | `StartCommit`, `NothingToCommit`, `CommitDone`, `CommitRejected`, `Revert`, `ReturnInner`, `ThrowInner` |
| `leaveZone` | `LeaveZone`, used by `Leave` |

A record's value is the call that wrote it. The three pending maps are one, over
keys of three kinds; a zone without pending support (`GLOBAL_ZONE`) commits inside
the body, as `storeSession` does. Reads are left out, as are `clearSessionStore`
and the identity key maps, which do not take part in a transaction.

### `MessageReceiver`

The four queues are sequences of named jobs, the two batchers what they hold, and
the promise each await waits for the state of the batch. `batchPhase` is the zone
of `ProtocolStoreZones`, seen from here. Message `m` is the `m`-th the server
holds; envelope `e` is the `e`-th received, and the same message may come in
several. `Kind` says how a message ends: saved, a receipt, of a blocked sender,
impossible to decrypt, or for an unknown UUID; `ConversationOf` says whose it is.

| code | module |
|---|---|
| `handleRequest` | `Deliver`, `DeliverEmpty` |
| `reset`, the retry timer, `stopProcessing` | `Reconnect`, `RetryTimeout`, `StopProcessing` |
| `queueAllCached` and its SQL query | `QueueAllCached`, `Retried`, `QueueAllCachedRejected` |
| `onEmpty` | `OnEmpty`, `BatcherIdle`, `WaitFor...`, `EmitEmpty` |
| `decryptAndCacheBatch` | `StartBatch`, `EnterZone`, `Decrypt`, `SendCommit`, `CommitDone`, `CommitRejected`, `Acknowledge`, `EndBatch` |
| `queueCachedEnvelope`, `queueDecryptedEnvelope` | `QueueDecrypted`, `Handle`, `DecryptionError` |
| `cacheRemoveBatch` | `CacheRemove`, `CacheRemoveRejected` |
| `onMessageReceived`, `queueJob` of a conversation | `OnMessageReceived`, `jobQueue` |
| `handleDataMessage`, `saveAndNotify` | `HandleDataMessage`, `HandleThrows`, `SaveAndConfirm`, `SaveRejected` |
| a crash, and the start of the next process | `CrashAndRestart` |

Acknowledging is one loop in the code; it is a step per envelope here, so that a
crash may come between two of its answers. `Deliver` stops with
`stoppingProcessing` because `background.ts` (667-674) unregisters the handler
first. A batch may wait for the zone though no batch holds it: sending uses zones
too. Saves are modelled one by one, the batch of `saveNewMessageBatcher` being
their sequence.

The handler of a message on `appQueue` does not wait for `handleDataMessage`
(`background.ts:3005`), which runs on the queue of the conversation: messages of
different conversations are saved in any order, those of one in theirs. Its body is
one step, from the duplicate check to the batched save, since nothing else runs on
that queue meanwhile. It may throw, when the update of the group failed
(`models/messages.ts:2234-2239`) or later (2778-2787), before or after the message is
registered; the envelope is then not confirmed, its row waits for the next read of the
table, and the queue goes on with later messages. `failedHere` and `failedEver` are the
history of these and of rejected saves.

The two-minute timers are left out, both those of single decryptions and those of the
jobs of a conversation (`models/conversations.ts:3453`), after which the next job starts
though the first one may still run.

### `JobQueue`

Job `j` is the `j`-th created: its number stands for its timestamp, and the clock
does not go back (two jobs created in one millisecond may be fetched in either
order, which the model does not have). `KeyOf` gives the queue it runs on; a queue
type that runs everything in parallel has one key per job. `OwnInsert` are the
jobs whose caller inserts the row, in the transaction of its message.

| code | module |
|---|---|
| `JobQueue.add`, `JobQueueDatabaseStore.insert` | `Create`, `SendInsert`, `InsertDone`, `InsertRejected` |
| `AsyncQueue.add` and its iterator | `AddToAsyncQueue`, `EnqueueAdded`, `Exhausted`, `EmptyAsyncQueue` |
| `streamJobs`, the store's `stream` | `StreamJobs`, `FetchDone`, `FetchRejected`, `EnqueueFetched`, `EndOfBacklog` |
| `enqueueStoredJob`, `InMemoryQueues.get` | `Enqueue`, `StartOn`, `RunSucceeds`, `RunFails`, `LastRunFails`, `EndTask`, `ForgetIfIdle` |
| `store.delete`, `job.completion` | `Delete`, `DeleteDone`, `DeleteRejected` |
| a crash | `Crash` |

`Exhausted` and `EmptyAsyncQueue` are two steps because `yield*` in an async
generator awaits the end of the array's iterator, which takes microtasks. An
addition can come between them: until the first `empty`, SQL answers reach the
renderer by microtasks as well (`background.ts` 2390).

### `SendStates` and `DeliveryStatus`

One outgoing message. `model` is its `sendStateByConversationId` in memory: one
model is in `MessageController`, and an attempt may still hold one that was
forgotten there. `row` is the table. Either this device sends the message, or
another one does and its transcripts come.

| code | module |
|---|---|
| `sendStateReducer`, `maxStatus`, `isSent` | operators of the same names |
| `MessageController.register`, `getMessageById`, `cleanup` | `Registered`, `Set`, `Cleanup` |
| `updateMessageBatcher` | `queueUpdateMessage`, `FlushUpdate` |
| `onDeliveryReceipt`, `onReadOrViewReceipt`, `onReceipt` | `ReceiveReceipt`, `QueryAnswered`, `HandleReceipt` |
| `enqueueMessageForSend`, `retrySend` | the same |
| `sendNormalMessage`, `handleMultipleSendErrors`, `markMessageFailed` | `StartRun`, `RunReturns`, `RunThrows`, `RunGivesUp`, `RunEnds`, `RunFails`, `MarkFailed` |
| `message.send`, `sendSyncMessage`, `sendSyncMessageOnly` | `SendEnds`, `ApplyResult`, `SyncSent`, `SyncFails` |
| `createSentMessage`, `handleDataMessage`, `saveAndNotify`, `modifyTargetMessage` | `SentTranscript`, `SaveNew`, `SecondRun`, `UpdateTranscript`, `EarlyReceipts` |

A recipient's device sends a receipt once the server took the message; the server
may deliver receipts in any order, and again if the row that keeps one is read
again. `DeliveryStatus` is what the comment at `MessageSendState.ts:10-24` promises
about a row: `Forward` (never backwards, but for giving up on a recipient that was
`Pending`) and `Claims` (sent means accepted by the server, and so on). The
refinement maps `status` to `row`.

Whom `getMessageRecipients` skips (people who left, are unregistered or have no send
target) is a choice of each attempt among `MayLeave`, a bound, and so is whom `retrySend` still
finds in the conversation. A message that was erased or deleted for everyone ends the job
(`RunReturns`, with `job = "dropped"`); a retry of such a message, and the removal of the
row of a deleted one, are left out.

### `ConversationJobs`

Each job is at one place of the loop in `run`. `waiters` is `verificationWaitMap`:
a waiting job waits for the entry of its conversation. The challenge handler's
methods are cut at each `persist`. `tombstone[c]` is the set of jobs that a
cancellation is not older than, instead of `canceledAt`.

| code | module |
|---|---|
| `add`, the loop of `run`, its `Promise.race` | `Create`, `Check`, `WaitTimesOut` |
| what `run` does with the outcome of a send | `Sent`, `SendFails`, `SendStopped`, `SendChallenged`, `Fail` |
| `register`, `startQueue`, `unregister`, the timer | `Register`, `Registered`, `StartQueues`, `StartQueue`, `TimerFires` |
| `solve`, `sendChallengeResponse` | `solve`, `CaptchaSolved`, `ChallengeAnswered` |
| `onOffline`, `onOnline`, `connect` | `Offline`, `Online`, `onOnline`, `ConnectDone` |
| `verifyConversationsStoppingSend`, `cancelConversationVerification`, the reducer | `Verify`, `VerifyDone`, `Cancel`, `Tombstones` |
| `load` at the next start | `CrashAndRestart`, with `registering` |

Time is left out: whether a `retryAt` has passed is a choice. `onOnline` starts the
matured challenges after a `persist` in the code and at once in the model: what the
code would start in between has a timer or a pending start (`RegisteredIsTended`),
which may start it at any time. A conversation registers again only when the
`persist` of its last `register` is over: a request takes longer than a write. A send
to one of `Groups` that is stopped by an identity error of one recipient and a 428 of
another stops and registers in one step (`SendStopped` with `Challenged`).

### `StorageService`

Several devices and the server; a record is its storage ID, with what it says. Each
action is what a device does between two requests or writes of its storage.

| code | module |
|---|---|
| a setter with `captureChange` | `Change` |
| `sync`, `fetchManifest`, `processManifest` | `StartJob`, `ManifestFails`, `SyncDone` |
| `processRemoteRecords`, `mergeContactRecord` | `FetchRecords`, `Merged`, `MergedConversations`, `MergeDone`, `RecordsFail` |
| `generateManifest` and its validation | `Generate`, `IsValid`, `isNewItem`, `Inserts`, `Deletes`, `Keys` |
| `uploadManifest`, `upload` | `Accept` (the server), `Uploaded`, `Tell`, `Refuse`, `UploadFails` |
| a restart, `onFetchLatestSync` | `CrashAndRestart`, `wanted` |

The value of a conversation stands for the fields in which the remote record wins;
that others differ is a choice of each merge (`differs`).

A setter hands the row to the batcher before `captureChange` sets the mark, and
`captureChange` saves nothing (`conversations.ts:4256-4265`, `5179-5186`). The batch
(`sql/Client.ts:977`, `util/batcher.ts:81`) holds the model's own attributes, so that the
mark gets into the row with it, unless this addition is the one that fills the batch
of 20 and has it copied at once: `Change` may do either where `FillingEdits`, a bound,
lets it. `unmarked` are the conversations with such a row and `forgotten` those that a
crash brought back from one. A batched row counts as saved at the change: the batch is
written within half a second, before what an upload saves when it ends, and a crash in
that half second is as if the change had not been made. At a crash, what memory has
beyond the rows may have been written or not, for each conversation.

`Generate` is one step. `generateManifest` awaits between the records; a change by the
user then is as one before the step or after it, as the record of its conversation has
not been made yet or has. Left out are contacts that fail `validate()`, which lose their
storage ID there (`storage.ts:183-205`), records of other types, unknown and
undecryptable records, the making of a first manifest (all devices are linked), new
storage keys, and the limits of the back-offs.

### `GroupChanges` and `GroupUpdates`

`GroupChanges` has the pure part: a change is one set of people per list of
`GroupChange.Actions`; the `build...Change` functions make one from the lists a device
has, `applyGroupChange` applies one. What the server takes, and makes of it, is
written beside it as the server's own rule (`ServerTakes`, `AfterOnServer`).
`GroupUpdates` has one group: `log` is the server's list of revisions, `group` the
attributes of the conversation, `task` the job that runs on its queue and `mod` the
`modifyGroupV2` under way.

| code | module |
|---|---|
| other people and devices | `OthersChange` |
| `handleDataMessage`, `maybeUpdateGroup` | `StartMessage` |
| `waitThenMaybeUpdateGroup`, `fetchLatestGroupV2Data` | `StartFetch`, `StartRefetch` |
| `getGroupUpdates`: which way to take | `SingleChange`, `FromLog`, `LogDenied`, `StateDenied`, `Left` |
| `updateGroupViaLogs`, `getGroupLog`, `integrateGroupChanges` | `LogAnswered`, `JoinedAt`, `WithState`, `Enough`, `IntegrateNext` |
| `integrateGroupChange` | `integrateGroupChange`, `canApplyChange`, `CannotApply` |
| `updateGroupViaState`, `applyGroupState` | `StateAnswered`, `applyState` |
| `updateGroupViaPreJoinInfo`, `generateLeftGroupChanges` | `PreJoinAnswered`, `preJoinGroup`, `leftGroup` |
| `makeRequestWithTemporalRetry` | `LogDenied`, `RequestFails` |
| `updateGroup` | `UpdateGroup` |
| the commands of a conversation, `joinViaLink`, `joinGroupV2ViaLink` | `UserModifies`, `StillWanted`, `JoinViaLink`, `UploadRefused` |
| `modifyGroupV2`, `uploadGroupChange` | `StartModify`, `UploadAccepted`, `ApplyOwn`, `UploadConflict`, `UploadFails`, `AfterRefetch` |

A job is cut at each request and at the awaits of `updateGroup`, which writes back
attributes that were computed before. Any job may be next: the order in which they
came into the queue is left out, which allows more. A page of the log has its changes,
and the state at its first and last revision and wherever the change is not supported.
`presumed` is history: what the device has then comes from preJoinInfo, from a request
that was refused, or from a change beyond the next one taken while it asks to join.
Titles and the like change as one assignment does; they are the change that leaves the
lists alone. The messages in the timeline, profile keys, access rights (who may do
what is the server's `MayUpload`) and crashes are left out.

`joinViaLink` takes over the revision of the preJoinInfo it read before its dialog,
which may be an old one; a group not known before is made with `left` set. The removal
of that temporary conversation when joining fails is left out, and so is a second
command while one is under way: there is one `mod`. A change in a message is signed by
the server; one whose signature does not verify (`groups.ts:3312-3335`), which the code
drops, is not among the messages, as the members' clients send what the server signed.
Nor is the message that creates the group (`isInitialCreationMessage`).

## The runs

Each run is a question. `CHECK_DEADLOCK FALSE` everywhere: each system comes to
rest, when its calls have settled, its messages are saved or its jobs are over.

| run | states | question and answer |
|---|---|---|
| `zones_safety` | 650 000 | A batch with a session job nested in it, a second batch, a `storeSession` and a `removeSession` in `GLOBAL_ZONE`, bodies that throw, SQL rejections, calls given up on. The lock is a lock, wakeups are kept, a zone's writes are committed or reverted by it alone, and all together. |
| `zones_memory` | 46 000 | One batch and four calls in `GLOBAL_ZONE`, no SQL failure: memory and tables agree but for what `removeAllSessions` takes from one of them, and every waiter is served. |
| `zones_leak` | violated | A rejected commit leaves the zone held. |
| `receiver_crash` | 3 090 000 | A receipt, a message whose handling may throw and one that cannot be decrypted; a crash, a stop, SQL rejections, two rows at most. Nothing consumed or acknowledged is lost, nothing saved twice. |
| `receiver_order` | 741 000 | Three messages, the first and the third of one conversation; the first may throw; a crash. Those of one conversation are saved in order, but for one that failed, and all of them are saved in the end; the table drains. |
| `receiver_replay` | 1 300 000 | Two reconnections or retry timers on one process that still handles the rows, up to the limit of attempts; a message may throw. No message is saved twice. |
| `receiver_lost` | violated | A failed save and a replay lose an acknowledged message. |
| `jobs` | 325 000 | Three jobs of two conversations, one malformed, one with an insert of its own; two attempts, a crash, SQL rejections. One run at a time, queued once, rows kept, completions sound; jobs start in order, over the restart, and each one added ends. |
| `sends` | 577 000 | A message to two recipients, one of whom sends two receipts, and one of whom may leave; two attempts, a manual retry, a crash, a cleanup, or the transcripts of another device. Every receipt counts, statuses are true and settle, nobody is tried again who was reached. |
| `conv` | 954 000 | Three jobs of a direct and a group conversation with one contact; two troubles. No job waits in vain, challenges are tended and started, cancelled jobs stay. |
| `storage` | 409 000 | Two devices, two conversations, three changes, one of which may reach its row before its mark, one trouble. One record each, valid writes, no silent difference, devices and changes get through. |
| `groups` | 1 620 000 | Two people, a group with both, one or neither in it, two changes by anyone, one of them perhaps not supported; messages, pages of two, states, uploads with two attempts, one failed request. The lists are those of the revision; what is handled is included. |

### Why the bounds are enough

Two levels of nesting and two zones with pending support are what the code makes;
three waiting calls, of which two name one zone, are the fewest that tell the head
of `zoneQueue` from those woken with it and from those left. Two messages of one
conversation are the fewest with an order to break, and one of another between them
shows what needs no order; six arrivals deliver each twice. Two rows at most
(`MaxCached` in `receiver_crash`) make the limit of 1500 bite. The limit of attempts
bites in `receiver_replay`; `receiver_order` never reaches it, so that what
`EventuallySaved` exempts there is only what failed.
Three jobs are the fewest with one running, one waiting and one being added. A
crash is at any step; a second one meets states like those the first one met, with
less to do. Two recipients let a send succeed for one and fail for the other, or one be skipped
(`MayLeave`) and the other not; one
with two receipts is enough for an order, and for one that comes too early. Two
attempts are a first and a last one. Two conversations with one contact are the
fewest in which one verification sweeps another's tombstone. Two devices are the
fewest for a conflict; of three changes two may cross and one come during the sync
after. Two troubles in `conv` are a challenge and what disturbs it; one in
`storage` is any single failure in a conflict. Two changes of a group are one that is
missed, or met by an upload, and the next one; two pages are the fewest for a log that
goes on. Two people are us and one who is changed with us. That every passing property can fail at these bounds is what the
mutants show: each is a small error in one mapped definition, and the run must
report it.

### Fairness

* `ProtocolStoreZones`: each call that has entered goes on (`WF` of `Progress` and
  of a body's throw). Each await in a body is of an SQL call, which ends or is
  rejected by its timer, or of a task under a two-minute timer. Nothing is assumed
  of `Wait` or `EnterNow`: a call need not be made.
* `MessageReceiver`: each queue runs its head. A `PQueue` does so when the job
  before has settled, and every job is under `createTaskWithTimeout`. `Deliver` is
  fair: the server sends what it has on each connection. Nothing is assumed of
  reconnections, timers, stops, crashes or rejections.
* `JobQueue`: `streamJobs` is called at every start, each promise settles, and a
  run ends, as `MAX_RETRY_TIME` bounds its waits. Nothing is assumed of `Create`.
* `SendStates`: attempts go on, since their requests are answered or time out; the
  batchers' timers fire; transcripts and receipts that came are handled. Nothing is
  assumed of recipients, the server, the user, cleanups and crashes.
* `ConversationJobs`: writes to storage end, timers fire, and a connection that is
  being made is made. Nothing is assumed of the user, the server's answers, the
  network or the jobs.
* `StorageService`: the queue of each device runs its jobs and the server answers.
  Nothing is assumed of changes, failures and crashes.
* `GroupUpdates` states none: its properties are of safety.

## Findings

| run | what the code does |
|---|---|
| `zones_leak` | `SignalProtocolStore.ts:782`: `commitZoneChanges` is awaited outside the `try` of `withZone`; when it rejects, `leaveZone` is skipped, and every call of another zone waits until the program restarts. |
| `receiver_lost` | `models/messages.ts:2076`: the duplicate check counts a registered message whose save failed, and confirms the row that was its only copy. |

The passing properties take these into account. `AllOrNothing` speaks of runs
without a call given up on; `WaitersAreServed` allows a stuck commit. `receiver_crash`
has no replay in one process and `receiver_replay` no failing database: together
they meet `receiver_lost`. A replay in one process and a crash lose a message in the
same way, and so does a replay after `handleDataMessage` threw of a message it had
registered. `receiver_order` has neither: after a read of the table that was rejected, new
messages are saved before the rows, which wait for the next start.

### Behaviour met while modelling

These contradict no property as it is stated: each property exempts, by a variable
of the history, the case the code has.

* `SignalProtocolStore.ts:781`: only a call that finds the depth at 1 commits. One
  that overlaps another of its zone, whose caller gave up on it, resolves before its
  writes are in the tables.
* `SignalProtocolStore.ts:1227-1237`: `removeAllSessions` deletes in memory before it
  deletes the rows. A store of the same record that is being committed meanwhile puts
  the session back in memory, and its row is removed after it: until the next store
  memory has a session that no table has. `CacheMatchesDb` allows this and no more.
* `AsyncQueue.ts:39`: `yield*` in an async generator awaits the end of the array's
  iterator before the array is replaced; what is added in those microtasks is thrown
  away unread, and its job starts at the next start of the program (`dropped`).
* `MessageReceiver.ts:243`: `processBatch` does not return the promise of the batch,
  so the batcher is idle while the batch waits for its zone, and `empty` may pass it.
* `MessageController.ts:99`, `getMessageById.ts:12`: reading a model does not renew
  its time, so it can be forgotten while an attempt holds it. A receipt then makes a
  second model of the row, and the attempt's next save takes the row back to what
  the first one has. `ForgetHeld = TRUE` allows it; the run and the theorems have
  `FALSE`.
* `models/messages.ts:2873`: an early receipt of a recipient whom the transcript
  does not list yet is dropped (`dropped`).
* `models/messages.ts:1479`: the last attempt marks as failed whom its errors name;
  an error of the whole request names nobody, and the row stays `Pending` with no
  job. So it does for whom `getMessageRecipients` skips: when an attempt finds only
  people who left, are unregistered or have no send target, it returns as if the message
  had been sent to everyone (`sendNormalMessage.ts:133-138`, `374-399`); and for all
  when the message has been erased (72-75). All of these are `passedOver`, until a retry
  or a job that gives up. A receipt that was counted in memory only and lost in a crash
  can leave `Pending` as well (`Lost`).
* `background.ts:1937`: an outage of less than a second ends without `connect`, the
  challenge handler stays offline, and nothing it has to start starts until the next
  connection (`blipped`).
* `state/ducks/conversations.ts:2153`: approving one conversation clears the
  tombstones of all, and a job cancelled there is sent if it has not yet seen its
  tombstone (`overruled`). A restart forgets cancellations altogether.
* A challenge without `retryAt` whose captcha fails waits for the next message of
  its conversation (`challenge.ts:364-369`); `ChallengeIsStarted` is about those with
  a time to retry.
* `storage.ts:281`: the end of an upload clears the mark of a conversation that was
  changed during it, and the change stays on this device (`overtaken`).
* `conversations.ts:4256-4265`, `4272-4276`: the row of a change may reach the table
  without its mark (above). After a crash the conversation is not as its record says and
  nothing uploads it; and the row may have a storage ID that the device itself has
  deleted since, which its next upload lists again (`forgotten`).
* `storage.ts:1446-1449`: after a 409 the sync uploads only if a record it merges
  conflicts; another change waits for the next upload (`refused`).
* `storage.ts:710`: `fetchManifest` returns a promise without awaiting it, so that
  its `catch` does not see a manifest that cannot be decrypted. `storage.ts:1281-1290`:
  a merge that fails counts as one without conflicts, and the version is taken over.
  Neither failure is in the model.
* A failed request is not repeated by the storage service (`hindered`).
* `groups.ts:3477-3488`: `updateGroupViaPreJoinInfo` empties `members`, which is a list of groups of
  version 1, and leaves `membersV2` and `left`: who did not learn of their removal and
  asked to join again elsewhere counts as a member, and when they are let in no state
  is fetched (`presumed`, until the next state). So it is when the request they made
  is refused as one already made (`conversations.ts:2262`). `joinViaLink` takes over the revision
  of preJoinInfo, which may be older than the group's own, outside of the conversation's
  queue (`presumed`): a message handled meanwhile may leave the group behind its revision
  (`JoinWaits`). `HandledIsIncluded` also exempts who is out of the group after it
  (`left`), which those invited or asking to join are: they cannot read the log.
* `groups.ts:3014`: `updateGroup` writes back attributes that were computed before its
  awaits. What was set meanwhile is undone, also the revision `joinViaLink` took over.
* `groups.ts:3888-3899`: who joins by a link or an invitation may send a change with a
  revision beyond that of the change; it is skipped or throws, and the message is
  handled without its revision (the last premise of `HandledIsIncluded`). A first
  fetch that begins beyond the revision of the message leaves the group unknown until
  the next message.
* `groups.ts:1451`: after `MAX_ATTEMPTS` conflicts `modifyGroupV2` resolves without
  the change. A blocked group is not fetched between them.
* `groups.ts:1484-1513`: when an upload was taken and its answer is lost, the command
  fails and the members are not told of the change.
* `groups.ts:4930-4931`: letting somebody in who is also invited deletes them from the wrong list,
  and they stay invited. The server does not let one person be on both lists.

## The proofs

TLAPS proves these for all values of the constants that meet the named assumption
of the module (`CallsAssumption`, `JobQueueAssumption` and so on: types of the
parameters, finitely many calls; no bound on calls, zones, jobs, conversations,
recipients, devices, attempts or crashes).

`ProtocolStoreZonesProofs`: `TypeCorrect`, `MutualExclusion` (`ZoneMutex`) and
`WakeupsAreKept` (`NoLostWakeup`). The two safety properties are inductive only
together. That the depth counts the calls in the zone needs the waiters to be
outside it, so that those `leaveZone` wakes are counted once; that the head of the
queue never waits for the zone held needs the zone to be held by one zone. `Lock`
is their conjunction with the types of its variables, kept by each action; only
`Wait`, `EnterNow` and the actions that leave touch it.

In the same module, `MemoryFollowsTables` (`CacheMatchesDb`) and
`TransactionsAreAtomic` (`AllOrNothing`). The first holds with calls given up on too:
each answer of the database changes a record in memory and in the table alike, or is of
a `removeAllSessions` that has been called, which is what `MInv` says. The second says
at the end of a transaction what happened in its course, and `TInv` says it of each
moment:

* `Nested`: a call is made and settles while the body that makes it runs. A root is then
  the first call of its zone to enter and the last to leave: when the calls it made
  are at rest, those that they made are too (`AllAtRest`), and whoever finds the depth
  at 1 after its body is the root (`OutermostIsRoot`, `RootIsAlone`);
* `PendingFits`: the pending maps hold stores of the zone that is held, and nothing
  once its root commits or reverts, so that one zone never commits or reverts what
  another wrote; a commit under way is of stores of its own zone;
* `Keeps`: while the root's body runs, the records pending are exactly those stored;
  while it commits, those in flight are; then those that reached the tables are all
  of them, or none.

The constants meet `NestingAssumption`, which is what the code does: a body passes its
zone to the calls it makes (`MessageReceiver.ts:869-879`); a call is made by a call made
before it; removals name `GLOBAL_ZONE` (`SignalProtocolStore.ts:1192`, `:1210`); and a
zone with pending maps is made for one `withZone` (`MessageReceiver.ts:830`, `:848`).
Without the first, a body would wait for a call that waits for its zone to be left;
without the last, what one call stored would be committed with what another did.

`JobQueueProofs`: `TypeCorrect`, `NoJobTwice` (`QueuedOnce`),
`OneRunPerConversation` (`OneAtATime`), `NoJobForgotten` (`KeptUntilFinished`) and
`NoSettledJobStays` (`SettledIsGone`). None is inductive. `IInv` adds

* `SqlInv`: what the calls in the SQL queue say of their jobs, and that the fetch
  is at its head until it is answered, which is why the rows it returns were all
  inserted by earlier processes;
* `ReaderInv` and `StreamInv`: where the reader of the `AsyncQueue` is, and that a
  job not yet queued is being added, in the backlog or unread, in one of them only;
* `TaskInv`: the `PQueue` of a key is the one with its tasks, and each queued job
  is at most once in one of them. Two heads of one key are then one head;
* `EndInv`: the two facts about rows and completions. They need a delete to be only
  of a job whose runs are over and whose add has returned.

The lemmas at the top turn sequences into their sets of members, after which each
action is a lemma with one step per part of `IInv`.

In the same module, `JobsStartInOrder` (`StartedInOrder`), over restarts. `OInv` says,
besides `IInv`: what was added before a job was created was inserted (`History`), and so
is fetched unless it is over; once the rows are fetched, each added job is in the
backlog, unread in the `AsyncQueue` or a task, or settled (`Placed`); nothing stands
behind a job in the `AsyncQueue`, or in the `AsyncQueue` while that job is in the
backlog, that was added before it (`ReadOrder`); the same for the tasks of a `PQueue`,
the first of which has run (`TaskOrder`). When the reader passes a job, those added
before it are then settled or in the `PQueue` it goes to.

`MessageReceiverProofs`: `TypeCorrect`, `MessagesSavedOnce` (`SavedOnce`),
`ConsumedKeysAreKept` (`ConsumedIsKept`) and `AcknowledgedAreKept`
(`AcknowledgedIsKept`); and `MessageOrderProofs`: `MessagesSavedInOrder`
(`SavedInOrder`). The first two hold of every behaviour. `SavedOnce` needs only
that what is being saved is registered, once, and not in the table. The other three have
`MaxReplays = 0`: the table is read once in each process, by any number of processes.
Read a second time while its rows are handled, they are false (`receiver_lost`).

`ConsumedKeysAreKept` and `AcknowledgedAreKept` say that nothing is removed from the `unprocessed` table too early, and
`cacheRemove` removes by envelope what may have arrived several times. `IInv` therefore
says where an envelope can be:

* `ItemsOnce`, `ItemsApart`: an envelope still to be decrypted is once in one of
  `incomingQueue`, `decryptAndCacheBatcher`, the batches that wait for the zone and
  `encryptedQueue`; `PendingNotDone`: it then has no plaintext in the table;
* `PlaintextsOnce`, `PlaintextsApart`: a message with a plaintext is once in the batch,
  `encryptedQueue`, `decryptedQueue` or `appQueue`, or registered. So a message that
  the duplicate check finds registered has been handed on by its own row;
* `KeysInv`, `RowsInv`: a key is consumed by one envelope; the row of its plaintext is
  the only one of its message;
* `RemovedIsDone`: what waits to be removed has nothing to save, is a failure to
  decrypt of a key already consumed, or is of a message that is saved;
* `ConsumedIsDurable`, `AnsweredIsKept`: the two properties, for each phase of a batch.

Each action moves an envelope or a plaintext from one place to the next; the lemmas
`Pop...` and `Push...` say once for each queue what that does to the invariant.

`MessagesSavedInOrder`, for each conversation, has `DbMayFail = FALSE` besides: after a
read of the table that was rejected, new messages are saved before the rows. And read
again after `stopProcessing`, the table gives back a row that stopping left behind, after
later messages were queued; so `MaxReplays = 0` is needed here too. Both are
counterexamples TLC gives with two messages. A message whose handling threw
(`failedEver`) is saved from its row at the next start, after later ones, and is the only
one that may be. A message comes several times, from the server and from
the table, and the limits of `queueAllCached` delete rows between; so the order of the
messages is the order of the envelopes only of those that can still be decrypted.
`OrderInv` says of these `Candidates`:

* `EarliestFirst`: if a message earlier than a candidate's can come again, it has a
  candidate before that one, tried no more often, or a limit could delete it and leave
  the other. A commit takes the candidates of every message it consumed, which is where
  this has to be shown;
* `FreshAreLater`: what can still come is later than all that was consumed;
  `RowsInOrder`, `LiveAreCandidates`, `AllRequeued`, `AttemptsCounted`: where
  candidates are, and how often they were tried;
* `PendingInOrder`, `BatchInOrder`: the queues before the decryption are in the order
  of the envelopes; before a plaintext of the open batch every key is consumed.

`WayInv` is of the messages with a row that are not yet saved (`Unsaved`): those being
saved, on the queues of their conversations, in `appQueue`, in `decryptedQueue`, in
`encryptedQueue` and in the batch are in order, each place before the next (`SavingNext`,
`JobsNext`, `DispatchedNext`, `HandlingNext`, `QueuedNext`); once on the conversations'
queues, those of one conversation only. None is left behind until the process stops
(`NoneLeft`), but for those whose handling threw.

`SendStatesProofs`: `TypeCorrect`, and `StatusesAreTrue`, the refinement: if
`ForgetHeld = FALSE`, then `Spec => ImplementsDelivery`. Each step leaves the row,
or replaces it by one that `MayFollow` it and makes true `Claims`. `RefInv` is why:

* `OneModel`: an attempt's model is the one in `MessageController`. This is what the
  assumption buys; with two models the row can go back;
* `ModelAhead`: the registered model is at least as far as the row, so that saving
  it never takes the row back;
* `TableTrue`, `ModelsTrue`: what row and models claim has happened, for which
  `ResultsHold` and `QueriesKnown` say it of results and receipts on their way;
* `Elsewhere`: when another device sends, there is no job, and no attempt.

`NobodyReachedIsSentTo` (`NotSentTwice`) follows under the same assumption: the
targets of an attempt are read from the model it holds, and only its own results and
receipts, which follow the request, can put one of them in the table as reached.

`ReceiptsCount` (`EveryReceiptCounts`), under the same assumption. `CountInv` says more
of a receipt than the property, that it is in the collection (`Counted`) until the
model shows it, and needs to know what the model and the row are worth when one gives
way to the other:

* `InTable`: but for an update in the batcher or a transcript being saved, the row is
  what the model is, so that `cleanup` loses no receipt;
* `Begun`, `OursThere`: where the code takes a row for granted there is one, and a
  model always has our entry, so that no write of a batcher is skipped;
* `Awaited`, `Unsent`: no model, hence no receipt shown in it, is there for a first
  transcript or a send to overwrite.

`ConversationJobsProofs`: `TypeCorrect`, `WaitersAreServed` (`NoOneWaitsInVain`),
`ChallengesAreTended` (`RegisteredIsTended`) and `CancelledStays`
(`CancelledIsNotSent`). The second and third are inductive with the types. The last
needs `CancelInv`: jobs are created in order, only the head of a conversation runs,
a tombstone names all jobs before the newest it names, nothing stops a conversation
with a job that sends and it has no tombstone, and a cancelled job that was not overruled is
named by the tombstone of its conversation.

`StorageServiceProofs`: `TypeCorrect` and `NoSilentDifference` (`SyncedMeansSame`).
`IInv` adds that the rows say the same (a crash brings them back) unless they were
saved without their mark (`unmarked`), that what is being uploaded is as the upload
says unless it was changed meanwhile, and what the job of a device knows at each of its
places.

In the same module, `ManifestStaysOne` (`OneRecordEach`) and `WritesStayValid`
(`WritesAreValid`), both as long as no crash has brought back a row without its mark
(`forgotten = {}`): the property says so for the manifest, the theorem for the writes,
which the run has without this condition. The server looks only at the version of a
write, so `MInv` says of each device what its version tells of it:

* `LocalsFit`: if it is at the version of the server, the storage ID of each of its
  conversations, and of each of its rows with its mark, is in the manifest, or the
  conversation is new to its next write. Behind that version nothing is said, and a write is refused;
* `FetchedIsNewer`: a sync has a newer manifest than the device had, that of the server
  unless somebody wrote since, and lacks exactly the records it asks for;
* `NoneIsBehind`: only a device that is behind has a conversation without a storage ID,
  since a record is missing only when somebody wrote during the sync;
* `RowsFollow`: what a crash brings back has the mark for upload or the storage ID that
  memory had;
* `UploadFits`: what is uploaded at the version of the server lists one record for each
  conversation. `IDsAreKnown`: each storage ID in use is of a version the server has
  had, so that an insert is none of them, and what was deleted does not come back;
* `DeletesAreMissing`, for devices nothing went wrong on: what is still to be deleted
  are the records the last sync missed. With `FetchedIsNewer`, the write is valid.

These rest on `NoneAssumption`: `None` is no storage ID.

`GroupUpdatesProofs`: `ChangeIsExact`, `TypeCorrect` and `ListsAreOfTheRevision`
(`UpToDate`). `ChangeIsExact` says of any change the server takes that
`applyGroupChange`, with its order and its repairs of lists that disagree, makes of the
server's lists before it the server's lists after it, if it does not throw. `IInv` has
four parts besides the types:

* `LogSound`: nobody is on two lists in any revision, and each is what the server made
  of the one before, by a change it took;
* `Sound(group)`, which is `UpToDate` of a set of attributes, and `TaskSound`, which
  says it of the attributes a job carries, since `UpdateGroup` writes them later. A
  change is applied only to the revision before it, or what comes out is `presumed`;
* `Attempts`: an attempt that is queued is not one too many.

In the same module, `BuiltChangesApply` and `MessagesAreIncluded`
(`HandledIsIncluded`). `integrateGroupChanges` logs what throws and goes on, so one
change that throws would leave everything after it unapplied.
`BuiltChangesApply` says that none does: what a command builds, even from stale lists,
and the server takes, applies to the lists of the revision before it. `HInv` has two
parts besides `IInv`:

* `Chained`, the same of every revision in the log, which only such changes enter;
* `Handling`, for each place of the job of a message: its pages follow one another
  without a gap and the first has a state (`InLog`); before each turn of
  `integrateGroupChanges` the attributes have what the message is about, or a state
  comes, or the change is the next (`Stands` in `InIntegrate`); at the end the
  message's revision is there (`InUpdate`). The log may grow at any of them. When
  `joinViaLink` sets the revision while a message is handled, `Handling` gives way to
  `Linked`: the join waits for the job to end (`LinkedStays`).

These rest on `NoneAssumption`: `None`, for what threw, is no set of attributes.

Only model-checked: every liveness property.
Liveness under fairness and induction over data are beyond the provers installed.

## The plan

Done, in this order: `ProtocolStoreZones`, `MessageReceiver` and `JobQueue`, since a
lost message or session is the worst the program can do and the job queue is what
every message sent relies on; then what decides whether a job may send
(`ConversationJobs`), what a send and its receipts do to the message (`SendStates`,
with the abstract `DeliveryStatus`), and `StorageService` and `GroupUpdates`, the two
parts in which several devices write the same data.

Nothing is left to prove of what the passing runs check but liveness.

Next, to model:

1. `RetryPlaceholders` with `handleRetry`: expiry against a resent message.
2. `OutgoingMessage` and `sendToGroup`: 409 and 410 against stale device lists; as
   the send of `SendStates`, which has their outcomes.
3. The other modifiers' collections, and `AttachmentDownloads`.
4. An abstract inbox (a message is on the server, kept here or saved), which
   `MessageReceiver` refines.

## What is not modelled

Cryptography and libsignal's own state machine (one decryption either consumes its
key or fails), calling, the updater, rendering, and what conversations and groups have
besides who is in them: large data and little interleaving, or code outside this
repository.
Most of the repository's lines are of these kinds: React components, styles of
data and their migrations, SQL queries, wire formats. The web sockets are seen as what they deliver. The main
process, where the SQL worker lives, crashes together with the renderer.
