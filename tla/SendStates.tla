----------------------------- MODULE SendStates -----------------------------
(***************************************************************************)
(* The delivery of one outgoing message: its sendStateByConversationId in  *)
(* MessageController's models and in the messages table, as the send job   *)
(* (sendNormalMessage, message.send), manual retries, the transcripts of   *)
(* another device and the receipts of the recipients change it.            *)
(*                                                                         *)
(* A step runs between two awaits.  A save of a row is made when it is     *)
(* called: calls reach the SQL worker in order, and a crash in between is  *)
(* one before the call.  The jobs table is JobQueue's matter: here a job   *)
(* is started again after a crash, from its first attempt.                 *)
(***************************************************************************)
EXTENDS Integers

CONSTANTS
    Recipients,   \* the other members of the conversation
    Me,           \* our own conversation: stands for our other devices
    Receipts,     \* receipts recipients may send: [from |-> , type |-> ]
    MaxAttempts,  \* attempts of the conversation job queue
    MaxRetries,   \* bound: "Retry send" by the user
    MaxCrashes,   \* bound: crashes, each followed by a restart
    MayLeave,     \* bound: recipients who may leave, unregister or lose their target
    MaxCleanups,  \* bound: times MessageController forgets the message
    ForgetHeld    \* it may do so while an attempt holds the model

ASSUME SendStatesAssumption ==
    /\ Me \notin Recipients
    /\ Receipts \subseteq [from: Recipients, type: {"Delivered", "Read", "Viewed"}]
    /\ MaxAttempts \in Nat \ {0}
    /\ MaxRetries \in Nat /\ MaxCrashes \in Nat /\ MaxCleanups \in Nat
    /\ MayLeave \subseteq Recipients
    /\ ForgetHeld \in BOOLEAN

VARIABLES
    (* recipients and server *)
    accepted,     \* recipients whose message the server has taken
    transmitting, \* recipients some attempt has a request out for
    issued,       \* receipts that recipients have sent
    mail,         \* receipts on the server, or in a row that is read again
    (* memory *)
    registered,   \* the model in MessageController
    model,        \* sendStateByConversationId of each model
    updating,     \* the model updateMessageBatcher has the attributes of
    collection,   \* MessageReceipts
    query,        \* onReceipt: where the lookup of the message is
    (* the table *)
    row,
    (* the send job *)
    job, attempt,
    held,         \* the model the attempt works on
    targets,      \* whom it sends to
    successful,   \* successfulIdentifiers
    failed,       \* recipients named by the errors
    (* transcripts of another device *)
    transcript, update,
    listed,       \* recipients of the first transcript
    (* history *)
    known,        \* receipts this process got, or the row shows
    dropped,      \* receipts taken for a recipient without an entry
    passedOver,   \* whom the latest attempt did not try, or failed for without naming them
    retries, crashes, cleanups

envVars == <<accepted, transmitting, issued, mail>>
receiptVars == <<collection, query, known, dropped>>
jobVars == <<job, attempt, held, targets, successful, failed, passedOver, retries>>
transcriptVars == <<transcript, update, listed>>
vars == <<envVars, registered, model, updating, row, receiptVars, jobVars,
          transcriptVars, crashes, cleanups>>

All == Recipients \cup {Me}
SendStatus == {"Failed", "Pending", "Sent", "Delivered", "Read", "Viewed"}
Models == {1, 2}   \* one in MessageController, one that an attempt still holds
NoModel == 0

-----------------------------------------------------------------------------
(* MessageSendState *)

\* "none": there is no entry for the recipient, or no row.
STATUS_NUMBERS == [none |-> -1, Failed |-> 0, Pending |-> 1, Sent |-> 2,
                   Delivered |-> 3, Read |-> 4, Viewed |-> 5]
AtLeast(a, b) == STATUS_NUMBERS[a] >= STATUS_NUMBERS[b]
isExactlySent(a) == a = "Sent"   \* mutant: not what follows Sent
isSent(a) == AtLeast(a, "Sent")
maxStatus(a, b) == IF AtLeast(b, a) THEN b ELSE a

reducerLatest(old, new) == new   \* mutant: the last event decides

\* An action is named by its entry in STATE_TRANSITIONS: ManuallyRetried is
\* "Pending", a receipt its own type.
sendStateReducer(old, new) ==
    IF old = "Pending" /\ new = "Failed" THEN "Failed" ELSE maxStatus(old, new)

Reduced(states, who, new) ==
    [p \in All |-> IF p \in who THEN sendStateReducer(states[p], new) ELSE states[p]]

NoEntries == [p \in All |-> "none"]
saved == row[Me] # "none"   \* there is a row: it always has an entry for us

Init ==
    \* "here": this device sends it; otherwise another one has
    /\ \/ /\ accepted = {} /\ transcript = "none" /\ listed = {}
          /\ update = "none"
       \/ /\ accepted = Recipients /\ transcript = "awaited"
          /\ listed \in (SUBSET Recipients) \ {{}}
          /\ update = IF listed = Recipients THEN "none" ELSE "awaited"
    /\ transmitting = {} /\ issued = {} /\ mail = {}
    /\ registered = NoModel /\ model = [m \in Models |-> NoEntries]
    /\ updating = NoModel
    /\ collection = {} /\ query = [k \in Receipts |-> "no"]
    /\ row = NoEntries
    /\ job = "none" /\ attempt = 0 /\ held = NoModel
    /\ targets = {} /\ successful = {} /\ failed = {}
    /\ known = {} /\ dropped = {} /\ passedOver = {}
    /\ retries = 0 /\ crashes = 0 /\ cleanups = 0

-----------------------------------------------------------------------------
(* Models: MessageController *)

Unused == CHOOSE m \in Models : m # held
\* register, getMessageById: the model that is there, or one made of the row
Registered == IF registered = NoModel THEN Unused ELSE registered
States(m) == IF m = registered \/ m = held THEN model[m] ELSE row

\* Model m is registered and has these send states.
Set(m, states) ==
    /\ registered' = m
    /\ model' = [model EXCEPT ![m] = states]

SetHeld(states) ==
    /\ model' = [model EXCEPT ![held] = states]
    /\ UNCHANGED registered

\* Once nothing refers to it a model is gone.
Forget(m) == model' = [model EXCEPT ![m] = NoEntries]

\* cleanup forgets a model that was registered more than five minutes ago, long
\* after what the receipts, the transcripts and the batchers do to it.
Cleanup ==
    /\ cleanups < MaxCleanups
    /\ registered # NoModel
    /\ registered = held => ForgetHeld
    /\ updating = NoModel
    /\ transcript \in {"none", "done"}
    /\ cleanups' = cleanups + 1
    /\ registered' = NoModel
    /\ IF registered = held THEN UNCHANGED model ELSE Forget(registered)
    /\ UNCHANGED <<envVars, updating, row, receiptVars, jobVars, transcriptVars,
                   crashes>>

notQueued(m) == UNCHANGED updating   \* mutant: the update is not written
queueUpdateMessage(m) == updating' = m

\* updateMessageBatcher holds the attributes, not a copy of them.
FlushUpdate ==
    /\ updating # NoModel
    /\ row' = IF saved THEN model[updating] ELSE row
    /\ updating' = NoModel
    /\ UNCHANGED <<envVars, registered, model, receiptVars, jobVars,
                   transcriptVars, crashes, cleanups>>

-----------------------------------------------------------------------------
(* Recipients and server *)

ServerAccepts(p) ==
    /\ p \in transmitting
    /\ transmitting' = transmitting \ {p}
    /\ accepted' = accepted \cup {p}
    /\ UNCHANGED <<issued, mail, registered, model, updating, row, receiptVars,
                   jobVars, transcriptVars, crashes, cleanups>>

IssueReceipt(k) ==
    /\ k \notin issued
    /\ k.from \in accepted
    /\ issued' = issued \cup {k}
    /\ mail' = mail \cup {k}
    /\ UNCHANGED <<accepted, transmitting, registered, model, updating, row,
                   receiptVars, jobVars, transcriptVars, crashes, cleanups>>

-----------------------------------------------------------------------------
(* Receipts *)

\* onDeliveryReceipt, onReadOrViewReceipt: the event is confirmed at once.
ReceiveReceipt(k) ==
    /\ k \in mail
    /\ mail' = mail \ {k}
    /\ collection' = collection \cup {k}
    /\ query' = [query EXCEPT ![k] = "asked"]
    /\ known' = known \cup {k}
    /\ dropped' = dropped \ {k}
    /\ UNCHANGED <<accepted, transmitting, issued, registered, model, updating, row,
                   jobVars, transcriptVars, crashes, cleanups>>

\* getMessagesBySentAt: without a row the receipt stays in the collection.
QueryAnswered(k) ==
    /\ query[k] = "asked"
    /\ query' = [query EXCEPT ![k] = IF saved THEN "found" ELSE "no"]
    /\ UNCHANGED <<envVars, registered, model, updating, row, collection, known,
                   dropped, jobVars, transcriptVars, crashes, cleanups>>

\* The rest of onReceipt
HandleReceipt(k) ==
    /\ query[k] = "found"
    /\ query' = [query EXCEPT ![k] = "no"]
    /\ collection' = collection \ {k}
    /\ LET m == Registered
           old == States(m)
           entry == IF old[k.from] = "none" THEN "Sent" ELSE old[k.from]
           new == sendStateReducer(entry, k.type)
       IN  IF new = entry
           THEN Set(m, old) /\ UNCHANGED updating
           ELSE Set(m, [old EXCEPT ![k.from] = new]) /\ queueUpdateMessage(m)
    /\ UNCHANGED <<envVars, row, known, dropped, jobVars, transcriptVars, crashes,
                   cleanups>>

-----------------------------------------------------------------------------
(* Sending: enqueueMessageForSend, retrySend, sendNormalMessage *)

enqueueMessageForSend ==
    /\ transcript = "none" /\ job = "none"
    /\ Set(Registered, [p \in All |-> "Pending"])
    /\ row' = [p \in All |-> "Pending"]
    /\ job' = "queued" /\ attempt' = 1
    /\ UNCHANGED <<envVars, updating, receiptVars, held, targets, successful, failed,
                   passedOver, retries, transcriptVars, crashes, cleanups>>

\* The user is offered a retry when the job is over and has left errors.
retrySend ==
    /\ retries < MaxRetries
    /\ job = "done"
    /\ \E p \in All : ~isSent(row[p])
    /\ retries' = retries + 1
    /\ \E gone \in SUBSET MayLeave :   \* no members any more
           LET m == Registered
               new == [p \in All |-> IF isSent(States(m)[p]) \/ p \in gone THEN States(m)[p]
                                     ELSE sendStateReducer(States(m)[p], "Pending")]
           IN  Set(m, new) /\ row' = new
    /\ job' = "queued" /\ attempt' = 1 /\ passedOver' = {}
    /\ UNCHANGED <<envVars, updating, receiptVars, held, targets, successful, failed,
                   transcriptVars, crashes, cleanups>>

PastLastAttempt == attempt > MaxAttempts   \* mutant: off by one
LastAttempt == attempt = MaxAttempts

\* The attempt is over and lets go of the model.
Release == held' = NoModel /\ targets' = {} /\ successful' = {} /\ failed' = {}
Kept(m) == m = registered   \* MessageController still has it

\* markMessageFailed: what is Pending fails, and the row is saved.
MarkFailed(m) ==
    LET new == Reduced(States(m), All, "Failed")
    IN  /\ row' = new
        /\ registered' = IF registered = NoModel /\ m # held THEN m ELSE registered
        /\ model' = [model EXCEPT ![m] = IF m = registered' THEN new ELSE NoEntries]

Unreached(m) == {p \in All : ~isSent(States(m)[p])}

\* sendNormalMessage up to its requests: whom is the message still to be sent to?
\* getMessageRecipients skips who has left, is unregistered or has no send target.
StartRun ==
    /\ job = "queued"
    /\ \E skipped \in SUBSET MayLeave :
           LET m == Registered
               missing == Unreached(m) \ skipped
           IN  /\ Set(m, States(m))
               /\ targets' = missing
               /\ passedOver' = Unreached(m) \cap skipped
               /\ transmitting' = transmitting \cup (missing \ {Me})
               /\ IF missing = {}
                  THEN job' = "done" /\ UNCHANGED held
                  ELSE /\ job' = IF missing = {Me} THEN "syncing" ELSE "sending"
                       /\ held' = m
    /\ UNCHANGED <<accepted, issued, mail, updating, row, receiptVars, attempt,
                   successful, failed, retries, transcriptVars, crashes, cleanups>>

\* The message was erased or deleted for everyone: the job ends, and the send states
\* are left as they are.
RunReturns ==
    /\ job = "queued"
    /\ Set(Registered, States(Registered))
    /\ passedOver' = Unreached(Registered)
    /\ job' = "dropped"
    /\ UNCHANGED <<envVars, updating, row, receiptVars, attempt, held, targets,
                   successful, failed, retries, transcriptVars, crashes, cleanups>>

\* An attempt that throws before its requests: a recipient is not verified.
RunThrows ==
    /\ job = "queued"
    /\ Set(Registered, States(Registered))
    /\ held' = Registered
    /\ job' = "thrown"
    /\ UNCHANGED <<envVars, updating, row, receiptVars, attempt, targets, successful,
                   failed, passedOver, retries, transcriptVars, crashes, cleanups>>

\* Out of time; or one recipient, who is blocked, unregistered, not accepted or skipped
RunGivesUp ==
    /\ job = "queued"
    /\ MarkFailed(Registered)
    /\ job' = "done" /\ passedOver' = {}
    /\ UNCHANGED <<envVars, updating, receiptVars, attempt, held, targets, successful,
                   failed, retries, transcriptVars, crashes, cleanups>>

\* The promise of the send settles, and message.send saves the row once before it
\* looks at the result.  A rejection either names the recipients it is about, or
\* it is about the request as a whole (an HTTPError of sendToGroup, a timeout).
SendEnds ==
    /\ job = "sending"
    /\ successful' \in SUBSET (targets \cap accepted)
    /\ LET rest == targets \ (successful' \cup {Me})
       IN  \/ failed' = rest
           \/ failed' = {} /\ rest # {} /\ successful' = {}
    /\ job' = "saving"
    /\ row' = model[held]
    /\ UNCHANGED <<envVars, registered, model, updating, receiptVars, attempt, held,
                   targets, passedOver, retries, transcriptVars, crashes, cleanups>>

Errors == targets \ (successful \cup {Me}) # {}

AsBeforeTheSave == row   \* mutant: the states are read before the first save
StatesNow == model[held]

\* The rest of message.send up to its second save
ApplyResult ==
    /\ job = "saving"
    /\ LET sent == Reduced(StatesNow, successful, "Sent")
           new == IF LastAttempt THEN Reduced(sent, failed, "Failed") ELSE sent
       IN  SetHeld(new) /\ row' = new
    /\ job' = IF successful # {} THEN "syncing" ELSE "sent"
    /\ passedOver' = IF LastAttempt /\ Errors /\ successful = {} /\ failed = {}
                     THEN passedOver \cup (targets \ {Me}) ELSE passedOver
    /\ UNCHANGED <<envVars, updating, receiptVars, attempt, held, targets, successful,
                   failed, retries, transcriptVars, crashes, cleanups>>

\* sendSyncMessage, with the save of sendSyncMessageOnly when it fails there
SyncSent ==
    /\ job = "syncing"
    /\ LET new == Reduced(model[held], {Me}, "Sent")
       IN  SetHeld(new) /\ row' = new
    /\ job' = "sent"
    /\ UNCHANGED <<envVars, updating, receiptVars, attempt, held, targets, successful,
                   failed, passedOver, retries, transcriptVars, crashes, cleanups>>

SyncFails ==
    /\ job = "syncing"
    /\ row' = IF targets = {Me} THEN model[held] ELSE row
    /\ job' = "thrown"
    /\ UNCHANGED <<envVars, registered, model, updating, receiptVars, attempt, held,
                   targets, successful, failed, passedOver, retries, transcriptVars,
                   crashes, cleanups>>

\* The errors are kept for the job only if it is not the last attempt.
DidFullySend ==
    \/ LastAttempt \/ ~Errors
    \/ \A p \in All : model[held][p] \in {"none"} \cup {s \in SendStatus : isSent(s)}

RunEnds ==
    /\ job = "sent"
    /\ DidFullySend
    /\ job' = "done"
    /\ Release
    /\ IF Kept(held) THEN UNCHANGED model ELSE Forget(held)
    /\ UNCHANGED <<envVars, registered, updating, row, receiptVars, attempt, passedOver,
                   retries, transcriptVars, crashes, cleanups>>

\* handleMultipleSendErrors; `stop`: the server has answered 508 or 400.
RunFails(stop) ==
    /\ job = "thrown" \/ (job = "sent" /\ ~DidFullySend)
    /\ Release /\ passedOver' = {}
    /\ IF LastAttempt \/ stop
       THEN MarkFailed(held) /\ job' = "done" /\ UNCHANGED attempt
       ELSE /\ IF Kept(held) THEN UNCHANGED model ELSE Forget(held)
            /\ job' = "queued" /\ attempt' = attempt + 1
            /\ UNCHANGED <<registered, row>>
    /\ UNCHANGED <<envVars, updating, receiptVars, retries, transcriptVars,
                   crashes, cleanups>>

-----------------------------------------------------------------------------
(* Transcripts: createSentMessage, handleDataMessage, modifyTargetMessage *)

\* forMessage takes the receipts out of the collection; the ones of a recipient
\* without an entry come to nothing.
EarlyReceipts(states) ==
    [p \in All |->
        LET types == {k.type : k \in {r \in collection : r.from = p}}
        IN  IF types = {} \/ states[p] = "none" THEN states[p]
            ELSE CHOOSE s \in types \cup {states[p]} :
                     \A t \in types \cup {states[p]} : AtLeast(s, t)]
TakeEarly(states) ==
    /\ collection' = {}
    /\ dropped' = dropped \cup {k \in collection : states[k.from] = "none"}
    /\ UNCHANGED <<query, known>>

SentTranscript ==
    /\ transcript = "awaited"
    /\ LET states == [p \in All |-> IF p \in listed \cup {Me} THEN "Sent" ELSE "none"]
       IN  Set(Registered, EarlyReceipts(states)) /\ TakeEarly(states)
    /\ transcript' = "saving"
    /\ UNCHANGED <<envVars, updating, row, jobVars, update, listed, crashes, cleanups>>

\* saveNewMessageBatcher
SaveNew ==
    /\ transcript = "saving"
    /\ row' = model[registered]
    /\ transcript' = "saved"
    /\ UNCHANGED <<envVars, registered, model, updating, receiptVars, jobVars, update,
                   listed, crashes, cleanups>>

\* saveAndNotify: modifyTargetMessage again, for what came during the save
SecondRun ==
    /\ transcript = "saved"
    /\ LET new == EarlyReceipts(model[registered])
       IN  /\ Set(registered, new)
           /\ row' = IF new = model[registered] THEN row ELSE new
    /\ TakeEarly(model[registered])
    /\ transcript' = "done"
    /\ UNCHANGED <<envVars, updating, jobVars, update, listed, crashes, cleanups>>

\* The other device has sent it to the rest: isRecipientUpdate.
UpdateTranscript ==
    /\ update = "awaited"
    /\ transcript # "awaited"
    /\ LET m == Registered
           new == [p \in All |-> IF p \in listed \cup {Me} THEN States(m)[p]
                                 ELSE sendStateReducer(States(m)[p], "Sent")]
       IN  Set(m, new) /\ row' = IF saved THEN new ELSE row
    /\ update' = "done"
    /\ UNCHANGED <<envVars, updating, receiptVars, jobVars, transcript, listed, crashes,
                   cleanups>>

-----------------------------------------------------------------------------

Shown(states, k) == AtLeast(states[k.from], k.type)

\* The process ends.  A receipt in memory may be lost, or read again if the batch
\* that removes its row from `unprocessed` was not written.  A transcript that is
\* not saved is read again, with its update.
CrashAndRestart ==
    /\ crashes < MaxCrashes
    /\ crashes' = crashes + 1
    /\ registered' = NoModel /\ model' = [m \in Models |-> NoEntries]
    /\ updating' = NoModel
    /\ \E again \in SUBSET known : mail' = mail \cup again
    /\ collection' = {} /\ query' = [k \in Receipts |-> "no"]
    /\ known' = {k \in known : Shown(row, k)}
    /\ dropped' = {}
    /\ transmitting' = {}
    /\ IF job \in {"none", "done", "dropped"} THEN UNCHANGED <<job, attempt, passedOver>>
       ELSE job' = "queued" /\ attempt' = 1 /\ passedOver' = {}
    /\ Release
    /\ transcript' = CASE transcript \in {"awaited", "saving"} -> "awaited"
                       [] transcript \in {"saved", "done"} -> "done"
                       [] OTHER -> "none"
    /\ update' = IF transcript = "saving" /\ update = "done" THEN "awaited" ELSE update
    /\ UNCHANGED <<accepted, issued, row, retries, listed, cleanups>>

Recipient ==
    \/ \E p \in Recipients : ServerAccepts(p)
    \/ \E k \in Receipts : IssueReceipt(k)
Receipt(k) == ReceiveReceipt(k) \/ QueryAnswered(k) \/ HandleReceipt(k)
Run ==
    \/ StartRun \/ RunReturns \/ RunThrows \/ RunGivesUp
    \/ SendEnds \/ ApplyResult \/ SyncSent \/ SyncFails
    \/ RunEnds \/ \E stop \in BOOLEAN : RunFails(stop)
Transcript == SentTranscript \/ SaveNew \/ SecondRun \/ UpdateTranscript

Next ==
    \/ Recipient
    \/ \E k \in Receipts : Receipt(k)
    \/ enqueueMessageForSend \/ retrySend \/ Run
    \/ Transcript
    \/ FlushUpdate \/ Cleanup \/ CrashAndRestart

Spec == Init /\ [][Next]_vars

\* Promises and timers are served; every request is answered or times out.  Nothing
\* obliges the server to take a message, or a recipient to send a receipt.
FairSpec ==
    /\ Spec
    /\ WF_vars(Run) /\ WF_vars(FlushUpdate)
    /\ WF_vars(SentTranscript) /\ WF_vars(SaveNew) /\ WF_vars(SecondRun)
    /\ \A k \in Receipts : WF_vars(Receipt(k))

-----------------------------------------------------------------------------
(* Properties *)

\* The types of the variables; what is in memory of receipts was issued.
TypeOK ==
    /\ accepted \subseteq Recipients /\ transmitting \subseteq Recipients
    /\ issued \subseteq Receipts /\ mail \subseteq issued
    /\ registered \in Models \cup {NoModel} /\ updating \in Models \cup {NoModel}
    /\ model \in [Models -> [All -> SendStatus \cup {"none"}]]
    /\ row \in [All -> SendStatus \cup {"none"}]
    /\ collection \subseteq known /\ known \subseteq issued /\ dropped \subseteq known
    /\ query \in [Receipts -> {"no", "asked", "found"}]
    /\ job \in {"none", "queued", "sending", "saving", "syncing", "sent", "thrown",
                "done", "dropped"}
    /\ attempt \in 0..MaxAttempts
    /\ held \in Models \cup {NoModel}
    /\ targets \subseteq All /\ successful \subseteq targets /\ failed \subseteq targets
    /\ transcript \in {"none", "awaited", "saving", "saved", "done"}
    /\ update \in {"none", "awaited", "done"}
    /\ listed \subseteq Recipients
    /\ passedOver \subseteq All
    /\ retries \in 0..MaxRetries /\ crashes \in 0..MaxCrashes
    /\ cleanups \in 0..MaxCleanups

\* A receipt this process got, and that is not taken for one of a stranger, is on
\* its way or shows in the model: however it races the transcript, its save, the
\* send job's results and other receipts.
EveryReceiptCounts ==
    \A k \in known \ dropped :
        \/ k \in collection
        \/ query[k] # "no"
        \/ Shown(IF registered = NoModel THEN row ELSE model[registered], k)

\* A recipient the table shows as reached is in no later attempt.
NotSentTwice ==
    [][\A p \in Recipients : p \in targets' \ targets => ~AtLeast(row[p], "Sent")]_targets

\* The rows are what DeliveryStatus promises.
Delivery == INSTANCE DeliveryStatus WITH status <- row
ImplementsDelivery == Delivery!Spec

\* In the end the table shows every receipt that came, but for those of strangers.
\* Nobody is left Pending either, unless the latest attempt passed over him (as one
\* who left or is unregistered, with an erased message, or by failing as a whole), or a
\* crash lost a receipt of his that was all that showed he was reached.
Lost == issued \ (known \cup mail)
EventuallySettled ==
    <>[]/\ \A k \in known \ dropped : Shown(row, k)
        /\ \A p \in Recipients :
               row[p] = "Pending" => p \in passedOver \/ \E k \in Lost : k.from = p

=============================================================================
