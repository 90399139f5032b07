--------------------------- MODULE StorageService ---------------------------
(***************************************************************************)
(* The storage service of ts/services/storage.ts: linked devices keep the   *)
(* settings of their conversations the same through encrypted records on    *)
(* the server, listed by a versioned manifest.  Each device runs its sync   *)
(* and upload jobs one at a time; jobs of several devices interleave at     *)
(* every request.  A record is never changed: an upload inserts a new one   *)
(* under a new storage ID and deletes the old.                              *)
(*                                                                          *)
(* One field of a conversation stands for those where the remote record     *)
(* wins (archived, muted, marked unread); that other fields differ is a     *)
(* nondeterministic conflict of the merge.                                  *)
(***************************************************************************)
EXTENDS Naturals, FiniteSets

CONSTANTS
    Devices,
    Conversations,
    None,
    Edits,         \* bound: which conversations the user changes on which device
    FillingEdits,  \* bound: those of them that may be the last of a full batch of rows
    MaxChanges,    \* bound: changes by the users of the devices
    MaxTroubles    \* bound: failed requests, lost answers and crashes

ASSUME StorageServiceAssumption ==
    /\ IsFiniteSet(Devices) /\ IsFiniteSet(Conversations)
    /\ Edits \subseteq Devices \X Conversations /\ FillingEdits \subseteq Edits
    /\ MaxChanges \in Nat /\ MaxTroubles \in Nat

VARIABLES
    (* the server *)
    version, manifest,
    stored,           \* the records it has, by storage ID
    (* a device *)
    conversation,     \* its models: see ConversationType
    row,              \* their rows in the database, but for what is batched
    manifestVersion,
    pendingDeletes,   \* 'storage-service-pending-deletes'
    wanted,           \* jobs that are debounced or queued
    (* its running job *)
    at,
    uploading,        \* upload called sync, with ignoreConflicts
    previousManifest, \* the manifest that sync fetched
    remoteOnly,       \* storage IDs whose records are asked for or to be merged
    missing,          \* those the server did not return
    conflict,         \* a merge found a conflict
    generated,
    (* history *)
    unmarked,         \* their row has a change without the mark for the upload
    forgotten,        \* those a crash brought back from such a row
    overtaken,        \* last changed while a record of theirs was on its way
    refused,          \* devices that got a 409
    hindered,         \* devices with a failed request, a lost answer or a crash
    changes, troubles

serverVars == <<version, manifest, stored>>
deviceVars == <<conversation, row, manifestVersion, pendingDeletes, wanted>>
jobVars == <<at, uploading, previousManifest, remoteOnly, missing, conflict, generated>>
historyVars == <<unmarked, forgotten, overtaken, refused, hindered, changes, troubles>>
vars == <<serverVars, deviceVars, jobVars, historyVars>>

\* The storage ID that a device makes up for a record in an upload, with what the
\* record says.  None of two accepted uploads are the same: their versions differ.
StorageIDs == [conversation : Conversations, value : 0..MaxChanges,
               device : Devices \cup {None}, version : Nat]

ASSUME NoneAssumption == None \notin StorageIDs

ConversationType ==
    [value : 0..MaxChanges, storageID : StorageIDs \cup {None}, needsSync : BOOLEAN]

NoUpload == [version |-> 0, inserts |-> {}, deletes |-> {}, keys |-> {}]

\* All devices are linked and have the first manifest.
FirstID(c) == [conversation |-> c, value |-> 0, device |-> None, version |-> 1]
FirstIDs == {FirstID(c) : c \in Conversations}

Init ==
    /\ version = 1 /\ manifest = FirstIDs /\ stored = FirstIDs
    /\ conversation = [d \in Devices |-> [c \in Conversations |->
                         [value |-> 0, storageID |-> FirstID(c), needsSync |-> FALSE]]]
    /\ row = conversation
    /\ manifestVersion = [d \in Devices |-> 1]
    /\ pendingDeletes = [d \in Devices |-> {}]
    /\ wanted = [d \in Devices |-> {}]
    /\ at = [d \in Devices |-> "idle"]
    /\ uploading = [d \in Devices |-> FALSE]
    /\ previousManifest = [d \in Devices |-> None]
    /\ remoteOnly = [d \in Devices |-> {}] /\ missing = [d \in Devices |-> {}]
    /\ conflict = [d \in Devices |-> FALSE]
    /\ generated = [d \in Devices |-> NoUpload]
    /\ unmarked = {} /\ forgotten = {} /\ overtaken = {} /\ refused = {} /\ hindered = {}
    /\ changes = 0 /\ troubles = 0

Go(d, place) == at' = [at EXCEPT ![d] = place]
Want(d, job) == wanted' = [wanted EXCEPT ![d] = @ \cup {job}]

\* The job ends; nothing it fetched or generated is kept.
EndJob(d) ==
    /\ Go(d, "idle")
    /\ uploading' = [uploading EXCEPT ![d] = FALSE]
    /\ previousManifest' = [previousManifest EXCEPT ![d] = None]
    /\ remoteOnly' = [remoteOnly EXCEPT ![d] = {}]
    /\ missing' = [missing EXCEPT ![d] = {}]
    /\ conflict' = [conflict EXCEPT ![d] = FALSE]
    /\ generated' = [generated EXCEPT ![d] = NoUpload]

Trouble(d) ==
    /\ troubles < MaxTroubles
    /\ troubles' = troubles + 1
    /\ hindered' = hindered \cup {d}

-----------------------------------------------------------------------------
(* The user *)

InFlight(d, c) ==
    /\ at[d] \in {"upload", "accepted"}
    /\ \E id \in generated[d].inserts : id.conversation = c

\* A setter such as setArchived.  The row is handed to the batcher before captureChange
\* sets the mark.  The batch has the model's attributes, so it is written with the mark,
\* unless this row is the one that fills it: then it was copied at once.
Change(d, c) ==
    /\ <<d, c>> \in Edits /\ changes < MaxChanges
    /\ changes' = changes + 1
    /\ conversation' = [conversation EXCEPT ![d][c].value = changes + 1,
                                            ![d][c].needsSync = TRUE]
    /\ \E fillsBatch \in BOOLEAN :
         IF fillsBatch /\ <<d, c>> \in FillingEdits /\ ~conversation[d][c].needsSync
         THEN /\ row' = [row EXCEPT ![d][c] =
                             [conversation'[d][c] EXCEPT !.needsSync = FALSE]]
              /\ unmarked' = unmarked \cup {<<d, c>>}
         ELSE /\ row' = [row EXCEPT ![d][c] = conversation'[d][c]]
              /\ unmarked' = unmarked \ {<<d, c>>}
    /\ overtaken' = IF InFlight(d, c) THEN overtaken \cup {<<d, c>>}
                    ELSE overtaken \ {<<d, c>>}
    /\ Want(d, "upload")
    /\ UNCHANGED <<serverVars, manifestVersion, pendingDeletes, jobVars, forgotten,
                   refused, hindered, troubles>>

-----------------------------------------------------------------------------
(* sync *)

LocalIDs(d) == {conversation[d][c].storageID : c \in Conversations} \ {None}

\* A job begins: upload calls sync first.  Without a newer manifest there is nothing to
\* sync; an upload goes on.
NothingToSync(d, job) ==
    /\ uploading' = [uploading EXCEPT ![d] = job = "upload"]
    /\ Go(d, IF job = "upload" THEN "generate" ELSE "idle")
    /\ UNCHANGED <<previousManifest, remoteOnly>>

\* sync fetches the manifest and compares its keys with the local ones.
StartJob(d, job) ==
    /\ at[d] = "idle" /\ job \in wanted[d]
    /\ wanted' = [wanted EXCEPT ![d] = @ \ {job}]
    /\ IF version > manifestVersion[d]
       THEN /\ previousManifest' =
                  [previousManifest EXCEPT ![d] = [version |-> version, keys |-> manifest]]
            /\ remoteOnly' = [remoteOnly EXCEPT ![d] = manifest \ LocalIDs(d)]
            /\ uploading' = [uploading EXCEPT ![d] = job = "upload"]
            /\ Go(d, IF manifest \subseteq LocalIDs(d) THEN "merged" ELSE "fetchRecords")
       ELSE NothingToSync(d, job)
    /\ UNCHANGED <<serverVars, conversation, row, manifestVersion, pendingDeletes,
                   missing, conflict, generated, historyVars>>

\* The request for the manifest fails: as if there were none.
ManifestFails(d, job) ==
    /\ at[d] = "idle" /\ job \in wanted[d]
    /\ Trouble(d)
    /\ wanted' = [wanted EXCEPT ![d] = @ \ {job}]
    /\ NothingToSync(d, job)
    /\ UNCHANGED <<serverVars, conversation, row, manifestVersion, pendingDeletes,
                   missing, conflict, generated, unmarked, forgotten, overtaken,
                   refused, changes>>

MergedKeepingValue(local, id, differs) ==   \* mutant: the record is not applied
    [local EXCEPT !.storageID = id, !.needsSync = @ /\ differs]

\* mergeContactRecord: the remote record wins.  The change that was to be uploaded
\* is forgotten, unless the records differ in something that stays local.
Merged(local, id, differs) ==
    [value |-> id.value, storageID |-> id, needsSync |-> local.needsSync /\ differs]

\* processRemoteRecords asks for the records and merges those it gets: the manifest
\* may be older than the records by now.
FetchRecords(d) ==
    LET fetched == remoteOnly[d] \cap stored
        MergeOf(c) == {id \in fetched : id.conversation = c} IN
    /\ at[d] = "fetchRecords"
    /\ \E differs \in SUBSET {id.conversation : id \in fetched},
          last \in [Conversations -> fetched \cup {None}] :
         /\ \A c \in Conversations :
              IF MergeOf(c) = {} THEN last[c] = None ELSE last[c] \in MergeOf(c)
         /\ conversation' = [conversation EXCEPT ![d] = [c \in Conversations |->
                IF last[c] = None THEN @[c] ELSE Merged(@[c], last[c], c \in differs)]]
         /\ conflict' = [conflict EXCEPT ![d] =
                \E c \in Conversations : last[c] # None /\ conversation'[d][c].needsSync]
    /\ missing' = [missing EXCEPT ![d] = remoteOnly[d] \ stored]
    /\ Go(d, "merge")
    /\ UNCHANGED <<serverVars, row, manifestVersion, pendingDeletes, wanted, uploading,
                   previousManifest, remoteOnly, generated, historyVars>>

MoreToDelete(d) == pendingDeletes[d] \cup missing[d]   \* mutant: not overwritten
KeysToDelete(d) == missing[d]

\* The conversations that a record was merged into
MergedConversations(d) ==
    {c \in Conversations : conversation[d][c].storageID \in remoteOnly[d]}

\* Their rows and the keys to delete are saved.
MergeDone(d) ==
    /\ at[d] = "merge"
    /\ row' = [row EXCEPT ![d] = [c \in Conversations |->
           IF c \in MergedConversations(d) THEN conversation[d][c] ELSE @[c]]]
    /\ unmarked' = unmarked \ ({d} \X MergedConversations(d))
    /\ pendingDeletes' = [pendingDeletes EXCEPT ![d] = KeysToDelete(d)]
    /\ remoteOnly' = [remoteOnly EXCEPT ![d] = {}]
    /\ Go(d, "merged")
    /\ UNCHANGED <<serverVars, conversation, manifestVersion, wanted, uploading,
                   previousManifest, missing, conflict, generated, forgotten,
                   overtaken, refused, hindered, changes, troubles>>

NextVersion(d) == previousManifest[d].version + 1   \* mutant: that of the next upload
SyncedVersion(d) == previousManifest[d].version

\* The end of processManifest and of sync: what the manifest does not list loses its
\* storage ID.  Of a conflict sync makes an upload of its own.
SyncDone(d) ==
    /\ at[d] = "merged"
    /\ conversation' = [conversation EXCEPT ![d] = [c \in Conversations |->
           IF @[c].storageID \in previousManifest[d].keys THEN @[c]
           ELSE [@[c] EXCEPT !.storageID = None]]]
    /\ manifestVersion' = [manifestVersion EXCEPT ![d] = SyncedVersion(d)]
    /\ IF uploading[d] \/ conflict[d]
       THEN /\ Go(d, "generate")
            /\ previousManifest' = IF uploading[d] THEN previousManifest
                                   ELSE [previousManifest EXCEPT ![d] = None]
            /\ missing' = [missing EXCEPT ![d] = {}]
            /\ conflict' = [conflict EXCEPT ![d] = FALSE]
            /\ UNCHANGED <<uploading, remoteOnly, generated>>
       ELSE EndJob(d)
    /\ UNCHANGED <<serverVars, row, pendingDeletes, wanted, historyVars>>

\* The request for records fails: sync logs it and returns the manifest it has.
RecordsFail(d) ==
    /\ at[d] = "fetchRecords"
    /\ Trouble(d)
    /\ IF uploading[d]
       THEN /\ Go(d, "generate")
            /\ remoteOnly' = [remoteOnly EXCEPT ![d] = {}]
            /\ UNCHANGED <<uploading, previousManifest, missing, conflict, generated>>
       ELSE EndJob(d)
    /\ UNCHANGED <<serverVars, deviceVars, unmarked, forgotten, overtaken, refused, changes>>

-----------------------------------------------------------------------------
(* upload *)

hasNoRecord(local) == local.storageID = None   \* mutant: changes do not count
isNewItem(local) == local.needsSync \/ local.storageID = None

NewItems(d) == {c \in Conversations : isNewItem(conversation[d][c])}

Inserts(d) ==
    {[conversation |-> c, value |-> conversation[d][c].value, device |-> d,
      version |-> manifestVersion[d] + 1] : c \in NewItems(d)}

OldIDs(d) == {conversation[d][c].storageID : c \in NewItems(d)} \ {None}
Deletes(d) == OldIDs(d) \cup pendingDeletes[d]

KeysWithDeleted(d) == LocalIDs(d) \cup Inserts(d)   \* mutant: deleted ones stay listed
Keys(d) ==
    (Inserts(d) \cup {conversation[d][c].storageID : c \in Conversations \ NewItems(d)})
      \ Deletes(d)

\* generateManifest validates the write if it knows the manifest on the server.  A key
\* that is deleted twice makes the numbers differ.
IsValid(d) ==
    previousManifest[d] = None \/
        /\ OldIDs(d) \cap pendingDeletes[d] = {}
        /\ previousManifest[d].keys \ Keys(d) = Deletes(d)
        /\ Keys(d) \ previousManifest[d].keys = Inserts(d)

\* It throws, there is nothing to upload, or the write is sent.
Generate(d) ==
    /\ at[d] = "generate"
    /\ IF ~IsValid(d)
       THEN EndJob(d) /\ UNCHANGED pendingDeletes
       ELSE IF Inserts(d) = {} /\ Deletes(d) = {}
       THEN EndJob(d) /\ pendingDeletes' = [pendingDeletes EXCEPT ![d] = {}]
       ELSE /\ generated' = [generated EXCEPT ![d] =
                 [version |-> manifestVersion[d] + 1, inserts |-> Inserts(d),
                  deletes |-> Deletes(d), keys |-> Keys(d)]]
            /\ Go(d, "upload")
            /\ previousManifest' = [previousManifest EXCEPT ![d] = None]
            /\ UNCHANGED <<pendingDeletes, uploading, remoteOnly, missing, conflict>>
    /\ UNCHANGED <<serverVars, conversation, row, manifestVersion, wanted, historyVars>>

\* The server takes the write if its version is the next one.
Accept(d) ==
    /\ at[d] = "upload" /\ generated[d].version = version + 1
    /\ version' = version + 1
    /\ manifest' = generated[d].keys
    /\ stored' = (stored \cup generated[d].inserts) \ generated[d].deletes
    /\ Go(d, "accepted")
    /\ UNCHANGED <<deviceVars, uploading, previousManifest, remoteOnly, missing, conflict,
                   generated, historyVars>>

TellNobody(d) == wanted   \* mutant: no sync message
Tell(d) == [o \in Devices |-> IF o = d THEN wanted[o] ELSE wanted[o] \cup {"sync"}]

\* postUploadUpdateFunctions do not look whether the conversation changed meanwhile.
Uploaded(d) ==
    /\ at[d] = "accepted"
    /\ conversation' = [conversation EXCEPT ![d] = [c \in Conversations |->
           IF InFlight(d, c)
           THEN [@[c] EXCEPT !.needsSync = FALSE,
                             !.storageID = CHOOSE id \in generated[d].inserts :
                                               id.conversation = c]
           ELSE @[c]]]
    /\ manifestVersion' = [manifestVersion EXCEPT ![d] = generated[d].version]
    /\ pendingDeletes' = [pendingDeletes EXCEPT ![d] = {}]
    /\ wanted' = Tell(d)
    /\ EndJob(d)
    /\ UNCHANGED <<serverVars, row, historyVars>>

\* 409: the job ends and a sync is queued.
Refuse(d) ==
    /\ at[d] = "upload" /\ generated[d].version # version + 1
    /\ Want(d, "sync")
    /\ refused' = refused \cup {d}
    /\ EndJob(d)
    /\ UNCHANGED <<serverVars, conversation, row, manifestVersion, pendingDeletes,
                   unmarked, forgotten, overtaken, hindered, changes, troubles>>

\* The write, or the answer to it, is lost.
UploadFails(d) ==
    /\ at[d] \in {"upload", "accepted"}
    /\ Trouble(d)
    /\ EndJob(d)
    /\ UNCHANGED <<serverVars, deviceVars, unmarked, forgotten, overtaken, refused, changes>>

-----------------------------------------------------------------------------
\* Models come back from their rows: what was last saved, or what updateConversation
\* batched since.  Of the wanted jobs those remain that are messages still to be
\* received.
CrashAndRestart(d) ==
    /\ Trouble(d)
    /\ \E written \in SUBSET Conversations :
         /\ row' = [row EXCEPT ![d] = [c \in Conversations |->
                       IF c \in written THEN conversation[d][c] ELSE @[c]]]
         /\ forgotten' = forgotten \cup (unmarked \cap ({d} \X (Conversations \ written)))
    /\ unmarked' = unmarked \ ({d} \X Conversations)
    /\ conversation' = [conversation EXCEPT ![d] = row'[d]]
    /\ \E remaining \in SUBSET (wanted[d] \cap {"sync"}) :
         wanted' = [wanted EXCEPT ![d] = remaining]
    /\ EndJob(d)
    /\ UNCHANGED <<serverVars, manifestVersion, pendingDeletes, overtaken, refused,
                   changes>>

DeviceStep(d) ==
    \/ \E job \in {"sync", "upload"} : StartJob(d, job)
    \/ FetchRecords(d) \/ MergeDone(d) \/ SyncDone(d)
    \/ Generate(d) \/ Accept(d) \/ Uploaded(d) \/ Refuse(d)

Next ==
    \E d \in Devices :
        \/ DeviceStep(d)
        \/ \E c \in Conversations : Change(d, c)
        \/ \E job \in {"sync", "upload"} : ManifestFails(d, job)
        \/ RecordsFail(d) \/ UploadFails(d) \/ CrashAndRestart(d)

Spec == Init /\ [][Next]_vars

\* The queue runs its jobs and the server answers.
FairSpec == Spec /\ \A d \in Devices : WF_vars(DeviceStep(d))

-----------------------------------------------------------------------------
(* Properties *)

(* The types of the variables; no device is ahead of the server. *)
TypeOK ==
    /\ version \in Nat /\ manifest \subseteq StorageIDs /\ stored \subseteq StorageIDs
    /\ conversation \in [Devices -> [Conversations -> ConversationType]]
    /\ row \in [Devices -> [Conversations -> ConversationType]]
    /\ manifestVersion \in [Devices -> 1..version]
    /\ pendingDeletes \in [Devices -> SUBSET StorageIDs]
    /\ wanted \in [Devices -> SUBSET {"sync", "upload"}]
    /\ at \in [Devices -> {"idle", "fetchRecords", "merge", "merged",
                           "generate", "upload", "accepted"}]
    /\ uploading \in [Devices -> BOOLEAN] /\ conflict \in [Devices -> BOOLEAN]
    /\ remoteOnly \in [Devices -> SUBSET StorageIDs]
    /\ missing \in [Devices -> SUBSET StorageIDs]
    /\ unmarked \subseteq Devices \X Conversations
    /\ forgotten \subseteq Devices \X Conversations
    /\ overtaken \subseteq Devices \X Conversations
    /\ refused \subseteq Devices /\ hindered \subseteq Devices
    /\ changes \in 0..MaxChanges /\ troubles \in 0..MaxTroubles

(* Whoever uploads, and whatever fails, the manifest lists one record for each  *)
(* conversation, and the server has it: no device's upload drops, doubles or    *)
(* leaves dangling what another one uploaded.  Exempt are runs with a crash     *)
(* that brought back a change without its mark: the storage ID of that row may  *)
(* be one that the device itself deleted, and its next upload lists it again.   *)
OneRecordEach == forgotten = {} =>
    /\ manifest \subseteq stored
    /\ \A c \in Conversations :
         Cardinality({id \in manifest : id.conversation = c}) = 1

(* A conversation that nothing marks for the next upload is as its record says, *)
(* also after a crash.  Exempt is one that was changed while its last record    *)
(* was being uploaded, since the end of the upload clears the mark of the new   *)
(* change (storage.ts:281), and one that a crash brought back from a row that   *)
(* was saved before captureChange set the mark (conversations.ts:4257).         *)
SyncedMeansSame ==
    \A d \in Devices, c \in Conversations :
        LET local == conversation[d][c] IN
        ~local.needsSync /\ local.storageID # None /\ <<d, c>> \notin overtaken \cup forgotten
            => local.value = local.storageID.value

(* The validation of generateManifest never throws after a sync that got        *)
(* through: what a device derives from a manifest is a valid write to it.       *)
WritesAreValid ==
    \A d \in Devices : at[d] = "generate" /\ d \notin hindered => IsValid(d)

(* When a device is behind the server, all devices catch up once the users stop *)
(* making changes, unless some device lost a request or crashed: nothing asks   *)
(* again then, and a writer whose answer was lost tells nobody of its version.  *)
DevicesCatchUp ==
    (\E d \in Devices : manifestVersion[d] < version) ~>
        (\A d \in Devices : manifestVersion[d] = version) \/ hindered # {}

\* Where the v-th change is
Holders(v) == {p \in Devices \X Conversations : conversation[p[1]][p[2]].value = v}

(* A change that waits for the upload gets to the server: some manifest lists a *)
(* record with its value, or the change gave way to a later one or to the       *)
(* record of another device.  Exempt are a change made while an upload of its   *)
(* conversation was on its way (the end of that upload clears its mark,         *)
(* storage.ts:281), a device whose upload met a conflict (the sync that follows *)
(* a 409 uploads only what conflicts with the records it merges,                *)
(* storage.ts:1447), and runs with a failed request or a crash.                 *)
ChangesAreUploaded ==
    \A v \in 1..MaxChanges :
        (\E p \in Holders(v) : conversation[p[1]][p[2]].needsSync) ~>
            \/ \E id \in manifest : id.value = v
            \/ Holders(v) = {}
            \/ Holders(v) \cap (overtaken \cup (refused \X Conversations)) # {}
            \/ hindered # {}

=============================================================================
