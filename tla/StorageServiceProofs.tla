------------------------- MODULE StorageServiceProofs -------------------------
(***************************************************************************)
(* Theorems about StorageService, for any devices, conversations, changes  *)
(* and troubles: every reachable state is well typed, a conversation that  *)
(* nothing marks for the next upload is as its record says, the manifest   *)
(* lists one record for each conversation, and what a device derives from  *)
(* a manifest is a valid write to it.                                      *)
(***************************************************************************)
EXTENDS StorageService, FiniteSetTheorems, TLAPS

-----------------------------------------------------------------------------
(* The inductive invariant *)

Syncing(d) == at[d] \in {"fetchRecords", "merge", "merged"}
Uploading(d) == at[d] \in {"upload", "accepted"}

Places == {"idle", "fetchRecords", "merge", "merged", "generate", "upload", "accepted"}

\* What a running job has fetched or generated
JobsKnowWhatTheyDo ==
    /\ DOMAIN previousManifest = Devices /\ DOMAIN generated = Devices
    /\ \A d \in Devices :
         /\ Syncing(d) => /\ previousManifest[d].version \in 1..version
                          /\ previousManifest[d].keys \subseteq StorageIDs
         /\ Uploading(d) => /\ generated[d].version \in Nat
                            /\ generated[d].version >= 1
                            /\ generated[d].inserts \subseteq StorageIDs
                            /\ generated[d].keys \subseteq StorageIDs
         /\ at[d] = "accepted" => generated[d].version <= version

Same(local) == ~local.needsSync /\ local.storageID # None =>
                   local.value = local.storageID.value

\* What a crash brings back is as good as what was in memory, but for what was saved
\* without its mark.
RowsMeanSame ==
    \A d \in Devices, c \in Conversations :
        <<d, c>> \notin overtaken \cup forgotten \cup unmarked => Same(row[d][c])

\* A record on its way says what its conversation says, unless that changed since.
InFlightMeansSame ==
    \A d \in Devices : Uploading(d) =>
        \A id \in generated[d].inserts :
            <<d, id.conversation>> \notin overtaken =>
                id.value = conversation[d][id.conversation].value

IInv == TypeOK /\ JobsKnowWhatTheyDo /\ SyncedMeansSame /\ RowsMeanSame /\ InFlightMeansSame

-----------------------------------------------------------------------------
(* Types of the helpers *)

LEMMA IDFields ==
  ASSUME NEW id \in StorageIDs
  PROVE  id.conversation \in Conversations /\ id.value \in 0..MaxChanges
  BY DEF StorageIDs

LEMMA LocalTypes ==
  ASSUME TypeOK, NEW d \in Devices, NEW c \in Conversations
  PROVE  /\ conversation[d][c] \in ConversationType /\ row[d][c] \in ConversationType
         /\ conversation[d][c].value \in 0..MaxChanges
         /\ conversation[d][c].needsSync \in BOOLEAN
         /\ conversation[d][c].storageID \in StorageIDs \cup {None}
  BY DEF TypeOK, ConversationType

LEMMA InsertTypes ==
  ASSUME TypeOK, NEW d \in Devices
  PROVE  Inserts(d) \subseteq StorageIDs /\ Keys(d) \subseteq StorageIDs
<1>1. manifestVersion[d] + 1 \in Nat
  BY DEF TypeOK
<1>2. Inserts(d) \subseteq StorageIDs
  BY <1>1, LocalTypes DEF Inserts, StorageIDs, NewItems
<1>3. \A c \in Conversations \ NewItems(d) : conversation[d][c].storageID \in StorageIDs
  BY LocalTypes DEF NewItems, isNewItem
<1> QED
  BY <1>2, <1>3 DEF Keys

\* A job that ends leaves the others alone.
LEMMA JobEnds ==
  ASSUME TypeOK, JobsKnowWhatTheyDo, NEW d \in Devices, EndJob(d)
  PROVE  /\ at' \in [Devices -> Places] /\ at'[d] = "idle"
         /\ uploading' \in [Devices -> BOOLEAN] /\ conflict' \in [Devices -> BOOLEAN]
         /\ remoteOnly' \in [Devices -> SUBSET StorageIDs]
         /\ missing' \in [Devices -> SUBSET StorageIDs]
         /\ DOMAIN previousManifest' = Devices /\ DOMAIN generated' = Devices
         /\ \A e \in Devices \ {d} : /\ at'[e] = at[e]
                                     /\ previousManifest'[e] = previousManifest[e]
                                     /\ generated'[e] = generated[e]
  BY DEF EndJob, Go, TypeOK, JobsKnowWhatTheyDo, Places

LEMMA EndedJobKnows ==
  ASSUME TypeOK, JobsKnowWhatTheyDo, NEW d \in Devices, EndJob(d), version' = version
  PROVE  JobsKnowWhatTheyDo'
  BY JobEnds DEF JobsKnowWhatTheyDo, Syncing, Uploading

LEMMA EndedJobInFlight ==
  ASSUME TypeOK, JobsKnowWhatTheyDo, InFlightMeansSame, NEW d \in Devices, EndJob(d),
         overtaken' = overtaken,
         \A e \in Devices \ {d} : conversation'[e] = conversation[e]
  PROVE  InFlightMeansSame'
<1> SUFFICES ASSUME NEW e \in Devices, Uploading(e)', NEW id \in generated'[e].inserts,
                    <<e, id.conversation>> \notin overtaken'
             PROVE  id.value = conversation'[e][id.conversation].value
  BY DEF InFlightMeansSame
<1>1. e # d
  BY JobEnds DEF Uploading
<1>2. Uploading(e) /\ id \in generated[e].inserts /\ conversation'[e] = conversation[e]
  BY <1>1, JobEnds DEF Uploading
<1> QED
  BY <1>2 DEF InFlightMeansSame

-----------------------------------------------------------------------------

LEMMA InitIInv == Init => IInv
<1> SUFFICES ASSUME Init PROVE IInv
  OBVIOUS
<1> USE StorageServiceAssumption DEF Init
<1>1. 0 \in 0..MaxChanges /\ 0 \in 0..MaxTroubles /\ 1 \in 1..1 /\ 1 \in Nat
  OBVIOUS
<1>2. \A c \in Conversations : FirstID(c) \in StorageIDs /\ FirstID(c).value = 0
  BY <1>1 DEF FirstID, StorageIDs
<1>3. FirstIDs \subseteq StorageIDs
  BY <1>2 DEF FirstIDs
<1>4. conversation \in [Devices -> [Conversations -> ConversationType]] /\ row = conversation
  BY <1>1, <1>2 DEF ConversationType
<1>5. TypeOK
  <2> HIDE DEF StorageIDs, ConversationType, FirstIDs
  <2> QED
    BY <1>1, <1>3, <1>4 DEF TypeOK
<1>6. SyncedMeansSame /\ RowsMeanSame
  BY <1>2 DEF SyncedMeansSame, RowsMeanSame, Same
<1>7. JobsKnowWhatTheyDo /\ InFlightMeansSame
  BY DEF JobsKnowWhatTheyDo, InFlightMeansSame, Syncing, Uploading
<1> QED
  BY <1>5, <1>6, <1>7 DEF IInv

LEMMA ChangedConversation ==
  ASSUME TypeOK, NEW d \in Devices, NEW c \in Conversations, Change(d, c)
  PROVE  conversation' = [conversation EXCEPT ![d] = [@ EXCEPT ![c] =
             [conversation[d][c] EXCEPT !.value = changes + 1, !.needsSync = TRUE]]]
<1>1. conversation' = [conversation EXCEPT ![d][c].value = changes + 1,
                                           ![d][c].needsSync = TRUE]
  BY DEF Change
<1> QED
  BY <1>1, ZenonT(40) DEF TypeOK, ConversationType

LEMMA ChangeIInv ==
  ASSUME IInv, NEW d \in Devices, NEW c \in Conversations, Change(d, c)
  PROVE  IInv'
<1> USE StorageServiceAssumption DEF IInv
<1> DEFINE new == [conversation[d][c] EXCEPT !.value = changes + 1, !.needsSync = TRUE]
<1>1. changes + 1 \in 0..MaxChanges /\ changes' = changes + 1
  BY DEF Change, TypeOK
<1>2. new \in ConversationType /\ new.needsSync = TRUE
  BY <1>1, LocalTypes DEF ConversationType
<1>3. conversation' = [conversation EXCEPT ![d] = [@ EXCEPT ![c] = new]]
  BY ChangedConversation
<1> HIDE DEF new
<1>4. /\ conversation' \in [Devices -> [Conversations -> ConversationType]]
      /\ conversation'[d][c] = new
      /\ \A e \in Devices, b \in Conversations : e # d \/ b # c =>
             conversation'[e][b] = conversation[e][b]
  BY <1>2, <1>3 DEF TypeOK
<1>5. /\ row' \in [Devices -> [Conversations -> ConversationType]]
      /\ unmarked' \subseteq Devices \X Conversations
      /\ <<d, c>> \in unmarked' \/ row'[d][c] = new
      /\ \A e \in Devices, b \in Conversations : e # d \/ b # c =>
             row'[e][b] = row[e][b] /\ (<<e, b>> \in unmarked' <=> <<e, b>> \in unmarked)
  <2>1. PICK saved \in {new, [new EXCEPT !.needsSync = FALSE]} :
           /\ row' = [row EXCEPT ![d][c] = saved]
           /\ \/ unmarked' = unmarked \cup {<<d, c>>}
              \/ unmarked' = unmarked \ {<<d, c>>} /\ saved = new
    BY <1>4 DEF Change
  <2>2. saved \in ConversationType
    BY <1>2, <2>1 DEF ConversationType
  <2> QED
    BY <2>1, <2>2 DEF TypeOK
<1>6. /\ overtaken' \subseteq Devices \X Conversations
      /\ \A e \in Devices, b \in Conversations : e # d \/ b # c =>
             (<<e, b>> \in overtaken' <=> <<e, b>> \in overtaken)
      /\ InFlight(d, c) => <<d, c>> \in overtaken'
  BY DEF Change, TypeOK
<1>7. UNCHANGED <<serverVars, manifestVersion, pendingDeletes, jobVars, forgotten, refused,
                  hindered, troubles>> /\ wanted' = [wanted EXCEPT ![d] = @ \cup {"upload"}]
  BY DEF Change, Want
<1>8. TypeOK'
  BY <1>1, <1>4, <1>5, <1>6, <1>7 DEF TypeOK, serverVars, jobVars
<1>9. SyncedMeansSame' /\ RowsMeanSame'
  <2> SUFFICES ASSUME NEW e \in Devices, NEW b \in Conversations,
                      <<e, b>> \notin overtaken' \cup forgotten'
               PROVE  /\ Same(conversation'[e][b])
                      /\ <<e, b>> \notin unmarked' => Same(row'[e][b])
    BY DEF SyncedMeansSame, RowsMeanSame, Same
  <2>1. CASE e = d /\ b = c
    BY <1>2, <1>4, <1>5, <2>1 DEF Same
  <2>2. CASE e # d \/ b # c
    <3>1. <<e, b>> \notin overtaken \cup forgotten
      BY <1>6, <1>7, <2>2
    <3>2. Same(conversation[e][b]) /\ (<<e, b>> \notin unmarked => Same(row[e][b]))
      BY <3>1 DEF SyncedMeansSame, RowsMeanSame, Same
    <3> QED
      BY <1>4, <1>5, <2>2, <3>2
  <2> QED
    BY <2>1, <2>2
<1>10. JobsKnowWhatTheyDo'
  BY <1>7 DEF JobsKnowWhatTheyDo, Syncing, Uploading, serverVars, jobVars
<1>11. InFlightMeansSame'
  <2> SUFFICES ASSUME NEW e \in Devices, Uploading(e)', NEW id \in generated'[e].inserts,
                      <<e, id.conversation>> \notin overtaken'
               PROVE  id.value = conversation'[e][id.conversation].value
    BY DEF InFlightMeansSame
  <2>1. Uploading(e) /\ id \in generated[e].inserts
    BY <1>7 DEF Uploading, jobVars
  <2>2. id.conversation \in Conversations
    BY <2>1, IDFields DEF JobsKnowWhatTheyDo
  <2>3. e # d \/ id.conversation # c
    BY <1>6, <2>1 DEF InFlight, Uploading
  <2>4. <<e, id.conversation>> \notin overtaken
    BY <1>6, <2>2, <2>3
  <2>5. id.value = conversation[e][id.conversation].value
    BY <2>1, <2>4 DEF InFlightMeansSame
  <2> QED
    BY <1>4, <2>2, <2>3, <2>5
<1> QED
  BY <1>8, <1>9, <1>10, <1>11

\* Steps that leave conversations, rows and what overtook them alone
LEMMA SameKept ==
  ASSUME SyncedMeansSame, RowsMeanSame,
         UNCHANGED <<conversation, row, unmarked, forgotten, overtaken>>
  PROVE  SyncedMeansSame' /\ RowsMeanSame'
  BY DEF SyncedMeansSame, RowsMeanSame, Same

\* Steps that send no record, and change no conversation with one on its way
LEMMA InFlightKept ==
  ASSUME InFlightMeansSame, UNCHANGED overtaken,
         \A e \in Devices : Uploading(e)' =>
             /\ Uploading(e) /\ generated'[e] = generated[e]
             /\ conversation'[e] = conversation[e]
  PROVE  InFlightMeansSame'
  BY DEF InFlightMeansSame

LEMMA StartJobIInv ==
  ASSUME IInv, NEW d \in Devices, NEW job \in {"sync", "upload"}, StartJob(d, job)
  PROVE  IInv'
<1> USE DEF IInv
<1>1. /\ UNCHANGED <<serverVars, conversation, row, manifestVersion, pendingDeletes,
                     missing, conflict, generated, historyVars>>
      /\ wanted' = [wanted EXCEPT ![d] = @ \ {job}]
      /\ uploading' = [uploading EXCEPT ![d] = job = "upload"]
  BY DEF StartJob, NothingToSync
<1>2. \/ /\ previousManifest' =
               [previousManifest EXCEPT ![d] = [version |-> version, keys |-> manifest]]
         /\ remoteOnly' = [remoteOnly EXCEPT ![d] = manifest \ LocalIDs(d)]
         /\ at' = [at EXCEPT ![d] = IF manifest \subseteq LocalIDs(d) THEN "merged"
                                    ELSE "fetchRecords"]
      \/ /\ UNCHANGED <<previousManifest, remoteOnly>>
         /\ at' = [at EXCEPT ![d] = IF job = "upload" THEN "generate" ELSE "idle"]
  BY DEF StartJob, NothingToSync, Go
<1>3. /\ at' \in [Devices -> Places] /\ ~Uploading(d)'
      /\ remoteOnly' \in [Devices -> SUBSET StorageIDs]
      /\ \A e \in Devices \ {d} : at'[e] = at[e]
  <2>1. PICK place \in {"merged", "fetchRecords", "generate", "idle"} :
            at' = [at EXCEPT ![d] = place]
    BY <1>2
  <2>2. remoteOnly' \in [Devices -> SUBSET StorageIDs]
    <3>1. manifest \ LocalIDs(d) \in SUBSET StorageIDs
      BY DEF TypeOK
    <3>2. \/ remoteOnly' = remoteOnly
          \/ remoteOnly' = [remoteOnly EXCEPT ![d] = manifest \ LocalIDs(d)]
      BY <1>2, Zenon
    <3> QED
      BY <3>1, <3>2 DEF TypeOK
  <2> QED
    BY <2>1, <2>2 DEF TypeOK, Places, Uploading
<1>4. TypeOK'
  BY <1>1, <1>3 DEF TypeOK, Places, serverVars, historyVars
<1>5. version \in 1..version /\ manifest \subseteq StorageIDs
  BY DEF TypeOK
<1>6. JobsKnowWhatTheyDo'
  <2>1. DOMAIN previousManifest' = Devices
    BY <1>2 DEF JobsKnowWhatTheyDo
  <2>2. Syncing(d)' => /\ previousManifest'[d].version \in 1..version
                       /\ previousManifest'[d].keys \subseteq StorageIDs
    BY <1>2, <1>5 DEF Syncing, JobsKnowWhatTheyDo, TypeOK
  <2>3. \A e \in Devices \ {d} : previousManifest'[e] = previousManifest[e]
    BY <1>2 DEF JobsKnowWhatTheyDo
  <2> QED
    BY <1>1, <1>3, <2>1, <2>2, <2>3 DEF JobsKnowWhatTheyDo, Syncing, Uploading, serverVars
<1>7. SyncedMeansSame' /\ RowsMeanSame'
  BY <1>1, SameKept DEF historyVars
<1>8. InFlightMeansSame'
  BY <1>1, <1>3, InFlightKept DEF Uploading, historyVars
<1> QED
  BY <1>4, <1>6, <1>7, <1>8

LEMMA ManifestFailsIInv ==
  ASSUME IInv, NEW d \in Devices, NEW job \in {"sync", "upload"}, ManifestFails(d, job)
  PROVE  IInv'
<1> USE DEF IInv
<1>1. /\ UNCHANGED <<serverVars, conversation, row, manifestVersion, pendingDeletes,
                     missing, conflict, generated, unmarked, forgotten, overtaken,
                     refused, changes, previousManifest, remoteOnly>>
      /\ wanted' = [wanted EXCEPT ![d] = @ \ {job}]
      /\ uploading' = [uploading EXCEPT ![d] = job = "upload"]
      /\ at' = [at EXCEPT ![d] = IF job = "upload" THEN "generate" ELSE "idle"]
      /\ troubles < MaxTroubles /\ troubles' = troubles + 1
      /\ hindered' = hindered \cup {d}
  BY DEF ManifestFails, NothingToSync, Go, Trouble
<1>2. troubles' \in 0..MaxTroubles
  BY <1>1, StorageServiceAssumption DEF TypeOK
<1>3. /\ at' \in [Devices -> Places] /\ ~Uploading(d)' /\ ~Syncing(d)'
      /\ \A e \in Devices \ {d} : at'[e] = at[e]
  BY <1>1 DEF TypeOK, Places, Uploading, Syncing
<1>4. TypeOK'
  BY <1>1, <1>2, <1>3 DEF TypeOK, Places, serverVars
<1>5. JobsKnowWhatTheyDo'
  BY <1>1, <1>3 DEF JobsKnowWhatTheyDo, Syncing, Uploading, serverVars
<1>6. SyncedMeansSame' /\ RowsMeanSame'
  BY <1>1, SameKept
<1>7. InFlightMeansSame'
  BY <1>1, <1>3, InFlightKept DEF Uploading
<1> QED
  BY <1>4, <1>5, <1>6, <1>7

LEMMA RecordsFailIInv ==
  ASSUME IInv, NEW d \in Devices, RecordsFail(d)
  PROVE  IInv'
<1> USE DEF IInv
<1>1. /\ UNCHANGED <<serverVars, deviceVars, unmarked, forgotten, overtaken, refused, changes>>
      /\ at[d] = "fetchRecords"
      /\ troubles < MaxTroubles /\ troubles' = troubles + 1
      /\ hindered' = hindered \cup {d}
  BY DEF RecordsFail, Trouble
<1>2. troubles' \in 0..MaxTroubles
  BY <1>1, StorageServiceAssumption DEF TypeOK
<1>3. CASE EndJob(d)
  <2>1. TypeOK'
    BY <1>1, <1>2, <1>3, JobEnds DEF TypeOK, Places, serverVars, deviceVars
  <2> QED
    BY <1>1, <1>3, <2>1, EndedJobKnows, EndedJobInFlight, SameKept DEF serverVars, deviceVars
<1>4. CASE /\ at' = [at EXCEPT ![d] = "generate"]
           /\ remoteOnly' = [remoteOnly EXCEPT ![d] = {}]
           /\ UNCHANGED <<uploading, previousManifest, missing, conflict, generated>>
  <2>1. TypeOK'
    BY <1>1, <1>2, <1>4 DEF TypeOK, serverVars, deviceVars
  <2>2. JobsKnowWhatTheyDo'
    BY <1>1, <1>4 DEF TypeOK, JobsKnowWhatTheyDo, Syncing, Uploading, serverVars
  <2>3. InFlightMeansSame'
    BY <1>1, <1>4, InFlightKept DEF TypeOK, Uploading, deviceVars
  <2> QED
    BY <1>1, <2>1, <2>2, <2>3, SameKept DEF deviceVars
<1> QED
  BY <1>3, <1>4 DEF RecordsFail, Go

LEMMA MergeDoneIInv ==
  ASSUME IInv, NEW d \in Devices, MergeDone(d)
  PROVE  IInv'
<1> USE DEF IInv
<1>1. /\ UNCHANGED <<serverVars, conversation, manifestVersion, wanted, uploading,
                     previousManifest, missing, conflict, generated, forgotten,
                     overtaken, refused, hindered, changes, troubles>>
      /\ at[d] = "merge" /\ at' = [at EXCEPT ![d] = "merged"]
      /\ pendingDeletes' = [pendingDeletes EXCEPT ![d] = missing[d]]
      /\ remoteOnly' = [remoteOnly EXCEPT ![d] = {}]
      /\ unmarked' = unmarked \ ({d} \X MergedConversations(d))
  BY DEF MergeDone, KeysToDelete, Go
<1>2. /\ row' \in [Devices -> [Conversations -> ConversationType]]
      /\ \A e \in Devices, c \in Conversations :
           row'[e][c] = IF e = d /\ c \in MergedConversations(d) THEN conversation[d][c]
                        ELSE row[e][c]
  <2> DEFINE new == [c \in Conversations |->
                        IF c \in MergedConversations(d) THEN conversation[d][c] ELSE row[d][c]]
  <2>1. row' = [row EXCEPT ![d] = new]
    BY DEF MergeDone
  <2>2. new \in [Conversations -> ConversationType]
    BY LocalTypes
  <2>3. \A c \in Conversations : new[c] = IF c \in MergedConversations(d)
                                          THEN conversation[d][c] ELSE row[d][c]
    OBVIOUS
  <2> HIDE DEF new
  <2> QED
    BY <2>1, <2>2, <2>3 DEF TypeOK
<1>3. TypeOK'
  BY <1>1, <1>2 DEF TypeOK, serverVars
<1>4. JobsKnowWhatTheyDo'
  BY <1>1 DEF TypeOK, JobsKnowWhatTheyDo, Syncing, Uploading, serverVars
<1>5. InFlightMeansSame'
  BY <1>1, InFlightKept DEF TypeOK, Uploading
<1>6. SyncedMeansSame'
  BY <1>1 DEF SyncedMeansSame
<1>7. RowsMeanSame'
  <2> SUFFICES ASSUME NEW e \in Devices, NEW c \in Conversations,
                      <<e, c>> \notin overtaken \cup forgotten \cup unmarked'
               PROVE  Same(row'[e][c])
    BY <1>1 DEF RowsMeanSame
  <2>1. Same(conversation[e][c])
    BY DEF SyncedMeansSame, Same
  <2>2. CASE e = d /\ c \in MergedConversations(d)
    BY <1>2, <2>1, <2>2
  <2>3. CASE ~(e = d /\ c \in MergedConversations(d))
    <3>1. <<e, c>> \notin unmarked
      BY <1>1, <2>3
    <3> QED
      BY <1>2, <2>3, <3>1 DEF RowsMeanSame
  <2> QED
    BY <2>2, <2>3
<1> QED
  BY <1>3, <1>4, <1>5, <1>6, <1>7

LEMMA FetchRecordsIInv ==
  ASSUME IInv, NEW d \in Devices, FetchRecords(d)
  PROVE  IInv'
<1> USE DEF IInv
<1>1. /\ UNCHANGED <<serverVars, row, manifestVersion, pendingDeletes, wanted, uploading,
                     previousManifest, remoteOnly, generated, historyVars>>
      /\ at[d] = "fetchRecords" /\ at' = [at EXCEPT ![d] = "merge"]
      /\ missing' = [missing EXCEPT ![d] = remoteOnly[d] \ stored]
  BY DEF FetchRecords, Go
<1> DEFINE fetched == remoteOnly[d] \cap stored
<1>2. PICK differs \in SUBSET {id.conversation : id \in fetched},
           last \in [Conversations -> fetched \cup {None}] :
        /\ conversation' = [conversation EXCEPT ![d] = [c \in Conversations |->
                IF last[c] = None THEN @[c] ELSE Merged(@[c], last[c], c \in differs)]]
        /\ conflict' = [conflict EXCEPT ![d] =
                \E c \in Conversations : last[c] # None /\ conversation'[d][c].needsSync]
  BY DEF FetchRecords
<1>3. fetched \subseteq StorageIDs
  BY DEF TypeOK
<1> HIDE DEF fetched
<1>4. \A c \in Conversations : \/ conversation'[d][c] = conversation[d][c]
                               \/ /\ conversation'[d][c] \in ConversationType
                                  /\ Same(conversation'[d][c])
  <2> TAKE c \in Conversations
  <2>1. CASE last[c] = None
    BY <1>2, <2>1 DEF TypeOK
  <2>2. CASE last[c] # None
    <3>1. last[c] \in StorageIDs
      BY <1>2, <1>3, <2>2
    <3>2. conversation'[d][c] = Merged(conversation[d][c], last[c], c \in differs)
      BY <1>2, <2>2 DEF TypeOK
    <3>3. /\ conversation'[d][c].value = last[c].value
          /\ conversation'[d][c].storageID = last[c]
          /\ conversation'[d][c] =
                 [value |-> last[c].value, storageID |-> last[c],
                  needsSync |-> conversation[d][c].needsSync /\ c \in differs]
      BY <3>2 DEF Merged
    <3>4. last[c].value \in 0..MaxChanges
      BY <3>1, IDFields
    <3>5. conversation'[d][c] \in ConversationType
      BY <3>1, <3>3, <3>4 DEF ConversationType
    <3> QED
      BY <3>3, <3>5 DEF Same
  <2> QED
    BY <2>1, <2>2
<1>5. \A e \in Devices \ {d} : conversation'[e] = conversation[e]
  BY <1>2 DEF TypeOK
<1>6. conversation' \in [Devices -> [Conversations -> ConversationType]]
  <2> DEFINE new == [c \in Conversations |->
                         IF last[c] = None THEN conversation[d][c]
                         ELSE Merged(conversation[d][c], last[c], c \in differs)]
  <2>1. conversation' = [conversation EXCEPT ![d] = new]
    BY <1>2
  <2> HIDE DEF new
  <2>2. conversation'[d] = new
    BY <2>1 DEF TypeOK
  <2>3. DOMAIN new = Conversations /\ new = [c \in Conversations |-> new[c]]
    BY DEF new
  <2>4. \A c \in Conversations : new[c] \in ConversationType
    BY <1>4, <2>2, LocalTypes
  <2>5. new \in [Conversations -> ConversationType]
    BY <2>3, <2>4
  <2> QED
    BY <2>1, <2>5 DEF TypeOK
<1>7. conflict' \in [Devices -> BOOLEAN]
  BY <1>2 DEF TypeOK
<1>8. TypeOK'
  BY <1>1, <1>6, <1>7 DEF TypeOK, serverVars, historyVars
<1>9. JobsKnowWhatTheyDo'
  BY <1>1 DEF TypeOK, JobsKnowWhatTheyDo, Syncing, Uploading, serverVars
<1>10. InFlightMeansSame'
  BY <1>1, <1>5, InFlightKept DEF TypeOK, Uploading, historyVars
<1>11. SyncedMeansSame'
  <2> SUFFICES ASSUME NEW e \in Devices, NEW c \in Conversations,
                      <<e, c>> \notin overtaken \cup forgotten
               PROVE  Same(conversation'[e][c])
    BY <1>1 DEF SyncedMeansSame, Same, historyVars
  <2>1. Same(conversation[e][c])
    BY DEF SyncedMeansSame, Same
  <2> QED
    BY <1>4, <1>5, <2>1
<1>12. RowsMeanSame'
  BY <1>1 DEF RowsMeanSame, historyVars
<1> QED
  BY <1>8, <1>9, <1>10, <1>11, <1>12

LEMMA SyncDoneIInv ==
  ASSUME IInv, NEW d \in Devices, SyncDone(d)
  PROVE  IInv'
<1> USE DEF IInv
<1>1. /\ UNCHANGED <<serverVars, row, pendingDeletes, wanted, historyVars>>
      /\ at[d] = "merged"
      /\ manifestVersion' = [manifestVersion EXCEPT ![d] = previousManifest[d].version]
      /\ conversation' = [conversation EXCEPT ![d] = [c \in Conversations |->
             IF @[c].storageID \in previousManifest[d].keys THEN @[c]
             ELSE [@[c] EXCEPT !.storageID = None]]]
  BY DEF SyncDone, SyncedVersion
<1>2. previousManifest[d].version \in 1..version
  BY <1>1 DEF JobsKnowWhatTheyDo, Syncing
<1>3. \A c \in Conversations : \/ conversation'[d][c] = conversation[d][c]
                               \/ conversation'[d][c] =
                                      [conversation[d][c] EXCEPT !.storageID = None]
  BY <1>1 DEF TypeOK
<1>4. /\ conversation' \in [Devices -> [Conversations -> ConversationType]]
      /\ \A e \in Devices \ {d} : conversation'[e] = conversation[e]
  <2> DEFINE new == [c \in Conversations |->
                         IF conversation[d][c].storageID \in previousManifest[d].keys
                         THEN conversation[d][c]
                         ELSE [conversation[d][c] EXCEPT !.storageID = None]]
  <2>1. conversation' = [conversation EXCEPT ![d] = new]
    BY <1>1
  <2>2. new \in [Conversations -> ConversationType]
    BY LocalTypes DEF ConversationType
  <2> HIDE DEF new
  <2> QED
    BY <2>1, <2>2 DEF TypeOK
<1>5. /\ at' \in [Devices -> Places] /\ ~Syncing(d)' /\ ~Uploading(d)'
      /\ uploading' \in [Devices -> BOOLEAN] /\ conflict' \in [Devices -> BOOLEAN]
      /\ remoteOnly' \in [Devices -> SUBSET StorageIDs]
      /\ missing' \in [Devices -> SUBSET StorageIDs]
      /\ DOMAIN previousManifest' = Devices /\ DOMAIN generated' = Devices
      /\ \A e \in Devices \ {d} : /\ at'[e] = at[e] /\ generated'[e] = generated[e]
                                  /\ previousManifest'[e] = previousManifest[e]
  <2>1. CASE EndJob(d)
    BY <2>1, JobEnds DEF Syncing, Uploading
  <2>2. CASE ~EndJob(d)
    <3>1. /\ at' = [at EXCEPT ![d] = "generate"]
          /\ \/ previousManifest' = previousManifest
             \/ previousManifest' = [previousManifest EXCEPT ![d] = None]
          /\ missing' = [missing EXCEPT ![d] = {}]
          /\ conflict' = [conflict EXCEPT ![d] = FALSE]
          /\ UNCHANGED <<uploading, remoteOnly, generated>>
      BY <2>2 DEF SyncDone, Go
    <3> QED
      BY <3>1 DEF TypeOK, JobsKnowWhatTheyDo, Places, Syncing, Uploading
  <2> QED
    BY <2>1, <2>2
<1>6. TypeOK'
  BY <1>1, <1>2, <1>4, <1>5 DEF TypeOK, Places, serverVars, historyVars
<1>7. JobsKnowWhatTheyDo'
  BY <1>1, <1>5 DEF JobsKnowWhatTheyDo, Syncing, Uploading, serverVars
<1>8. InFlightMeansSame'
  BY <1>1, <1>4, <1>5, InFlightKept DEF Uploading, historyVars
<1>9. SyncedMeansSame'
  <2> SUFFICES ASSUME NEW e \in Devices, NEW c \in Conversations,
                      <<e, c>> \notin overtaken \cup forgotten
               PROVE  Same(conversation'[e][c])
    BY <1>1 DEF SyncedMeansSame, Same, historyVars
  <2>1. Same(conversation[e][c])
    BY DEF SyncedMeansSame, Same
  <2>2. Same([conversation[d][c] EXCEPT !.storageID = None])
    BY LocalTypes DEF Same, ConversationType
  <2> QED
    BY <1>3, <1>4, <2>1, <2>2
<1>10. RowsMeanSame'
  BY <1>1 DEF RowsMeanSame, historyVars
<1> QED
  BY <1>6, <1>7, <1>8, <1>9, <1>10

LEMMA GenerateIInv ==
  ASSUME IInv, NEW d \in Devices, Generate(d)
  PROVE  IInv'
<1> USE DEF IInv
<1>1. UNCHANGED <<serverVars, conversation, row, manifestVersion, wanted, historyVars>>
  BY DEF Generate
<1>2. CASE EndJob(d) /\ (pendingDeletes' = pendingDeletes
                         \/ pendingDeletes' = [pendingDeletes EXCEPT ![d] = {}])
  <2>1. pendingDeletes' \in [Devices -> SUBSET StorageIDs]
    BY <1>2 DEF TypeOK
  <2>2. TypeOK'
    BY <1>1, <1>2, <2>1, JobEnds DEF TypeOK, Places, serverVars, historyVars
  <2> QED
    BY <1>1, <1>2, <2>2, EndedJobKnows, EndedJobInFlight, SameKept
    DEF serverVars, historyVars
<1>3. CASE /\ generated' = [generated EXCEPT ![d] =
                [version |-> manifestVersion[d] + 1, inserts |-> Inserts(d),
                 deletes |-> Deletes(d), keys |-> Keys(d)]]
           /\ at' = [at EXCEPT ![d] = "upload"]
           /\ previousManifest' = [previousManifest EXCEPT ![d] = None]
           /\ UNCHANGED <<pendingDeletes, uploading, remoteOnly, missing, conflict>>
  <2>1. TypeOK'
    BY <1>1, <1>3 DEF TypeOK, serverVars, historyVars
  <2>2. /\ generated'[d].version = manifestVersion[d] + 1
        /\ generated'[d].inserts = Inserts(d) /\ generated'[d].keys = Keys(d)
    BY <1>3 DEF JobsKnowWhatTheyDo
  <2>3. /\ generated'[d].version \in Nat /\ generated'[d].version >= 1
        /\ generated'[d].inserts \subseteq StorageIDs
        /\ generated'[d].keys \subseteq StorageIDs
    BY <2>2, InsertTypes DEF TypeOK
  <2>4. /\ \A e \in Devices \ {d} : /\ at'[e] = at[e] /\ generated'[e] = generated[e]
                                    /\ previousManifest'[e] = previousManifest[e]
        /\ at'[d] = "upload"
    BY <1>3 DEF JobsKnowWhatTheyDo, TypeOK
  <2>5. JobsKnowWhatTheyDo'
    BY <1>1, <1>3, <2>3, <2>4 DEF JobsKnowWhatTheyDo, Syncing, Uploading, serverVars
  <2>6. \A id \in Inserts(d) : id.value = conversation[d][id.conversation].value
    BY DEF Inserts
  <2>7. InFlightMeansSame'
    BY <1>1, <2>2, <2>4, <2>6 DEF InFlightMeansSame, Uploading, historyVars
  <2> QED
    BY <1>1, <2>1, <2>5, <2>7, SameKept DEF historyVars
<1> QED
  BY <1>2, <1>3 DEF Generate, Go

LEMMA AcceptIInv ==
  ASSUME IInv, NEW d \in Devices, Accept(d)
  PROVE  IInv'
<1> USE DEF IInv
<1>1. /\ UNCHANGED <<deviceVars, uploading, previousManifest, remoteOnly, missing,
                     conflict, generated, historyVars>>
      /\ at[d] = "upload" /\ at' = [at EXCEPT ![d] = "accepted"]
      /\ generated[d].version = version + 1 /\ version' = version + 1
      /\ manifest' = generated[d].keys
      /\ stored' = (stored \cup generated[d].inserts) \ generated[d].deletes
  BY DEF Accept, Go
<1>2. manifest' \subseteq StorageIDs /\ stored' \subseteq StorageIDs
  BY <1>1 DEF JobsKnowWhatTheyDo, Uploading, TypeOK
<1>3. version' \in Nat /\ 1..version \subseteq 1..version'
  BY <1>1 DEF TypeOK
<1>4. TypeOK'
  BY <1>1, <1>2, <1>3 DEF TypeOK, deviceVars, historyVars
<1>5. JobsKnowWhatTheyDo'
  <2>1. \A e \in Devices : Uploading(e)' <=> Uploading(e)
    BY <1>1 DEF TypeOK, Uploading
  <2>2. \A e \in Devices : Syncing(e)' <=> Syncing(e)
    BY <1>1 DEF TypeOK, Syncing
  <2>3. \A e \in Devices : at'[e] = "accepted" => at[e] = "accepted" \/ e = d
    BY <1>1 DEF TypeOK
  <2>4. \A e \in Devices : at[e] = "accepted" => generated[e].version <= version'
    BY <1>1 DEF JobsKnowWhatTheyDo, TypeOK, Uploading
  <2> QED
    BY <1>1, <1>3, <2>1, <2>2, <2>3, <2>4 DEF JobsKnowWhatTheyDo, TypeOK
<1>6. InFlightMeansSame'
  BY <1>1, InFlightKept DEF TypeOK, Uploading, deviceVars, historyVars
<1> QED
  BY <1>1, <1>4, <1>5, <1>6, SameKept DEF deviceVars, historyVars

LEMMA UploadedIInv ==
  ASSUME IInv, NEW d \in Devices, Uploaded(d)
  PROVE  IInv'
<1> USE DEF IInv
<1> DEFINE idOf(c) == CHOOSE id \in generated[d].inserts : id.conversation = c
           new == [c \in Conversations |->
                      IF InFlight(d, c)
                      THEN [conversation[d][c] EXCEPT !.needsSync = FALSE,
                                                      !.storageID = idOf(c)]
                      ELSE conversation[d][c]]
<1>1. /\ UNCHANGED <<serverVars, row, historyVars>> /\ EndJob(d) /\ at[d] = "accepted"
      /\ conversation' = [conversation EXCEPT ![d] = new]
      /\ manifestVersion' = [manifestVersion EXCEPT ![d] = generated[d].version]
      /\ pendingDeletes' = [pendingDeletes EXCEPT ![d] = {}]
      /\ wanted' = Tell(d)
  BY DEF Uploaded
<1>2. generated[d].version \in 1..version /\ generated[d].inserts \subseteq StorageIDs
  <2>1. /\ generated[d].version \in Nat /\ generated[d].version >= 1
        /\ generated[d].version <= version
        /\ generated[d].inserts \subseteq StorageIDs
    BY <1>1, Zenon DEF JobsKnowWhatTheyDo, Uploading
  <2>2. version \in Nat
    BY DEF TypeOK
  <2> QED
    BY <2>1, <2>2
<1>3. \A c \in Conversations : InFlight(d, c) =>
          idOf(c) \in generated[d].inserts /\ idOf(c).conversation = c
  BY DEF InFlight
<1>4. \A c \in Conversations : new[c] \in ConversationType
  <2> TAKE c \in Conversations
  <2>1. InFlight(d, c) => idOf(c) \in StorageIDs
    BY <1>2, <1>3
  <2> HIDE DEF idOf
  <2> QED
    BY <2>1, LocalTypes DEF ConversationType
<1>5. \A c \in Conversations : <<d, c>> \notin overtaken \cup forgotten => Same(new[c])
  <2> TAKE c \in Conversations
  <2> HAVE <<d, c>> \notin overtaken \cup forgotten
  <2>1. CASE InFlight(d, c)
    <3> HIDE DEF idOf
    <3>1. idOf(c).value = conversation[d][c].value
      <4>1. \A id \in generated[d].inserts : <<d, id.conversation>> \notin overtaken =>
                id.value = conversation[d][id.conversation].value
        BY <1>1 DEF InFlightMeansSame, Uploading
      <4> QED
        BY <1>3, <2>1, <4>1
    <3>2. new[c] = [conversation[d][c] EXCEPT !.needsSync = FALSE, !.storageID = idOf(c)]
      BY <2>1
    <3>3. conversation[d][c] \in ConversationType
      BY LocalTypes
    <3>4. new[c].value = conversation[d][c].value /\ new[c].storageID = idOf(c)
      BY <3>2, <3>3 DEF ConversationType
    <3> QED
      BY <3>1, <3>4 DEF Same
  <2>2. CASE ~InFlight(d, c)
    BY <2>2 DEF SyncedMeansSame, Same
  <2> QED
    BY <2>1, <2>2
<1>6. new = [c \in Conversations |-> new[c]]
  OBVIOUS
<1> HIDE DEF new
<1>7. new \in [Conversations -> ConversationType]
  BY <1>4, <1>6
<1>8. /\ conversation' \in [Devices -> [Conversations -> ConversationType]]
      /\ conversation'[d] = new
      /\ \A e \in Devices \ {d} : conversation'[e] = conversation[e]
  BY <1>1, <1>7 DEF TypeOK
<1>9. wanted' \in [Devices -> SUBSET {"sync", "upload"}]
  BY <1>1 DEF TypeOK, Tell
<1>10. TypeOK'
  BY <1>1, <1>2, <1>8, <1>9, JobEnds DEF TypeOK, Places, serverVars, historyVars
<1>11. SyncedMeansSame'
  <2> SUFFICES ASSUME NEW e \in Devices, NEW c \in Conversations,
                      <<e, c>> \notin overtaken \cup forgotten
               PROVE  Same(conversation'[e][c])
    BY <1>1 DEF SyncedMeansSame, Same, historyVars
  <2>1. Same(conversation[e][c])
    BY DEF SyncedMeansSame, Same
  <2> QED
    BY <1>5, <1>8, <2>1
<1>12. RowsMeanSame'
  BY <1>1 DEF RowsMeanSame, historyVars
<1>13. JobsKnowWhatTheyDo' /\ InFlightMeansSame'
  BY <1>1, <1>8, EndedJobKnows, EndedJobInFlight DEF serverVars, historyVars
<1> QED
  BY <1>10, <1>11, <1>12, <1>13

LEMMA RefuseIInv ==
  ASSUME IInv, NEW d \in Devices, Refuse(d) \/ UploadFails(d)
  PROVE  IInv'
<1> USE DEF IInv
<1>1. UNCHANGED <<serverVars, conversation, row, manifestVersion, pendingDeletes,
                  unmarked, forgotten, overtaken>> /\ EndJob(d)
  BY DEF Refuse, UploadFails, deviceVars
<1>2. /\ wanted' \in [Devices -> SUBSET {"sync", "upload"}]
      /\ refused' \subseteq Devices /\ hindered' \subseteq Devices
      /\ changes' \in 0..MaxChanges /\ troubles' \in 0..MaxTroubles
  <2>1. CASE Refuse(d)
    BY <2>1 DEF Refuse, Want, TypeOK
  <2>2. CASE UploadFails(d)
    BY <2>2, StorageServiceAssumption DEF UploadFails, Trouble, deviceVars, TypeOK
  <2> QED
    BY <2>1, <2>2
<1>3. TypeOK'
  BY <1>1, <1>2, JobEnds DEF TypeOK, Places, serverVars
<1> QED
  BY <1>1, <1>3, EndedJobKnows, EndedJobInFlight, SameKept DEF serverVars

LEMMA CrashIInv ==
  ASSUME IInv, NEW d \in Devices, CrashAndRestart(d)
  PROVE  IInv'
<1> USE DEF IInv
<1>1. /\ UNCHANGED <<serverVars, manifestVersion, pendingDeletes, overtaken, refused,
                     changes>>
      /\ EndJob(d)
      /\ unmarked' = unmarked \ ({d} \X Conversations)
      /\ conversation' = [conversation EXCEPT ![d] = row'[d]]
      /\ troubles < MaxTroubles /\ troubles' = troubles + 1
      /\ hindered' = hindered \cup {d}
  BY DEF CrashAndRestart, Trouble
<1>2. PICK remaining \in SUBSET (wanted[d] \cap {"sync"}) :
          wanted' = [wanted EXCEPT ![d] = remaining]
  BY DEF CrashAndRestart
<1>3. wanted' \in [Devices -> SUBSET {"sync", "upload"}] /\ troubles' \in 0..MaxTroubles
  BY <1>1, <1>2, StorageServiceAssumption DEF TypeOK
<1>4. /\ row' \in [Devices -> [Conversations -> ConversationType]]
      /\ \A e \in Devices \ {d} : row'[e] = row[e]
      /\ forgotten \subseteq forgotten' /\ forgotten' \subseteq Devices \X Conversations
      /\ \A c \in Conversations :
            \/ row'[d][c] = conversation[d][c]
            \/ /\ row'[d][c] = row[d][c]
               /\ <<d, c>> \in unmarked => <<d, c>> \in forgotten'
  <2>1. PICK written \in SUBSET Conversations :
           /\ row' = [row EXCEPT ![d] = [c \in Conversations |->
                         IF c \in written THEN conversation[d][c] ELSE @[c]]]
           /\ forgotten' =
                 forgotten \cup (unmarked \cap ({d} \X (Conversations \ written)))
    BY DEF CrashAndRestart
  <2> DEFINE new == [c \in Conversations |->
                        IF c \in written THEN conversation[d][c] ELSE row[d][c]]
  <2>2. row' = [row EXCEPT ![d] = new]
    BY <2>1
  <2>3. new \in [Conversations -> ConversationType]
    BY LocalTypes
  <2>4. \A c \in Conversations :
           new[c] = IF c \in written THEN conversation[d][c] ELSE row[d][c]
    OBVIOUS
  <2> HIDE DEF new
  <2>5. row' \in [Devices -> [Conversations -> ConversationType]] /\ row'[d] = new
    BY <2>2, <2>3 DEF TypeOK
  <2>6. \A e \in Devices \ {d} : row'[e] = row[e]
    BY <2>2 DEF TypeOK
  <2>7. \A c \in Conversations \ written :
           <<d, c>> \in unmarked => <<d, c>> \in forgotten'
    BY <2>1
  <2>8. forgotten \subseteq forgotten' /\ forgotten' \subseteq Devices \X Conversations
    BY <2>1 DEF TypeOK
  <2> QED
    BY <2>4, <2>5, <2>6, <2>7, <2>8
<1>5. /\ conversation' \in [Devices -> [Conversations -> ConversationType]]
      /\ conversation'[d] = row'[d]
      /\ \A e \in Devices \ {d} : conversation'[e] = conversation[e]
  BY <1>1, <1>4 DEF TypeOK
<1>6. TypeOK'
  BY <1>1, <1>3, <1>4, <1>5, JobEnds DEF TypeOK, Places, serverVars
<1>7. SyncedMeansSame' /\ RowsMeanSame'
  <2> SUFFICES ASSUME NEW e \in Devices, NEW c \in Conversations,
                      <<e, c>> \notin overtaken \cup forgotten'
               PROVE  /\ Same(conversation'[e][c])
                      /\ <<e, c>> \notin unmarked' => Same(row'[e][c])
    BY <1>1 DEF SyncedMeansSame, RowsMeanSame, Same
  <2>1. <<e, c>> \notin forgotten
    BY <1>4
  <2>2. Same(conversation[e][c]) /\ (<<e, c>> \notin unmarked => Same(row[e][c]))
    BY <2>1 DEF SyncedMeansSame, RowsMeanSame, Same
  <2>3. CASE e = d
    BY <1>4, <1>5, <2>2, <2>3
  <2>4. CASE e # d
    BY <1>1, <1>4, <1>5, <2>2, <2>4
  <2> QED
    BY <2>3, <2>4
<1> QED
  BY <1>1, <1>5, <1>6, <1>7, EndedJobKnows, EndedJobInFlight DEF serverVars

LEMMA NextIInv ==
  ASSUME IInv, [Next]_vars
  PROVE  IInv'
<1>1. CASE UNCHANGED vars
  <2>1. TypeOK' /\ JobsKnowWhatTheyDo'
    BY <1>1 DEF IInv, TypeOK, JobsKnowWhatTheyDo, Syncing, Uploading, vars, serverVars,
       deviceVars, jobVars, historyVars
  <2>2. SyncedMeansSame' /\ RowsMeanSame' /\ InFlightMeansSame'
    BY <1>1 DEF IInv, SyncedMeansSame, RowsMeanSame, Same, InFlightMeansSame, Uploading,
       vars, serverVars, deviceVars, jobVars, historyVars
  <2> QED
    BY <2>1, <2>2 DEF IInv
<1>2. CASE Next
  <2>1. ASSUME NEW d \in Devices, DeviceStep(d) PROVE IInv'
    BY <2>1, StartJobIInv, FetchRecordsIInv, MergeDoneIInv, SyncDoneIInv, GenerateIInv,
       AcceptIInv, UploadedIInv, RefuseIInv DEF DeviceStep
  <2>2. ASSUME NEW d \in Devices, NEW c \in Conversations, Change(d, c) PROVE IInv'
    BY <2>2, ChangeIInv
  <2>3. ASSUME NEW d \in Devices,
               \/ \E job \in {"sync", "upload"} : ManifestFails(d, job)
               \/ RecordsFail(d) \/ UploadFails(d) \/ CrashAndRestart(d)
        PROVE  IInv'
    BY <2>3, ManifestFailsIInv, RecordsFailIInv, RefuseIInv, CrashIInv
  <2> QED
    BY <1>2, <2>1, <2>2, <2>3 DEF Next
<1> QED
  BY <1>1, <1>2

LEMMA Invariance == Spec => []IInv
  BY InitIInv, NextIInv, PTL DEF Spec

(* Every reachable state is well typed: in particular no device believes in a   *)
(* manifest that is newer than the server's.                                    *)
THEOREM TypeCorrect == Spec => []TypeOK
<1>1. IInv => TypeOK
  BY DEF IInv
<1> QED
  BY <1>1, Invariance, PTL

(* Whatever is changed, uploaded, merged, refused or lost, on however many      *)
(* devices: a conversation with a record and without a mark for the next upload *)
(* is as that record says, unless it was changed while it was being uploaded or *)
(* a crash brought back a row that was saved without its mark.                  *)
THEOREM NoSilentDifference == Spec => []SyncedMeansSame
<1>1. IInv => SyncedMeansSame
  BY DEF IInv
<1> QED
  BY <1>1, Invariance, PTL

-----------------------------------------------------------------------------
(* The manifest on the server, and what each device knows of it               *)
(*                                                                            *)
(* A write is accepted only from a device at the version of the server, and   *)
(* such a device knows the manifest: the storage ID of each conversation is   *)
(* in it, or that conversation gets a new one with the write (LocalsFit).     *)
(* That nothing it deletes or makes up is in use follows from the version in  *)
(* each storage ID.  A conversation has lost its storage ID only if the       *)
(* device is behind (NoneIsBehind).                                           *)

\* A list of records, one for each conversation
OneEach(ids) ==
    /\ \A c \in Conversations : \E id \in ids : id.conversation = c
    /\ \A id, other \in ids : id.conversation = other.conversation => id = other

ServerInv ==
    /\ manifest \subseteq stored
    /\ OneEach(manifest)
    /\ \A id \in stored : id.version <= version

IsOf(local, c) ==
    local.storageID # None =>
        local.storageID.conversation = c /\ local.storageID.version <= version
IDsAreKnown(d) ==
    /\ \A c \in Conversations : IsOf(conversation[d][c], c) /\ IsOf(row[d][c], c)
    /\ \A id \in pendingDeletes[d] \cup missing[d] :
          id.version <= version /\ id \notin stored

\* A sync knows a manifest newer than its own, and which of its records it lacks.
Fetched(d) == previousManifest[d].keys
FetchedIsNewer(d) ==
    /\ Syncing(d) =>
          /\ manifestVersion[d] < previousManifest[d].version
          /\ OneEach(Fetched(d))
          /\ \A id \in Fetched(d) : id.version <= previousManifest[d].version
          /\ previousManifest[d].version = version => Fetched(d) = manifest
    /\ at[d] = "fetchRecords" => remoteOnly[d] = Fetched(d) \ LocalIDs(d)
    /\ at[d] = "merge" => missing[d] = Fetched(d) \ LocalIDs(d)
    /\ at[d] \in {"merge", "merged"} /\ previousManifest[d].version = version =>
          Fetched(d) \subseteq LocalIDs(d)
    /\ at[d] = "idle" \/ Uploading(d) => previousManifest[d] = None

Fits(local) == isNewItem(local) \/ local.storageID \in manifest
LocalsFit(d) ==
    manifestVersion[d] = version =>
        \A c \in Conversations :
            Fits(conversation[d][c]) /\ (Fits(row[d][c]) \/ <<d, c>> \in unmarked)
NoneIsBehind(d) ==
    \A c \in Conversations :
        \/ conversation[d][c].storageID = None
        \/ row[d][c].storageID = None /\ <<d, c>> \notin unmarked
        => manifestVersion[d] < version

\* A row that is not as the conversation is will be uploaded after a crash, unless it was
\* saved without its mark.
Follows(saved, local) ==
    \/ local.storageID = None
    \/ saved.storageID # None /\ (saved.needsSync \/ saved.storageID = local.storageID)
RowsFollow(d) ==
    \A c \in Conversations :
        /\ conversation[d][c].needsSync => row[d][c].needsSync \/ <<d, c>> \in unmarked
        /\ \/ Follows(row[d][c], conversation[d][c]) \/ <<d, c>> \in unmarked
           \/ at[d] = "merge" /\ c \in MergedConversations(d)

AllHaveIDs(d) == \A c \in Conversations : conversation[d][c].storageID # None

\* What is listed by a write that is accepted
ListsEach(d) ==
    /\ OneEach(generated[d].keys)
    /\ generated[d].inserts \subseteq generated[d].keys
    /\ generated[d].keys \cap generated[d].deletes = {}
    /\ \A c \in Conversations :
          \/ InFlight(d, c)
          \/ conversation[d][c].needsSync
          \/ conversation[d][c].storageID \in generated[d].keys
UploadFits(d) ==
    Uploading(d) =>
        /\ generated[d].version = manifestVersion[d] + 1
        /\ \A id \in generated[d].inserts :
              /\ id.version = generated[d].version
              /\ \/ row[d][id.conversation].needsSync
                 \/ <<d, id.conversation>> \in unmarked
                 \/ conversation[d][id.conversation].storageID = None
        /\ at[d] = "upload" /\ generated[d].version = version + 1 =>
              ListsEach(d) /\ generated[d].keys \subseteq stored \cup generated[d].inserts
        /\ at[d] = "accepted" => ListsEach(d) /\ AllHaveIDs(d)
        /\ at[d] = "accepted" /\ generated[d].version = version =>
              manifest = generated[d].keys

\* Unless something failed: what is to be deleted are the records that the server did
\* not return, and their conversations have lost their storage IDs.
DeletesAreMissing(d) ==
    d \notin hindered =>
        /\ at[d] \notin {"merge", "merged"} => pendingDeletes[d] = {} \/ ~AllHaveIDs(d)
        /\ at[d] = "merged" => pendingDeletes[d] = Fetched(d) \ LocalIDs(d)
        /\ at[d] = "generate" /\ previousManifest[d] # None =>
              /\ pendingDeletes[d] = Fetched(d) \ LocalIDs(d)
              /\ LocalIDs(d) \subseteq Fetched(d)
              /\ manifestVersion[d] = previousManifest[d].version
              /\ \A id \in Fetched(d) : id.version <= previousManifest[d].version

DeviceInv(d) ==
    /\ IDsAreKnown(d) /\ FetchedIsNewer(d) /\ LocalsFit(d) /\ NoneIsBehind(d)
    /\ RowsFollow(d) /\ UploadFits(d) /\ DeletesAreMissing(d)

MInv == ServerInv /\ \A d \in Devices : DeviceInv(d)


-----------------------------------------------------------------------------

\* The storage ID that a device has for a conversation says which one it is.
LEMMA LocalOf ==
  ASSUME NEW d \in Devices, IDsAreKnown(d), NEW id \in LocalIDs(d), TypeOK
  PROVE  /\ id \in StorageIDs /\ id.conversation \in Conversations
         /\ id.version <= version
         /\ conversation[d][id.conversation].storageID = id
<1>1. PICK c \in Conversations : id = conversation[d][c].storageID /\ id # None
  BY DEF LocalIDs
<1>2. id \in StorageIDs /\ id.conversation = c /\ id.version <= version
  BY <1>1, LocalTypes DEF IDsAreKnown, IsOf
<1> QED
  BY <1>1, <1>2

LEMMA LocalIsID ==
  ASSUME NEW d \in Devices, NEW c \in Conversations, conversation[d][c].storageID # None
  PROVE  conversation[d][c].storageID \in LocalIDs(d)
  BY DEF LocalIDs

\* A device that has the IDs of a list for all conversations has no others.
LEMMA AllListed ==
  ASSUME NEW d \in Devices, IDsAreKnown(d), TypeOK, NEW ids \in SUBSET StorageIDs,
         OneEach(ids), ids \subseteq LocalIDs(d), NEW c \in Conversations
  PROVE  conversation[d][c].storageID # None /\ conversation[d][c].storageID \in ids
<1>1. PICK id \in ids : id.conversation = c
  BY DEF OneEach
<1>2. conversation[d][c].storageID = id
  BY <1>1, LocalOf
<1>3. id # None
  BY NoneAssumption
<1> QED
  BY <1>1, <1>2, <1>3

\* What concerns a device depends on its own state and on the server.
SameAt(d) ==
    /\ conversation'[d] = conversation[d] /\ row'[d] = row[d]
    /\ manifestVersion'[d] = manifestVersion[d] /\ pendingDeletes'[d] = pendingDeletes[d]
    /\ at'[d] = at[d] /\ previousManifest'[d] = previousManifest[d]
    /\ remoteOnly'[d] = remoteOnly[d] /\ missing'[d] = missing[d]
    /\ generated'[d] = generated[d] /\ (d \in hindered' <=> d \in hindered)
    /\ \A c : <<d, c>> \in unmarked' <=> <<d, c>> \in unmarked

LEMMA SameInv ==
  ASSUME NEW d \in Devices, DeviceInv(d), SameAt(d), UNCHANGED serverVars
  PROVE  DeviceInv(d)'
<1>1. LocalIDs(d)' = LocalIDs(d)
  BY DEF SameAt, LocalIDs
<1>2. IDsAreKnown(d)'
  BY DEF DeviceInv, SameAt, IDsAreKnown, IsOf, serverVars
<1>3. FetchedIsNewer(d)'
  BY <1>1 DEF DeviceInv, SameAt, FetchedIsNewer, Fetched, Syncing, Uploading, serverVars
<1>4. LocalsFit(d)' /\ NoneIsBehind(d)'
  BY DEF DeviceInv, SameAt, LocalsFit, NoneIsBehind, Fits, isNewItem, serverVars
<1>5. RowsFollow(d)'
  BY DEF DeviceInv, SameAt, RowsFollow, Follows, MergedConversations
<1>6. UploadFits(d)'
  BY DEF DeviceInv, SameAt, UploadFits, ListsEach, InFlight, AllHaveIDs, Uploading, serverVars
<1>7. DeletesAreMissing(d)'
  BY <1>1 DEF DeviceInv, SameAt, DeletesAreMissing, AllHaveIDs, Fetched
<1> QED
  BY <1>2, <1>3, <1>4, <1>5, <1>6, <1>7 DEF DeviceInv

LEMMA StepOf ==
  ASSUME MInv, NEW d \in Devices, UNCHANGED serverVars, DeviceInv(d)',
         \A e \in Devices \ {d} : SameAt(e)
  PROVE  MInv'
<1>1. ServerInv'
  BY DEF MInv, ServerInv, serverVars
<1>2. \A e \in Devices : DeviceInv(e)'
  BY SameInv DEF MInv
<1> QED
  BY <1>1, <1>2 DEF MInv
\* A job ends and leaves the device as it is.
LEMMA EndedJob ==
  ASSUME TypeOK, JobsKnowWhatTheyDo, NEW d \in Devices, EndJob(d)
  PROVE  /\ at'[d] = "idle" /\ previousManifest'[d] = None /\ missing'[d] = {}
         /\ \A e \in Devices \ {d} :
               /\ at'[e] = at[e] /\ previousManifest'[e] = previousManifest[e]
               /\ remoteOnly'[e] = remoteOnly[e] /\ missing'[e] = missing[e]
               /\ generated'[e] = generated[e]
  BY DEF EndJob, Go, TypeOK, JobsKnowWhatTheyDo

LEMMA EndedInv ==
  ASSUME IInv, MInv, NEW d \in Devices, EndJob(d),
         UNCHANGED <<serverVars, conversation, row, manifestVersion, unmarked>>,
         pendingDeletes' = pendingDeletes \/ pendingDeletes' = [pendingDeletes EXCEPT ![d] = {}],
         hindered' = hindered \/ hindered' = hindered \cup {d},
         at[d] \notin {"merge", "merged"}
  PROVE  MInv'
<1> USE DEF IInv
<1>1. DeviceInv(d)
  BY DEF MInv
<1>2. /\ at'[d] = "idle" /\ previousManifest'[d] = None /\ missing'[d] = {}
      /\ pendingDeletes'[d] \in {pendingDeletes[d], {}}
  BY EndedJob DEF TypeOK
<1>3. \A e \in Devices \ {d} : SameAt(e)
  BY EndedJob DEF SameAt, TypeOK
<1>4. IDsAreKnown(d)'
  BY <1>1, <1>2 DEF DeviceInv, IDsAreKnown, IsOf, serverVars
<1>5. FetchedIsNewer(d)' /\ UploadFits(d)'
  BY <1>2 DEF FetchedIsNewer, UploadFits, Syncing, Uploading
<1>6. LocalsFit(d)' /\ NoneIsBehind(d)'
  BY <1>1 DEF DeviceInv, LocalsFit, NoneIsBehind, Fits, isNewItem, serverVars
<1>7. RowsFollow(d)'
  BY <1>1 DEF DeviceInv, RowsFollow, Follows
<1>8. DeletesAreMissing(d)'
  BY <1>1, <1>2 DEF DeviceInv, DeletesAreMissing, AllHaveIDs
<1>9. DeviceInv(d)'
  BY <1>4, <1>5, <1>6, <1>7, <1>8 DEF DeviceInv
<1> QED
  BY <1>3, <1>9, StepOf

LEMMA ChangeMInv ==
  ASSUME IInv, MInv, NEW d \in Devices, NEW c \in Conversations, Change(d, c)
  PROVE  MInv'
<1> USE DEF IInv
<1>1. DeviceInv(d)
  BY DEF MInv
<1> DEFINE new == [conversation[d][c] EXCEPT !.value = changes + 1, !.needsSync = TRUE]
<1>2. /\ UNCHANGED <<serverVars, manifestVersion, pendingDeletes, jobVars, hindered>>
      /\ conversation' = [conversation EXCEPT ![d] = [@ EXCEPT ![c] = new]]
  <2>1. UNCHANGED <<serverVars, manifestVersion, pendingDeletes, jobVars, hindered>>
    BY DEF Change
  <2>2. conversation' = [conversation EXCEPT ![d] = [@ EXCEPT ![c] = new]]
    BY ChangedConversation
  <2> QED
    BY <2>1, <2>2
<1>3. /\ new.needsSync = TRUE /\ new.storageID = conversation[d][c].storageID
      /\ [new EXCEPT !.needsSync = FALSE].storageID = conversation[d][c].storageID
  BY LocalTypes DEF ConversationType
<1> HIDE DEF new
<1>4. conversation'[d][c] = new
  BY <1>2 DEF TypeOK
<1>5. PICK saved \in {new, [new EXCEPT !.needsSync = FALSE]} :
          /\ row' = [row EXCEPT ![d][c] = saved]
          /\ \/ unmarked' = unmarked \cup {<<d, c>>}
             \/ unmarked' = unmarked \ {<<d, c>>} /\ saved = new
  BY <1>4 DEF Change
<1>6. /\ conversation'[d][c] = new /\ row'[d][c] = saved
      /\ <<d, c>> \in unmarked' \/ row'[d][c] = new
      /\ conversation'[d][c].needsSync = TRUE
      /\ row'[d][c].storageID = conversation[d][c].storageID
      /\ conversation'[d][c].storageID = conversation[d][c].storageID
      /\ \A b \in Conversations \ {c} :
            /\ conversation'[d][b] = conversation[d][b] /\ row'[d][b] = row[d][b]
            /\ <<d, b>> \in unmarked' <=> <<d, b>> \in unmarked
  BY <1>2, <1>3, <1>4, <1>5 DEF TypeOK
<1>7. \A e \in Devices \ {d} : SameAt(e)
  BY <1>2, <1>5 DEF SameAt, TypeOK, jobVars
<1>8. \A b \in Conversations :
         /\ conversation'[d][b].storageID = conversation[d][b].storageID
         /\ conversation[d][b].needsSync => conversation'[d][b].needsSync
         /\ row'[d][b].storageID = row[d][b].storageID
            \/ row'[d][b].storageID = conversation[d][b].storageID
         /\ \/ /\ row'[d][b] = row[d][b] /\ conversation'[d][b] = conversation[d][b]
               /\ <<d, b>> \in unmarked' <=> <<d, b>> \in unmarked
            \/ row'[d][b] = conversation'[d][b] /\ row'[d][b].needsSync
            \/ <<d, b>> \in unmarked'
  BY <1>6, Zenon
<1>9. LocalIDs(d)' = LocalIDs(d) /\ AllHaveIDs(d)' = AllHaveIDs(d)
  BY <1>8 DEF LocalIDs, AllHaveIDs
<1>10. IDsAreKnown(d)'
  BY <1>1, <1>2, <1>8 DEF DeviceInv, IDsAreKnown, IsOf, serverVars, jobVars
<1>11. FetchedIsNewer(d)'
  BY <1>1, <1>2, <1>9 DEF DeviceInv, FetchedIsNewer, Fetched, Syncing, Uploading, serverVars,
     jobVars
<1>12. LocalsFit(d)' /\ NoneIsBehind(d)'
  BY <1>1, <1>2, <1>8 DEF DeviceInv, LocalsFit, NoneIsBehind, Fits, isNewItem, serverVars
<1>13. RowsFollow(d)'
  <2>1. MergedConversations(d)' = MergedConversations(d)
    BY <1>2, <1>8 DEF MergedConversations, jobVars
  <2> QED
    BY <1>1, <1>2, <1>8, <2>1 DEF DeviceInv, RowsFollow, Follows, jobVars
<1>14. UploadFits(d)'
  <2>1. \A b \in Conversations : InFlight(d, b)' <=> InFlight(d, b)
    BY <1>2 DEF InFlight, jobVars
  <2>2. ListsEach(d) => ListsEach(d)'
    BY <1>2, <1>8, <2>1 DEF ListsEach, jobVars
  <2>3. Uploading(d) => \A id \in generated[d].inserts : id.conversation \in Conversations
    BY IDFields DEF JobsKnowWhatTheyDo
  <2> QED
    BY <1>1, <1>2, <1>8, <1>9, <2>2, <2>3 DEF DeviceInv, UploadFits, Uploading, serverVars,
       jobVars
<1>15. DeletesAreMissing(d)'
  BY <1>1, <1>2, <1>9 DEF DeviceInv, DeletesAreMissing, Fetched, jobVars
<1>16. DeviceInv(d)'
  BY <1>10, <1>11, <1>12, <1>13, <1>14, <1>15 DEF DeviceInv
<1> QED
  BY <1>2, <1>7, <1>16, StepOf

\* A job that begins has nothing to sync: it ends, or goes on to an upload.
LEMMA NothingToSyncInv ==
  ASSUME IInv, MInv, NEW d \in Devices, at[d] = "idle",
         at' = [at EXCEPT ![d] = "generate"] \/ at' = at,
         UNCHANGED <<serverVars, conversation, row, manifestVersion, pendingDeletes,
                     previousManifest, remoteOnly, missing, generated, unmarked>>,
         hindered' = hindered \/ hindered' = hindered \cup {d}
  PROVE  MInv'
<1> USE DEF IInv
<1>1. DeviceInv(d) /\ previousManifest[d] = None
  BY DEF MInv, DeviceInv, FetchedIsNewer
<1>2. at'[d] \in {"idle", "generate"} /\ \A e \in Devices \ {d} : at'[e] = at[e]
  BY DEF TypeOK
<1>3. \A e \in Devices \ {d} : SameAt(e)
  BY <1>2 DEF SameAt, TypeOK
<1>4. IDsAreKnown(d)'
  BY <1>1 DEF DeviceInv, IDsAreKnown, IsOf, serverVars
<1>5. FetchedIsNewer(d)' /\ UploadFits(d)'
  BY <1>1, <1>2 DEF FetchedIsNewer, UploadFits, Syncing, Uploading
<1>6. LocalsFit(d)' /\ NoneIsBehind(d)'
  BY <1>1 DEF DeviceInv, LocalsFit, NoneIsBehind, Fits, isNewItem, serverVars
<1>7. RowsFollow(d)'
  BY <1>1, <1>2 DEF DeviceInv, RowsFollow, Follows
<1>8. DeletesAreMissing(d)'
  BY <1>1, <1>2 DEF DeviceInv, DeletesAreMissing, AllHaveIDs
<1>9. DeviceInv(d)'
  BY <1>4, <1>5, <1>6, <1>7, <1>8 DEF DeviceInv
<1> QED
  BY <1>3, <1>9, StepOf

LEMMA StartJobMInv ==
  ASSUME IInv, MInv, NEW d \in Devices, NEW job \in {"sync", "upload"}, StartJob(d, job)
  PROVE  MInv'
<1> USE DEF IInv
<1>1. /\ UNCHANGED <<serverVars, conversation, row, manifestVersion, pendingDeletes,
                     missing, generated, hindered, unmarked>>
      /\ at[d] = "idle"
  BY DEF StartJob, historyVars
<1>2. CASE ~(version > manifestVersion[d])
  <2>1. /\ UNCHANGED <<previousManifest, remoteOnly>>
        /\ at' = [at EXCEPT ![d] = IF job = "upload" THEN "generate" ELSE "idle"]
    BY <1>2 DEF StartJob, NothingToSync, Go
  <2>2. at' = [at EXCEPT ![d] = "generate"] \/ at' = at
    BY <1>1, <2>1 DEF TypeOK
  <2> QED
    BY <1>1, <2>1, <2>2, NothingToSyncInv
<1>3. CASE version > manifestVersion[d]
  <2>1. /\ previousManifest' =
               [previousManifest EXCEPT ![d] = [version |-> version, keys |-> manifest]]
        /\ remoteOnly' = [remoteOnly EXCEPT ![d] = manifest \ LocalIDs(d)]
        /\ at' = [at EXCEPT ![d] = IF manifest \subseteq LocalIDs(d) THEN "merged"
                                   ELSE "fetchRecords"]
    BY <1>3 DEF StartJob, Go
  <2>2. DeviceInv(d) /\ ServerInv /\ manifest \subseteq StorageIDs
    BY DEF MInv, TypeOK
  <2>3. /\ previousManifest'[d].version = version /\ Fetched(d)' = manifest
        /\ remoteOnly'[d] = manifest \ LocalIDs(d)
        /\ at'[d] \in {"merged", "fetchRecords"}
        /\ at'[d] = "merged" => manifest \subseteq LocalIDs(d)
        /\ LocalIDs(d)' = LocalIDs(d) /\ AllHaveIDs(d)' = AllHaveIDs(d)
    BY <1>1, <2>1 DEF TypeOK, JobsKnowWhatTheyDo, Fetched, LocalIDs, AllHaveIDs
  <2>4. \A e \in Devices \ {d} : SameAt(e)
    BY <1>1, <2>1 DEF SameAt, TypeOK, JobsKnowWhatTheyDo
  <2>5. IDsAreKnown(d)'
    BY <1>1, <2>2 DEF DeviceInv, IDsAreKnown, IsOf, serverVars
  <2>6. FetchedIsNewer(d)' /\ UploadFits(d)'
    BY <1>1, <1>3, <2>2, <2>3 DEF ServerInv, FetchedIsNewer, UploadFits, Syncing, Uploading,
       OneEach, serverVars, TypeOK
  <2>7. LocalsFit(d)' /\ NoneIsBehind(d)'
    BY <1>1, <2>2 DEF DeviceInv, LocalsFit, NoneIsBehind, Fits, isNewItem, serverVars
  <2>8. RowsFollow(d)'
    BY <1>1, <2>2 DEF DeviceInv, RowsFollow, Follows
  <2>9. at'[d] = "merged" => AllHaveIDs(d)
    BY <2>2, <2>3, AllListed DEF DeviceInv, ServerInv, AllHaveIDs
  <2>10. DeletesAreMissing(d)'
    BY <1>1, <2>2, <2>3, <2>9 DEF DeviceInv, DeletesAreMissing
  <2>11. DeviceInv(d)'
    BY <2>5, <2>6, <2>7, <2>8, <2>10 DEF DeviceInv
  <2> QED
    BY <1>1, <2>4, <2>11, StepOf
<1> QED
  BY <1>2, <1>3

LEMMA ManifestFailsMInv ==
  ASSUME IInv, MInv, NEW d \in Devices, NEW job \in {"sync", "upload"},
         ManifestFails(d, job)
  PROVE  MInv'
<1>1. /\ UNCHANGED <<serverVars, conversation, row, manifestVersion, pendingDeletes,
                     previousManifest, remoteOnly, missing, generated, unmarked>>
      /\ at[d] = "idle" /\ hindered' = hindered \cup {d}
      /\ at' = [at EXCEPT ![d] = IF job = "upload" THEN "generate" ELSE "idle"]
  BY DEF ManifestFails, NothingToSync, Go, Trouble
<1>2. at' = [at EXCEPT ![d] = "generate"] \/ at' = at
  BY <1>1 DEF IInv, TypeOK
<1> QED
  BY <1>1, <1>2, NothingToSyncInv

LEMMA RecordsFailMInv ==
  ASSUME IInv, MInv, NEW d \in Devices, RecordsFail(d)
  PROVE  MInv'
<1> USE DEF IInv
<1>1. /\ UNCHANGED <<serverVars, conversation, row, manifestVersion, pendingDeletes,
                     unmarked>>
      /\ at[d] = "fetchRecords" /\ hindered' = hindered \cup {d}
  BY DEF RecordsFail, Trouble, deviceVars
<1>2. CASE EndJob(d)
  BY <1>1, <1>2, EndedInv
<1>3. CASE /\ at' = [at EXCEPT ![d] = "generate"]
           /\ remoteOnly' = [remoteOnly EXCEPT ![d] = {}]
           /\ UNCHANGED <<previousManifest, missing, generated>>
  <2>1. DeviceInv(d)
    BY DEF MInv
  <2>2. at'[d] = "generate" /\ d \in hindered'
    BY <1>1, <1>3 DEF TypeOK
  <2>3. \A e \in Devices \ {d} : SameAt(e)
    BY <1>1, <1>3 DEF SameAt, TypeOK
  <2>4. IDsAreKnown(d)'
    BY <1>1, <1>3, <2>1 DEF DeviceInv, IDsAreKnown, IsOf, serverVars
  <2>5. FetchedIsNewer(d)' /\ UploadFits(d)' /\ DeletesAreMissing(d)'
    BY <2>2 DEF FetchedIsNewer, UploadFits, DeletesAreMissing, Syncing, Uploading
  <2>6. LocalsFit(d)' /\ NoneIsBehind(d)'
    BY <1>1, <2>1 DEF DeviceInv, LocalsFit, NoneIsBehind, Fits, isNewItem, serverVars
  <2>7. RowsFollow(d)'
    BY <1>1, <2>1 DEF DeviceInv, RowsFollow, Follows
  <2>8. DeviceInv(d)'
    BY <2>4, <2>5, <2>6, <2>7 DEF DeviceInv
  <2> QED
    BY <1>1, <2>3, <2>8, StepOf
<1> QED
  BY <1>2, <1>3 DEF RecordsFail, Go

LEMMA FetchRecordsMInv ==
  ASSUME IInv, MInv, NEW d \in Devices, FetchRecords(d)
  PROVE  MInv'
<1> USE DEF IInv
<1>1. /\ UNCHANGED <<serverVars, row, manifestVersion, pendingDeletes, previousManifest,
                     remoteOnly, generated, hindered, unmarked>>
      /\ at[d] = "fetchRecords" /\ at' = [at EXCEPT ![d] = "merge"]
      /\ missing' = [missing EXCEPT ![d] = remoteOnly[d] \ stored]
  BY DEF FetchRecords, Go, historyVars
<1>2. PICK differs \in SUBSET {id.conversation : id \in remoteOnly[d] \cap stored},
           last \in [Conversations -> (remoteOnly[d] \cap stored) \cup {None}] :
        /\ \A c \in Conversations :
              IF {id \in remoteOnly[d] \cap stored : id.conversation = c} = {}
              THEN last[c] = None
              ELSE last[c] \in {id \in remoteOnly[d] \cap stored : id.conversation = c}
        /\ conversation' = [conversation EXCEPT ![d] = [c \in Conversations |->
                IF last[c] = None THEN @[c] ELSE Merged(@[c], last[c], c \in differs)]]
  BY DEF FetchRecords
<1>3. DeviceInv(d) /\ ServerInv
  BY DEF MInv
<1>4. /\ manifestVersion[d] < previousManifest[d].version
      /\ previousManifest[d].version \in 1 .. version /\ version \in Nat
      /\ manifestVersion[d] \in Nat
      /\ Fetched(d) \subseteq StorageIDs /\ OneEach(Fetched(d))
      /\ remoteOnly[d] = Fetched(d) \ LocalIDs(d)
      /\ \A id \in Fetched(d) : id.version <= version
      /\ previousManifest[d].version = version => Fetched(d) \subseteq stored
  BY <1>1, <1>3 DEF DeviceInv, FetchedIsNewer, JobsKnowWhatTheyDo, Syncing, Fetched, ServerInv,
     TypeOK, StorageIDs
\* What a conversation has afterwards
<1>5. \A c \in Conversations :
         \/ /\ conversation'[d][c] = conversation[d][c]
            /\ \A id \in remoteOnly[d] \cap stored : id.conversation # c
         \/ /\ conversation'[d][c].storageID \in remoteOnly[d] \cap stored
            /\ conversation'[d][c].storageID.conversation = c
            /\ conversation'[d][c].needsSync => conversation[d][c].needsSync
  <2> SUFFICES ASSUME NEW c \in Conversations
               PROVE  \/ /\ conversation'[d][c] = conversation[d][c]
                         /\ \A id \in remoteOnly[d] \cap stored : id.conversation # c
                      \/ /\ conversation'[d][c].storageID \in remoteOnly[d] \cap stored
                         /\ conversation'[d][c].storageID.conversation = c
                         /\ conversation'[d][c].needsSync => conversation[d][c].needsSync
    OBVIOUS
  <2>1. CASE {id \in remoteOnly[d] \cap stored : id.conversation = c} = {}
    BY <1>2, <2>1 DEF TypeOK
  <2>2. CASE {id \in remoteOnly[d] \cap stored : id.conversation = c} # {}
    <3>1. last[c] \in remoteOnly[d] \cap stored /\ last[c].conversation = c
      BY <1>2, <2>2
    <3>2. last[c] # None
      BY <3>1, NoneAssumption DEF TypeOK
    <3>3. conversation'[d][c] = Merged(conversation[d][c], last[c], c \in differs)
      BY <1>2, <3>2 DEF TypeOK
    <3>4. conversation'[d][c] =
             [value |-> last[c].value, storageID |-> last[c],
              needsSync |-> conversation[d][c].needsSync /\ c \in differs]
      BY <3>3 DEF Merged
    <3>5. /\ conversation'[d][c].needsSync =
                (conversation[d][c].needsSync /\ c \in differs)
          /\ conversation'[d][c].storageID = last[c]
      BY <3>4
    <3>6. conversation'[d][c].needsSync => conversation[d][c].needsSync
      BY <3>5, Zenon
    <3> QED
      BY <3>1, <3>5, <3>6
  <2> QED
    BY <2>1, <2>2
<1>6. \A e \in Devices \ {d} : SameAt(e)
  BY <1>1, <1>2 DEF SameAt, TypeOK
<1>7. /\ at'[d] = "merge" /\ missing'[d] = remoteOnly[d] \ stored
      /\ Fetched(d)' = Fetched(d)
  BY <1>1 DEF TypeOK, Fetched
<1>8. IDsAreKnown(d)'
  <2>1. \A c \in Conversations : IsOf(conversation[d][c], c)' /\ IsOf(row[d][c], c)'
    BY <1>1, <1>3, <1>4, <1>5 DEF DeviceInv, IDsAreKnown, IsOf, serverVars
  <2>2. \A id \in missing'[d] : id.version <= version /\ id \notin stored
    BY <1>4, <1>7
  <2> QED
    BY <1>1, <1>3, <2>1, <2>2 DEF DeviceInv, IDsAreKnown, serverVars
<1>9. missing'[d] = Fetched(d) \ LocalIDs(d)'
  <2>1. ASSUME NEW id \in remoteOnly[d] \ stored PROVE id \in Fetched(d) \ LocalIDs(d)'
    <3>1. \A c \in Conversations : conversation[d][c].storageID = id => id = None
      BY <1>4, <2>1 DEF LocalIDs
    <3>2. \A c \in Conversations : conversation'[d][c].storageID = id => id = None
      BY <1>5, <2>1, <3>1
    <3> QED
      BY <1>4, <2>1, <3>2 DEF LocalIDs
  <2>2. ASSUME NEW id \in Fetched(d) \ LocalIDs(d)' PROVE id \in remoteOnly[d] \ stored
    <3>1. PICK c \in Conversations : id.conversation = c
      BY <1>4, IDFields
    <3>2. id # None
      BY <1>4, NoneAssumption
    <3>3. conversation'[d][c].storageID # id
      BY <2>2, <3>2 DEF LocalIDs
    <3>4. CASE conversation'[d][c].storageID \in remoteOnly[d] \cap stored
                 /\ conversation'[d][c].storageID.conversation = c
      BY <1>4, <2>2, <3>1, <3>3, <3>4 DEF OneEach
    <3>5. CASE conversation'[d][c] = conversation[d][c]
                 /\ \A o \in remoteOnly[d] \cap stored : o.conversation # c
      <4>1. id \notin LocalIDs(d)
        BY <1>3, <3>1, <3>3, <3>5, LocalOf DEF DeviceInv
      <4> QED
        BY <1>4, <2>2, <3>1, <3>5, <4>1
    <3> QED
      BY <1>5, <3>4, <3>5
  <2> QED
    BY <1>7, <2>1, <2>2
<1>10. FetchedIsNewer(d)'
  <2>1. previousManifest[d].version = version => Fetched(d) \subseteq LocalIDs(d)'
    BY <1>4, <1>7, <1>9
  <2> QED
    BY <1>1, <1>3, <1>7, <1>9, <2>1 DEF DeviceInv, FetchedIsNewer, Syncing, Uploading,
       serverVars
<1>11. LocalsFit(d)' /\ NoneIsBehind(d)'
  BY <1>1, <1>4 DEF LocalsFit, NoneIsBehind, serverVars
<1>12. RowsFollow(d)'
  BY <1>1, <1>3, <1>5, <1>7 DEF DeviceInv, RowsFollow, MergedConversations
<1>13. UploadFits(d)' /\ DeletesAreMissing(d)'
  BY <1>7 DEF UploadFits, DeletesAreMissing, Uploading
<1>14. DeviceInv(d)'
  BY <1>8, <1>10, <1>11, <1>12, <1>13 DEF DeviceInv
<1> QED
  BY <1>1, <1>6, <1>14, StepOf

LEMMA MergeDoneMInv ==
  ASSUME IInv, MInv, NEW d \in Devices, MergeDone(d)
  PROVE  MInv'
<1> USE DEF IInv
<1>1. /\ UNCHANGED <<serverVars, conversation, manifestVersion, previousManifest, missing,
                     generated, hindered>>
      /\ at[d] = "merge" /\ at' = [at EXCEPT ![d] = "merged"]
      /\ row' = [row EXCEPT ![d] = [c \in Conversations |->
             IF c \in MergedConversations(d) THEN conversation[d][c] ELSE @[c]]]
      /\ unmarked' = unmarked \ ({d} \X MergedConversations(d))
      /\ pendingDeletes' = [pendingDeletes EXCEPT ![d] = missing[d]]
      /\ remoteOnly' = [remoteOnly EXCEPT ![d] = {}]
  BY DEF MergeDone, KeysToDelete, Go
<1>2. DeviceInv(d)
  BY DEF MInv
<1>3. \A c \in Conversations :
          \/ row'[d][c] = conversation[d][c] /\ conversation'[d][c] = conversation[d][c]
          \/ /\ c \notin MergedConversations(d) /\ row'[d][c] = row[d][c]
             /\ <<d, c>> \in unmarked' <=> <<d, c>> \in unmarked
  BY <1>1 DEF TypeOK
<1>4. /\ at'[d] = "merged" /\ pendingDeletes'[d] = missing[d]
      /\ LocalIDs(d)' = LocalIDs(d) /\ Fetched(d)' = Fetched(d)
  BY <1>1 DEF TypeOK, LocalIDs, Fetched
<1>5. \A e \in Devices \ {d} : SameAt(e)
  BY <1>1 DEF SameAt, TypeOK
<1>6. IDsAreKnown(d)'
  BY <1>1, <1>2, <1>3, <1>4 DEF DeviceInv, IDsAreKnown, IsOf, serverVars
<1>7. FetchedIsNewer(d)' /\ DeletesAreMissing(d)'
  BY <1>1, <1>2, <1>4 DEF DeviceInv, FetchedIsNewer, DeletesAreMissing, Syncing, Uploading,
     serverVars
<1>8. LocalsFit(d)' /\ NoneIsBehind(d)'
  <2>1. manifestVersion[d] < version
    BY <1>1, <1>2 DEF DeviceInv, FetchedIsNewer, Syncing, JobsKnowWhatTheyDo, TypeOK
  <2> QED
    BY <1>1, <2>1 DEF LocalsFit, NoneIsBehind, serverVars, TypeOK
<1>9. RowsFollow(d)' /\ UploadFits(d)'
  BY <1>1, <1>2, <1>3, <1>4 DEF DeviceInv, RowsFollow, Follows, UploadFits, Uploading
<1>10. DeviceInv(d)'
  BY <1>6, <1>7, <1>8, <1>9 DEF DeviceInv
<1> QED
  BY <1>1, <1>5, <1>10, StepOf

LEMMA SyncDoneMInv ==
  ASSUME IInv, MInv, NEW d \in Devices, SyncDone(d)
  PROVE  MInv'
<1> USE DEF IInv
<1> DEFINE known == previousManifest[d].version
<1>1. /\ UNCHANGED <<serverVars, row, pendingDeletes, hindered, unmarked>>
      /\ at[d] = "merged"
      /\ manifestVersion' = [manifestVersion EXCEPT ![d] = known]
      /\ conversation' = [conversation EXCEPT ![d] = [c \in Conversations |->
             IF @[c].storageID \in Fetched(d) THEN @[c]
             ELSE [@[c] EXCEPT !.storageID = None]]]
  BY DEF SyncDone, SyncedVersion, Fetched, historyVars
<1>2. DeviceInv(d)
  BY DEF MInv
<1>3. /\ manifestVersion'[d] = known /\ known \in 1 .. version /\ version \in Nat
      /\ Fetched(d) \subseteq StorageIDs /\ OneEach(Fetched(d))
      /\ \A id \in Fetched(d) : id.version <= known
      /\ known = version => Fetched(d) = manifest /\ Fetched(d) \subseteq LocalIDs(d)
  BY <1>1, <1>2 DEF DeviceInv, FetchedIsNewer, Syncing, JobsKnowWhatTheyDo, Fetched, TypeOK
<1>4. /\ \A c \in Conversations : conversation[d][c].storageID \in Fetched(d) =>
             conversation'[d][c] = conversation[d][c]
      /\ \A c \in Conversations : conversation[d][c].storageID \notin Fetched(d) =>
             /\ conversation'[d][c].storageID = None
             /\ conversation'[d][c].needsSync = conversation[d][c].needsSync
  <2> SUFFICES ASSUME NEW c \in Conversations
               PROVE  IF conversation[d][c].storageID \in Fetched(d)
                      THEN conversation'[d][c] = conversation[d][c]
                      ELSE /\ conversation'[d][c].storageID = None
                           /\ conversation'[d][c].needsSync = conversation[d][c].needsSync
    OBVIOUS
  <2>1. conversation'[d][c] = IF conversation[d][c].storageID \in Fetched(d)
                              THEN conversation[d][c]
                              ELSE [conversation[d][c] EXCEPT !.storageID = None]
    BY <1>1 DEF TypeOK
  <2> QED
    BY <2>1, LocalTypes DEF ConversationType
<1>5. LocalIDs(d)' = LocalIDs(d) \cap Fetched(d)
  BY <1>3, <1>4, NoneAssumption DEF LocalIDs
<1>6. /\ at'[d] \in {"idle", "generate"}
      /\ at'[d] = "idle" => previousManifest'[d] = None
      /\ previousManifest'[d] \in {previousManifest[d], None}
      /\ missing'[d] = {}
      /\ \A e \in Devices \ {d} :
            /\ at'[e] = at[e] /\ previousManifest'[e] = previousManifest[e]
            /\ remoteOnly'[e] = remoteOnly[e] /\ missing'[e] = missing[e]
            /\ generated'[e] = generated[e]
  <2>1. CASE EndJob(d)
    BY <2>1, EndedJob
  <2>2. CASE ~EndJob(d)
    <3>1. /\ at' = [at EXCEPT ![d] = "generate"]
          /\ \/ previousManifest' = previousManifest
             \/ previousManifest' = [previousManifest EXCEPT ![d] = None]
          /\ missing' = [missing EXCEPT ![d] = {}]
          /\ UNCHANGED <<remoteOnly, generated>>
      BY <2>2 DEF SyncDone, Go
    <3> QED
      BY <3>1 DEF TypeOK, JobsKnowWhatTheyDo
  <2> QED
    BY <2>1, <2>2
<1>7. \A e \in Devices \ {d} : SameAt(e)
  BY <1>1, <1>6 DEF SameAt, TypeOK
<1>8. IDsAreKnown(d)'
  BY <1>1, <1>2, <1>4, <1>6 DEF DeviceInv, IDsAreKnown, IsOf, serverVars
<1>9. FetchedIsNewer(d)' /\ UploadFits(d)'
  BY <1>6 DEF FetchedIsNewer, UploadFits, Syncing, Uploading
\* At the version of the server, every conversation is listed.
<1>10. ASSUME known = version, NEW c \in Conversations
       PROVE  /\ conversation'[d][c] = conversation[d][c]
              /\ conversation[d][c].storageID \in manifest
              /\ conversation[d][c].storageID # None
              /\ \/ row[d][c].storageID # None /\ Fits(row[d][c])
                 \/ <<d, c>> \in unmarked
  <2>1. conversation[d][c].storageID # None /\ conversation[d][c].storageID \in manifest
    BY <1>2, <1>3, <1>10, AllListed DEF DeviceInv
  <2>2. Follows(row[d][c], conversation[d][c]) \/ <<d, c>> \in unmarked
    BY <1>1, <1>2 DEF DeviceInv, RowsFollow
  <2> QED
    BY <1>3, <1>4, <1>10, <2>1, <2>2 DEF Follows, Fits, isNewItem
<1>11. LocalsFit(d)' /\ NoneIsBehind(d)'
  <2>1. manifestVersion'[d] = version => known = version
    BY <1>3
  <2>2. known # version => manifestVersion'[d] < version
    BY <1>3
  <2>3. ASSUME known = version, NEW c \in Conversations
        PROVE  /\ Fits(conversation[d][c])' /\ conversation'[d][c].storageID # None
               /\ \/ Fits(row[d][c])' /\ row'[d][c].storageID # None
                  \/ <<d, c>> \in unmarked'
    <3>1. manifest' = manifest /\ row' = row /\ unmarked' = unmarked
      BY <1>1 DEF serverVars
    <3>2. Fits(row[d][c])' \/ <<d, c>> \in unmarked'
      BY <1>10, <2>3, <3>1 DEF Fits, isNewItem
    <3>3. Fits(conversation[d][c])'
      BY <1>10, <2>3, <3>1 DEF Fits
    <3> QED
      BY <1>10, <2>3, <3>1, <3>2, <3>3
  <2> QED
    BY <1>1, <1>10, <2>1, <2>2, <2>3 DEF LocalsFit, NoneIsBehind, serverVars
<1>12. RowsFollow(d)'
  BY <1>1, <1>2, <1>4, <1>6 DEF DeviceInv, RowsFollow, Follows
<1>13. DeletesAreMissing(d)'
  <2> SUFFICES ASSUME d \notin hindered PROVE DeletesAreMissing(d)'
    BY <1>1 DEF DeletesAreMissing
  <2>1. pendingDeletes'[d] = Fetched(d) \ LocalIDs(d)'
    BY <1>1, <1>2, <1>5 DEF DeviceInv, DeletesAreMissing
  <2>2. ASSUME NEW id \in Fetched(d) \ LocalIDs(d)' PROVE ~AllHaveIDs(d)'
    <3>1. id.conversation \in Conversations
      BY <1>3, IDFields
    <3>2. conversation[d][id.conversation].storageID # id
      BY <1>3, <1>5, <2>2, <3>1, NoneAssumption DEF LocalIDs
    <3>3. conversation[d][id.conversation].storageID \notin Fetched(d)
      BY <1>2, <1>3, <3>1, <3>2, NoneAssumption
      DEF DeviceInv, IDsAreKnown, IsOf, OneEach
    <3> QED
      BY <1>4, <3>1, <3>3 DEF AllHaveIDs
  <2>3. pendingDeletes'[d] = {} \/ ~AllHaveIDs(d)'
    BY <2>1, <2>2
  <2>4. previousManifest'[d] = previousManifest[d] =>
            /\ Fetched(d)' = Fetched(d) /\ LocalIDs(d)' \subseteq Fetched(d)
            /\ \A id \in Fetched(d) : id.version <= known
    BY <1>3, <1>5 DEF Fetched
  <2> QED
    BY <1>3, <1>6, <2>1, <2>3, <2>4 DEF DeletesAreMissing
<1>14. DeviceInv(d)'
  BY <1>8, <1>9, <1>11, <1>12, <1>13 DEF DeviceInv
<1> QED
  BY <1>1, <1>7, <1>14, StepOf

LEMMA InsertFor ==
  ASSUME NEW d \in Devices, NEW c \in NewItems(d)
  PROVE  \E id \in Inserts(d) : id.conversation = c
<1> DEFINE new == [conversation |-> c, value |-> conversation[d][c].value, device |-> d,
                   version |-> manifestVersion[d] + 1]
<1>1. new \in Inserts(d)
  BY DEF Inserts
<1>2. new.conversation = c
  OBVIOUS
<1> QED
  BY <1>1, <1>2

\* What a device writes that is at the version of the server
LEMMA WriteFits ==
  ASSUME IInv, ServerInv, NEW d \in Devices, DeviceInv(d), manifestVersion[d] = version
  PROVE  /\ OneEach(Keys(d)) /\ Inserts(d) \subseteq Keys(d)
         /\ Keys(d) \cap Deletes(d) = {}
         /\ Keys(d) \subseteq stored \cup Inserts(d)
         /\ \A c \in Conversations \ NewItems(d) : conversation[d][c].storageID \in Keys(d)
<1> USE DEF IInv
<1>1. version \in Nat /\ manifest \subseteq stored /\ stored \subseteq StorageIDs
  BY DEF ServerInv, TypeOK
<1>2. ASSUME NEW id \in Inserts(d)
      PROVE  /\ id.conversation \in NewItems(d) /\ id.version = version + 1
             /\ \A other \in Inserts(d) : other.conversation = id.conversation => other = id
  BY DEF Inserts
<1>3. ASSUME NEW id \in Deletes(d) PROVE id.version # version + 1
  <2>1. CASE id \in OldIDs(d)
    <3>1. PICK c \in NewItems(d) : id = conversation[d][c].storageID /\ id # None
      BY <2>1 DEF OldIDs
    <3>2. c \in Conversations /\ conversation[d][c].storageID \in StorageIDs
      BY <3>1, LocalTypes DEF NewItems
    <3>3. id.version <= version /\ id.version \in Nat
      BY <3>1, <3>2 DEF DeviceInv, IDsAreKnown, IsOf, StorageIDs
    <3> QED
      BY <1>1, <3>3
  <2>2. CASE id \in pendingDeletes[d]
    <3>1. id.version <= version /\ id.version \in Nat
      BY <2>2 DEF DeviceInv, IDsAreKnown, TypeOK, StorageIDs
    <3> QED
      BY <1>1, <3>1
  <2> QED
    BY <2>1, <2>2 DEF Deletes
<1>4. ASSUME NEW c \in Conversations \ NewItems(d)
      PROVE  /\ conversation[d][c].storageID \in stored
             /\ conversation[d][c].storageID.conversation = c
             /\ conversation[d][c].storageID \notin Deletes(d)
  <2>1. ~isNewItem(conversation[d][c])
    BY DEF NewItems
  <2>2. conversation[d][c].storageID \in manifest /\ conversation[d][c].storageID # None
    BY <2>1 DEF DeviceInv, LocalsFit, Fits, isNewItem
  <2>3. conversation[d][c].storageID.conversation = c
    BY <2>2 DEF DeviceInv, IDsAreKnown, IsOf
  <2>4. conversation[d][c].storageID \notin pendingDeletes[d]
    BY <1>1, <2>2 DEF DeviceInv, IDsAreKnown
  <2>5. ASSUME NEW b \in NewItems(d), conversation[d][b].storageID # None
        PROVE  conversation[d][b].storageID # conversation[d][c].storageID
    <3>1. b \in Conversations /\ b # c
      BY DEF NewItems
    <3>2. conversation[d][b].storageID.conversation = b
      BY <2>5, <3>1 DEF DeviceInv, IDsAreKnown, IsOf
    <3> QED
      BY <2>3, <3>1, <3>2
  <2> QED
    BY <1>1, <2>2, <2>3, <2>4, <2>5 DEF Deletes, OldIDs
<1>5. /\ Inserts(d) \subseteq Keys(d)
      /\ \A c \in Conversations \ NewItems(d) : conversation[d][c].storageID \in Keys(d)
  BY <1>2, <1>3, <1>4 DEF Keys
<1>6. \A id \in Keys(d) :
         \/ id \in Inserts(d)
         \/ \E c \in Conversations \ NewItems(d) : id = conversation[d][c].storageID
  BY DEF Keys
<1>7. OneEach(Keys(d))
  <2>1. ASSUME NEW c \in Conversations PROVE \E id \in Keys(d) : id.conversation = c
    <3>1. CASE c \in NewItems(d)
      <4>1. \E id \in Inserts(d) : id.conversation = c
        BY <3>1, InsertFor
      <4> QED
        BY <1>5, <4>1
    <3>2. CASE c \notin NewItems(d)
      BY <1>4, <1>5, <3>2
    <3> QED
      BY <3>1, <3>2
  <2>2. ASSUME NEW id \in Keys(d), NEW other \in Keys(d), id.conversation = other.conversation
        PROVE  id = other
    BY <1>2, <1>4, <1>6, <2>2
  <2> QED
    BY <2>1, <2>2 DEF OneEach
<1> QED
  BY <1>4, <1>5, <1>6, <1>7 DEF Keys

LEMMA GenerateMInv ==
  ASSUME IInv, MInv, NEW d \in Devices, Generate(d)
  PROVE  MInv'
<1> USE DEF IInv
<1>1. /\ UNCHANGED <<serverVars, conversation, row, manifestVersion, hindered, unmarked>>
      /\ at[d] = "generate"
  BY DEF Generate, historyVars
<1>2. CASE EndJob(d) /\ (pendingDeletes' = pendingDeletes
                         \/ pendingDeletes' = [pendingDeletes EXCEPT ![d] = {}])
  BY <1>1, <1>2, EndedInv
<1>3. CASE /\ generated' = [generated EXCEPT ![d] =
                [version |-> manifestVersion[d] + 1, inserts |-> Inserts(d),
                 deletes |-> Deletes(d), keys |-> Keys(d)]]
           /\ at' = [at EXCEPT ![d] = "upload"]
           /\ previousManifest' = [previousManifest EXCEPT ![d] = None]
           /\ UNCHANGED <<pendingDeletes, remoteOnly, missing>>
  <2>1. DeviceInv(d) /\ ServerInv
    BY DEF MInv
  <2>2. /\ generated'[d].version = manifestVersion[d] + 1
        /\ generated'[d].inserts = Inserts(d) /\ generated'[d].deletes = Deletes(d)
        /\ generated'[d].keys = Keys(d)
        /\ at'[d] = "upload" /\ previousManifest'[d] = None
    BY <1>3 DEF JobsKnowWhatTheyDo, TypeOK
  <2>3. \A e \in Devices \ {d} : SameAt(e)
    BY <1>1, <1>3 DEF SameAt, TypeOK, JobsKnowWhatTheyDo
  <2>4. IDsAreKnown(d)'
    BY <1>1, <1>3, <2>1 DEF DeviceInv, IDsAreKnown, IsOf, serverVars
  <2>5. FetchedIsNewer(d)'
    BY <2>2 DEF FetchedIsNewer, Syncing, Uploading
  <2>6. LocalsFit(d)' /\ NoneIsBehind(d)'
    BY <1>1, <2>1 DEF DeviceInv, LocalsFit, NoneIsBehind, Fits, isNewItem, serverVars
  <2>7. RowsFollow(d)'
    BY <1>1, <2>1, <2>2 DEF DeviceInv, RowsFollow, Follows
  <2>8. UploadFits(d)'
    <3>1. \A id \in Inserts(d) :
             /\ id.version = manifestVersion[d] + 1
             /\ \/ row[d][id.conversation].needsSync
                \/ <<d, id.conversation>> \in unmarked
                \/ conversation[d][id.conversation].storageID = None
      <4>1. ASSUME NEW c \in NewItems(d)
            PROVE  \/ row[d][c].needsSync \/ <<d, c>> \in unmarked
                   \/ conversation[d][c].storageID = None
        BY <2>1 DEF DeviceInv, RowsFollow, NewItems, isNewItem
      <4> QED
        BY <4>1 DEF Inserts
    <3>2. \A c \in NewItems(d) : InFlight(d, c)'
      BY <2>2, InsertFor DEF InFlight
    <3>3. manifestVersion[d] + 1 = version + 1 => manifestVersion[d] = version
      <4>1. manifestVersion[d] \in 1 .. version /\ version \in Nat
        BY DEF TypeOK
      <4> QED
        BY <4>1
    <3>4. manifestVersion[d] = version =>
             ListsEach(d)' /\ Keys(d) \subseteq stored \cup Inserts(d)
      BY <1>1, <2>1, <2>2, <3>2, WriteFits DEF ListsEach, OneEach
    <3> QED
      BY <1>1, <2>2, <3>1, <3>3, <3>4 DEF UploadFits, Uploading, serverVars
  <2>9. DeletesAreMissing(d)'
    BY <1>1, <1>3, <2>1, <2>2 DEF DeviceInv, DeletesAreMissing, AllHaveIDs
  <2>10. DeviceInv(d)'
    BY <2>4, <2>5, <2>6, <2>7, <2>8, <2>9 DEF DeviceInv
  <2> QED
    BY <1>1, <2>3, <2>10, StepOf
<1> QED
  BY <1>2, <1>3 DEF Generate, Go

\* A device that does not write when another one does
LEMMA BehindInv ==
  ASSUME IInv, NEW d \in Devices, DeviceInv(d), SameAt(d), version' = version + 1,
         \A id \in stored' : id \in stored \/ id.version = version + 1
  PROVE  DeviceInv(d)'
<1> USE DEF IInv
<1>1. version \in Nat /\ manifestVersion[d] \in 1 .. version
  BY DEF TypeOK
<1>2. LocalIDs(d)' = LocalIDs(d) /\ Fetched(d)' = Fetched(d)
  BY DEF SameAt, LocalIDs, Fetched
<1>3. IDsAreKnown(d)'
  <2>1. \A c \in Conversations : IsOf(conversation[d][c], c)' /\ IsOf(row[d][c], c)'
    <3> SUFFICES ASSUME NEW c \in Conversations
                 PROVE  IsOf(conversation[d][c], c)' /\ IsOf(row[d][c], c)'
      OBVIOUS
    <3>1. /\ conversation[d][c].storageID # None =>
                conversation[d][c].storageID.version \in Nat
          /\ row[d][c].storageID # None => row[d][c].storageID.version \in Nat
      BY LocalTypes DEF StorageIDs, ConversationType
    <3>2. IsOf(conversation[d][c], c) /\ IsOf(row[d][c], c)
      BY DEF DeviceInv, IDsAreKnown
    <3> QED
      BY <1>1, <3>1, <3>2 DEF SameAt, IsOf
  <2>2. ASSUME NEW id \in pendingDeletes[d] \cup missing[d]
        PROVE  id.version <= version' /\ id \notin stored'
    <3>1. id.version <= version /\ id.version \in Nat /\ id \notin stored
      BY DEF DeviceInv, IDsAreKnown, TypeOK, StorageIDs
    <3> QED
      BY <1>1, <3>1
  <2> QED
    BY <2>1, <2>2 DEF IDsAreKnown, SameAt
<1>4. FetchedIsNewer(d)'
  <2>1. Syncing(d) => previousManifest[d].version \in 1 .. version
    BY DEF JobsKnowWhatTheyDo
  <2> QED
    BY <1>1, <1>2, <2>1
    DEF DeviceInv, SameAt, FetchedIsNewer, Fetched, Syncing, Uploading
<1>5. LocalsFit(d)' /\ NoneIsBehind(d)'
  BY <1>1 DEF SameAt, LocalsFit, NoneIsBehind
<1>6. RowsFollow(d)'
  BY DEF DeviceInv, SameAt, RowsFollow, Follows, MergedConversations
<1>7. UploadFits(d)'
  <2>1. Uploading(d) => generated[d].version = manifestVersion[d] + 1
    BY DEF DeviceInv, UploadFits
  <2>2. at[d] = "accepted" => generated[d].version <= version
    BY DEF JobsKnowWhatTheyDo
  <2>3. ListsEach(d) => ListsEach(d)'
    BY DEF ListsEach, InFlight, SameAt
  <2> QED
    BY <1>1, <2>1, <2>2, <2>3
    DEF DeviceInv, SameAt, UploadFits, AllHaveIDs, Uploading
<1>8. DeletesAreMissing(d)'
  BY <1>2 DEF DeviceInv, SameAt, DeletesAreMissing, AllHaveIDs, Fetched
<1> QED
  BY <1>3, <1>4, <1>5, <1>6, <1>7, <1>8 DEF DeviceInv

LEMMA AcceptMInv ==
  ASSUME IInv, MInv, NEW d \in Devices, Accept(d)
  PROVE  MInv'
<1> USE DEF IInv
<1>1. /\ UNCHANGED <<conversation, row, manifestVersion, pendingDeletes, previousManifest,
                     remoteOnly, missing, generated, hindered, unmarked>>
      /\ at[d] = "upload" /\ at' = [at EXCEPT ![d] = "accepted"]
      /\ generated[d].version = version + 1 /\ version' = version + 1
      /\ manifest' = generated[d].keys
      /\ stored' = (stored \cup generated[d].inserts) \ generated[d].deletes
  BY DEF Accept, Go, deviceVars, historyVars
<1>2. DeviceInv(d) /\ ServerInv /\ Uploading(d)
  BY <1>1 DEF MInv, Uploading
<1>3. /\ ListsEach(d) /\ generated[d].keys \subseteq stored \cup generated[d].inserts
      /\ manifestVersion[d] = version /\ version \in Nat
      /\ \A id \in generated[d].inserts : id.version = version + 1
  <2>1. manifestVersion[d] \in 1 .. version /\ version \in Nat
    BY DEF TypeOK
  <2>2. /\ generated[d].version = manifestVersion[d] + 1
        /\ \A id \in generated[d].inserts : id.version = generated[d].version
        /\ ListsEach(d) /\ generated[d].keys \subseteq stored \cup generated[d].inserts
    BY <1>1, <1>2 DEF DeviceInv, UploadFits
  <2> QED
    BY <1>1, <2>1, <2>2
<1>4. ServerInv'
  <2>1. \A id \in stored : id.version \in Nat
    BY DEF TypeOK, StorageIDs
  <2>2. \A id \in stored' : id.version <= version'
    BY <1>1, <1>2, <1>3, <2>1 DEF ServerInv
  <2> QED
    BY <1>1, <1>3, <2>2 DEF ServerInv, ListsEach, OneEach
<1>5. \A id \in stored' : id \in stored \/ id.version = version + 1
  BY <1>1, <1>3
<1>6. \A e \in Devices \ {d} : DeviceInv(e)'
  <2> TAKE e \in Devices \ {d}
  <2>1. SameAt(e)
    BY <1>1 DEF SameAt, TypeOK
  <2> QED
    BY <1>1, <1>5, <2>1, BehindInv DEF MInv
<1>7. at'[d] = "accepted"
  BY <1>1 DEF TypeOK
<1>8. IDsAreKnown(d)'
  <2>1. \A c \in Conversations : IsOf(conversation[d][c], c)' /\ IsOf(row[d][c], c)'
    <3> SUFFICES ASSUME NEW c \in Conversations
                 PROVE  IsOf(conversation[d][c], c)' /\ IsOf(row[d][c], c)'
      OBVIOUS
    <3>1. /\ conversation[d][c].storageID # None =>
                conversation[d][c].storageID.version \in Nat
          /\ row[d][c].storageID # None => row[d][c].storageID.version \in Nat
      BY LocalTypes DEF StorageIDs, ConversationType
    <3>2. IsOf(conversation[d][c], c) /\ IsOf(row[d][c], c)
      BY <1>2 DEF DeviceInv, IDsAreKnown
    <3> QED
      BY <1>1, <1>3, <3>1, <3>2 DEF IsOf
  <2>2. ASSUME NEW id \in pendingDeletes[d] \cup missing[d]
        PROVE  id.version <= version' /\ id \notin stored'
    <3>1. id.version <= version /\ id.version \in Nat /\ id \notin stored
      BY <1>2 DEF DeviceInv, IDsAreKnown, TypeOK, StorageIDs
    <3> QED
      BY <1>1, <1>3, <1>5, <3>1
  <2> QED
    BY <1>1, <2>1, <2>2 DEF IDsAreKnown
<1>9. FetchedIsNewer(d)'
  BY <1>1, <1>2, <1>7 DEF DeviceInv, FetchedIsNewer, Syncing, Uploading
<1>10. LocalsFit(d)' /\ NoneIsBehind(d)'
  BY <1>1, <1>3 DEF LocalsFit, NoneIsBehind
<1>11. RowsFollow(d)'
  BY <1>1, <1>2, <1>7 DEF DeviceInv, RowsFollow, Follows
<1>12. UploadFits(d)'
  <2>1. AllHaveIDs(d)'
    <3>1. ~(manifestVersion[d] < version)
      BY <1>3
    <3>2. AllHaveIDs(d)
      BY <1>2, <3>1, Zenon DEF DeviceInv, NoneIsBehind, AllHaveIDs
    <3> QED
      BY <1>1, <3>2, Zenon DEF AllHaveIDs
  <2>2. \A c \in Conversations : InFlight(d, c)' <=> InFlight(d, c)
    BY <1>1, <1>7 DEF InFlight
  <2>3. ListsEach(d)'
    BY <1>1, <1>3, <2>2 DEF ListsEach, OneEach
  <2> QED
    BY <1>1, <1>2, <1>7, <2>1, <2>3 DEF DeviceInv, UploadFits, Uploading
<1>13. DeletesAreMissing(d)'
  BY <1>1, <1>2, <1>7 DEF DeviceInv, DeletesAreMissing, AllHaveIDs
<1>14. DeviceInv(d)'
  BY <1>8, <1>9, <1>10, <1>11, <1>12, <1>13 DEF DeviceInv
<1> QED
  BY <1>4, <1>6, <1>14 DEF MInv

LEMMA UploadedMInv ==
  ASSUME IInv, MInv, NEW d \in Devices, Uploaded(d)
  PROVE  MInv'
<1> USE DEF IInv
<1>1. /\ UNCHANGED <<serverVars, row, hindered, unmarked>> /\ EndJob(d) /\ at[d] = "accepted"
      /\ manifestVersion' = [manifestVersion EXCEPT ![d] = generated[d].version]
      /\ pendingDeletes' = [pendingDeletes EXCEPT ![d] = {}]
      /\ conversation' = [conversation EXCEPT ![d] = [c \in Conversations |->
           IF InFlight(d, c)
           THEN [@[c] EXCEPT !.needsSync = FALSE,
                             !.storageID = CHOOSE id \in generated[d].inserts :
                                               id.conversation = c]
           ELSE @[c]]]
  BY DEF Uploaded, historyVars
<1>2. DeviceInv(d) /\ Uploading(d)
  BY <1>1 DEF MInv, Uploading
<1>3. /\ ListsEach(d) /\ AllHaveIDs(d)
      /\ \A id \in generated[d].inserts :
            /\ id.version = generated[d].version
            /\ \/ row[d][id.conversation].needsSync
               \/ <<d, id.conversation>> \in unmarked
               \/ conversation[d][id.conversation].storageID = None
      /\ generated[d].version = version => manifest = generated[d].keys
      /\ generated[d].version <= version /\ generated[d].inserts \subseteq StorageIDs
      /\ version \in Nat /\ generated[d].version \in Nat
  BY <1>1, <1>2 DEF DeviceInv, UploadFits, JobsKnowWhatTheyDo, TypeOK
<1>4. ASSUME NEW c \in Conversations
      PROVE  \/ /\ InFlight(d, c) /\ ~conversation'[d][c].needsSync
                /\ conversation'[d][c].storageID \in generated[d].inserts
                /\ conversation'[d][c].storageID.conversation = c
             \/ ~InFlight(d, c) /\ conversation'[d][c] = conversation[d][c]
  <2> DEFINE idOf == CHOOSE id \in generated[d].inserts : id.conversation = c
  <2>1. conversation'[d][c] = IF InFlight(d, c)
                              THEN [conversation[d][c] EXCEPT !.needsSync = FALSE,
                                                              !.storageID = idOf]
                              ELSE conversation[d][c]
    BY <1>1 DEF TypeOK
  <2>2. InFlight(d, c) => idOf \in generated[d].inserts /\ idOf.conversation = c
    BY DEF InFlight
  <2> HIDE DEF idOf
  <2> QED
    BY <2>1, <2>2, LocalTypes DEF ConversationType
<1>5. /\ at'[d] = "idle" /\ previousManifest'[d] = None /\ missing'[d] = {}
      /\ manifestVersion'[d] = generated[d].version /\ pendingDeletes'[d] = {}
  BY <1>1, EndedJob DEF TypeOK
<1>6. \A e \in Devices \ {d} : SameAt(e)
  BY <1>1, EndedJob DEF SameAt, TypeOK
<1>7. \A c \in Conversations :
         /\ conversation'[d][c].storageID # None
         /\ \/ <<d, c>> \in unmarked
            \/ /\ row[d][c].storageID # None
               /\ \/ row[d][c].needsSync
                  \/ row[d][c].storageID = conversation[d][c].storageID /\ ~InFlight(d, c)
  <2> TAKE c \in Conversations
  <2>1. /\ conversation[d][c].storageID # None
        /\ Follows(row[d][c], conversation[d][c]) \/ <<d, c>> \in unmarked
    BY <1>1, <1>2, <1>3 DEF DeviceInv, RowsFollow, AllHaveIDs
  <2>2. InFlight(d, c) => row[d][c].needsSync \/ <<d, c>> \in unmarked
    BY <1>3, <2>1 DEF InFlight
  <2>3. conversation'[d][c].storageID # None
    BY <1>3, <1>4, <2>1, NoneAssumption
  <2> QED
    BY <2>1, <2>2, <2>3 DEF Follows
<1>8. IDsAreKnown(d)'
  <2>1. ASSUME NEW c \in Conversations PROVE IsOf(conversation[d][c], c)'
    BY <1>1, <1>2, <1>3, <1>4, ZenonT(40) DEF DeviceInv, IDsAreKnown, IsOf, serverVars
  <2> QED
    BY <1>1, <1>2, <1>5, <2>1, ZenonT(40) DEF DeviceInv, IDsAreKnown, IsOf, serverVars
<1>9. FetchedIsNewer(d)' /\ UploadFits(d)' /\ DeletesAreMissing(d)'
  BY <1>5 DEF FetchedIsNewer, UploadFits, DeletesAreMissing, Syncing, Uploading
<1>10. LocalsFit(d)'
  <2> SUFFICES ASSUME generated[d].version = version, NEW c \in Conversations
               PROVE  Fits(conversation[d][c])' /\ (Fits(row[d][c])' \/ <<d, c>> \in unmarked')
    BY <1>1, <1>5 DEF LocalsFit, serverVars
  <2>1. manifest' = generated[d].keys /\ row' = row /\ unmarked' = unmarked
    BY <1>1, <1>3 DEF serverVars
  <2>2. CASE InFlight(d, c)
    BY <1>3, <1>4, <1>7, <2>1, <2>2 DEF ListsEach, Fits, isNewItem
  <2>3. CASE ~InFlight(d, c)
    <3>1. conversation[d][c].needsSync \/ conversation[d][c].storageID \in generated[d].keys
      BY <1>3, <2>3 DEF ListsEach
    <3>2. conversation[d][c].needsSync => row[d][c].needsSync \/ <<d, c>> \in unmarked
      BY <1>2 DEF DeviceInv, RowsFollow
    <3> QED
      BY <1>4, <1>7, <2>1, <2>3, <3>1, <3>2 DEF Fits, isNewItem
  <2> QED
    BY <2>2, <2>3
<1>11. NoneIsBehind(d)'
  BY <1>1, <1>7, ZenonT(40) DEF NoneIsBehind
<1>12. RowsFollow(d)'
  BY <1>1, <1>2, <1>4, <1>7 DEF DeviceInv, RowsFollow, Follows
<1>13. DeviceInv(d)'
  BY <1>8, <1>9, <1>10, <1>11, <1>12 DEF DeviceInv
<1> QED
  BY <1>1, <1>6, <1>13, StepOf

LEMMA RefuseMInv ==
  ASSUME IInv, MInv, NEW d \in Devices, Refuse(d) \/ UploadFails(d)
  PROVE  MInv'
<1>1. /\ UNCHANGED <<serverVars, conversation, row, manifestVersion, pendingDeletes,
                     unmarked>>
      /\ EndJob(d) /\ at[d] \in {"upload", "accepted"}
      /\ hindered' = hindered \/ hindered' = hindered \cup {d}
  BY DEF Refuse, UploadFails, Trouble, deviceVars
<1> QED
  BY <1>1, EndedInv

LEMMA CrashMInv ==
  ASSUME IInv, MInv, NEW d \in Devices, CrashAndRestart(d), forgotten' = {}
  PROVE  MInv'
<1> USE DEF IInv
<1>1. /\ UNCHANGED <<serverVars, manifestVersion, pendingDeletes>>
      /\ EndJob(d)
      /\ conversation' = [conversation EXCEPT ![d] = row'[d]]
      /\ unmarked' = unmarked \ ({d} \X Conversations)
      /\ hindered' = hindered \cup {d}
  BY DEF CrashAndRestart, Trouble
<1>2. PICK written \in SUBSET Conversations :
         /\ row' = [row EXCEPT ![d] = [c \in Conversations |->
                       IF c \in written THEN conversation[d][c] ELSE @[c]]]
         /\ forgotten' = forgotten \cup (unmarked \cap ({d} \X (Conversations \ written)))
  BY DEF CrashAndRestart
<1>3. DeviceInv(d)
  BY DEF MInv
\* No row that comes back lacks its mark.
<1>4. /\ at'[d] = "idle" /\ previousManifest'[d] = None /\ missing'[d] = {}
      /\ conversation'[d] = row'[d]
      /\ \A c \in Conversations :
            \/ row'[d][c] = conversation[d][c]
            \/ row'[d][c] = row[d][c] /\ <<d, c>> \notin unmarked
  BY <1>1, <1>2, EndedJob DEF TypeOK
<1>5. \A e \in Devices \ {d} : SameAt(e)
  <2> TAKE e \in Devices \ {d}
  <2>1. conversation'[e] = conversation[e] /\ row'[e] = row[e]
    BY <1>1, <1>2 DEF TypeOK
  <2>2. \A c : <<e, c>> \in unmarked' <=> <<e, c>> \in unmarked
    BY <1>1
  <2> QED
    BY <1>1, <2>1, <2>2, EndedJob DEF SameAt
<1>6. IDsAreKnown(d)'
  <2>1. ASSUME NEW c \in Conversations
        PROVE  IsOf(conversation[d][c], c)' /\ IsOf(row[d][c], c)'
    <3>1. IsOf(conversation[d][c], c) /\ IsOf(row[d][c], c)
      BY <1>3 DEF DeviceInv, IDsAreKnown
    <3> QED
      BY <1>1, <1>4, <3>1 DEF IsOf, serverVars
  <2>2. \A id \in pendingDeletes[d] : id.version <= version /\ id \notin stored
    BY <1>3 DEF DeviceInv, IDsAreKnown
  <2> QED
    BY <1>1, <1>4, <2>1, <2>2 DEF IDsAreKnown, serverVars
<1>7. FetchedIsNewer(d)' /\ UploadFits(d)' /\ DeletesAreMissing(d)'
  BY <1>1, <1>4 DEF FetchedIsNewer, UploadFits, DeletesAreMissing, Syncing, Uploading
<1>8. LocalsFit(d)' /\ NoneIsBehind(d)'
  BY <1>1, <1>3, <1>4 DEF DeviceInv, LocalsFit, NoneIsBehind, Fits, isNewItem, serverVars
<1>9. RowsFollow(d)'
  BY <1>4 DEF RowsFollow, Follows
<1>10. DeviceInv(d)'
  BY <1>6, <1>7, <1>8, <1>9 DEF DeviceInv
<1> QED
  BY <1>1, <1>5, <1>10, StepOf

LEMMA InitMInv == Init => MInv
<1> SUFFICES ASSUME Init PROVE MInv
  OBVIOUS
<1>1. /\ version = 1 /\ manifest = FirstIDs /\ stored = FirstIDs
      /\ conversation = [d \in Devices |-> [c \in Conversations |->
                         [value |-> 0, storageID |-> FirstID(c), needsSync |-> FALSE]]]
      /\ row = conversation
      /\ \A d \in Devices :
            /\ manifestVersion[d] = 1 /\ pendingDeletes[d] = {} /\ missing[d] = {}
            /\ at[d] = "idle" /\ previousManifest[d] = None
  BY DEF Init
<1>2. \A c \in Conversations :
         /\ FirstID(c).conversation = c /\ FirstID(c).version = 1
         /\ FirstID(c) \in StorageIDs /\ FirstID(c) # None /\ FirstID(c) \in FirstIDs
  BY NoneAssumption, StorageServiceAssumption DEF FirstID, FirstIDs, StorageIDs
<1>3. \A id \in FirstIDs : \E c \in Conversations : id = FirstID(c)
  BY DEF FirstIDs
<1> HIDE DEF FirstIDs, FirstID
<1>4. ServerInv
  BY <1>1, <1>2, <1>3 DEF ServerInv, OneEach
<1>5. ASSUME NEW d \in Devices PROVE DeviceInv(d)
  <2>1. \A c \in Conversations :
           /\ row[d][c] = conversation[d][c]
           /\ conversation[d][c].storageID = FirstID(c) /\ ~conversation[d][c].needsSync
    BY <1>1
  <2>2. IDsAreKnown(d)
    BY <1>1, <1>2, <2>1 DEF IDsAreKnown, IsOf
  <2>3. FetchedIsNewer(d) /\ UploadFits(d) /\ DeletesAreMissing(d)
    BY <1>1 DEF FetchedIsNewer, UploadFits, DeletesAreMissing, Syncing, Uploading
  <2>4. LocalsFit(d) /\ NoneIsBehind(d)
    BY <1>1, <1>2, <2>1 DEF LocalsFit, NoneIsBehind, Fits
  <2>5. RowsFollow(d)
    BY <1>2, <2>1 DEF RowsFollow, Follows
  <2> QED
    BY <2>2, <2>3, <2>4, <2>5 DEF DeviceInv
<1> QED
  BY <1>4, <1>5 DEF MInv

\* Nothing is taken out of forgotten.
LEMMA ForgottenGrows ==
  ASSUME [Next]_vars
  PROVE  forgotten \subseteq forgotten'
<1>1. CASE UNCHANGED vars
  BY <1>1 DEF vars, historyVars
<1>2. CASE Next
  <2>1. ASSUME NEW d \in Devices, DeviceStep(d) PROVE UNCHANGED forgotten
    BY <2>1 DEF DeviceStep, StartJob, FetchRecords, MergeDone, SyncDone, Generate, Accept,
       Uploaded, Refuse, historyVars
  <2>2. ASSUME NEW d \in Devices, NEW c \in Conversations, Change(d, c)
        PROVE  UNCHANGED forgotten
    BY <2>2 DEF Change
  <2>3. ASSUME NEW d \in Devices,
               \/ \E job \in {"sync", "upload"} : ManifestFails(d, job)
               \/ RecordsFail(d) \/ UploadFails(d)
        PROVE  UNCHANGED forgotten
    BY <2>3 DEF ManifestFails, RecordsFail, UploadFails
  <2>4. ASSUME NEW d \in Devices, CrashAndRestart(d) PROVE forgotten \subseteq forgotten'
    BY <2>4 DEF CrashAndRestart
  <2> QED
    BY <1>2, <2>1, <2>2, <2>3, <2>4 DEF Next
<1> QED
  BY <1>1, <1>2

LEMMA NextMInv ==
  ASSUME IInv, MInv, [Next]_vars, forgotten' = {}
  PROVE  MInv'
<1>1. CASE UNCHANGED vars
  <2>1. UNCHANGED serverVars /\ \A d \in Devices : SameAt(d)
    BY <1>1 DEF vars, deviceVars, jobVars, historyVars, SameAt
  <2>2. \A d \in Devices : DeviceInv(d)'
    BY <2>1, SameInv DEF MInv
  <2> QED
    BY <2>1, <2>2 DEF MInv, ServerInv, OneEach, serverVars
<1>2. CASE Next
  <2>1. ASSUME NEW d \in Devices, DeviceStep(d) PROVE MInv'
    BY <2>1, StartJobMInv, FetchRecordsMInv, MergeDoneMInv, SyncDoneMInv, GenerateMInv,
       AcceptMInv, UploadedMInv, RefuseMInv DEF DeviceStep
  <2>2. ASSUME NEW d \in Devices, NEW c \in Conversations, Change(d, c) PROVE MInv'
    BY <2>2, ChangeMInv
  <2>3. ASSUME NEW d \in Devices,
               \/ \E job \in {"sync", "upload"} : ManifestFails(d, job)
               \/ RecordsFail(d) \/ UploadFails(d) \/ CrashAndRestart(d)
        PROVE  MInv'
    BY <2>3, ManifestFailsMInv, RecordsFailMInv, RefuseMInv, CrashMInv
  <2> QED
    BY <1>2, <2>1, <2>2, <2>3 DEF Next
<1> QED
  BY <1>1, <1>2

LEMMA ManifestInvariance == Spec => [](forgotten = {} => MInv)
<1>1. Init => (forgotten = {} => MInv)
  BY InitMInv
<1>2. IInv /\ (forgotten = {} => MInv) /\ [Next]_vars => (forgotten = {} => MInv)'
  BY NextMInv, ForgottenGrows
<1> QED
  BY <1>1, <1>2, Invariance, PTL DEF Spec

\* What a device writes to a manifest it has synced with is valid.
LEMMA ValidFromSync ==
  ASSUME IInv, MInv, NEW d \in Devices, at[d] = "generate", d \notin hindered
  PROVE  IsValid(d)
<1> USE DEF IInv
<1> SUFFICES ASSUME previousManifest[d] # None
             PROVE  /\ OldIDs(d) \cap pendingDeletes[d] = {}
                    /\ Fetched(d) \ Keys(d) = Deletes(d)
                    /\ Keys(d) \ Fetched(d) = Inserts(d)
  BY DEF IsValid, Fetched
<1>1. /\ pendingDeletes[d] = Fetched(d) \ LocalIDs(d)
      /\ LocalIDs(d) \subseteq Fetched(d)
      /\ \A id \in Fetched(d) : id.version <= manifestVersion[d]
      /\ IDsAreKnown(d) /\ version \in Nat /\ manifestVersion[d] \in 1 .. version
  BY DEF MInv, DeviceInv, DeletesAreMissing, TypeOK
<1> DEFINE Kept == {conversation[d][c].storageID : c \in Conversations \ NewItems(d)}
<1>2. /\ OldIDs(d) \subseteq LocalIDs(d) /\ Kept \subseteq LocalIDs(d)
      /\ LocalIDs(d) \subseteq OldIDs(d) \cup Kept
  BY DEF OldIDs, LocalIDs, NewItems, isNewItem
<1>3. OldIDs(d) \cap Kept = {}
  <2> SUFFICES ASSUME NEW b \in NewItems(d), NEW c \in Conversations \ NewItems(d),
                      conversation[d][b].storageID # None,
                      conversation[d][b].storageID = conversation[d][c].storageID
               PROVE  FALSE
    BY DEF OldIDs
  <2>1. b \in Conversations
    BY DEF NewItems
  <2> QED
    BY <1>1, <2>1 DEF IDsAreKnown, IsOf
<1>4. \A id \in Inserts(d) : id \notin Fetched(d)
  <2>1. \A id \in Inserts(d) : id.version = manifestVersion[d] + 1
    BY DEF Inserts
  <2> QED
    BY <1>1, <2>1
<1>5. Deletes(d) = OldIDs(d) \cup (Fetched(d) \ LocalIDs(d))
  BY <1>1 DEF Deletes
<1>6. Keys(d) = (Inserts(d) \cup Kept) \ Deletes(d)
  BY DEF Keys
<1> HIDE DEF Kept
<1>7. Keys(d) = Inserts(d) \cup Kept
  BY <1>1, <1>2, <1>3, <1>4, <1>5, <1>6
<1> QED
  BY <1>1, <1>2, <1>3, <1>4, <1>5, <1>7

(* For any number of devices, conversations and failures: the manifest lists     *)
(* one record for each conversation, and the server has it.  No upload drops,    *)
(* doubles or leaves dangling what another device uploaded, though devices       *)
(* generate theirs from what they know, with or without a sync, and after        *)
(* refusals, lost answers and crashes that bring back old rows, as long as none  *)
(* of these rows has a change without its mark.                                  *)
THEOREM ManifestStaysOne == Spec => []OneRecordEach
<1>1. (forgotten = {} => MInv) => OneRecordEach
  <2> SUFFICES ASSUME ServerInv, NEW c \in Conversations
               PROVE  Cardinality({id \in manifest : id.conversation = c}) = 1
    BY DEF MInv, ServerInv, OneRecordEach
  <2>1. PICK id \in manifest : id.conversation = c
    BY DEF ServerInv, OneEach
  <2>2. {other \in manifest : other.conversation = c} = {id}
    BY <2>1 DEF ServerInv, OneEach
  <2> QED
    BY <2>2, FS_Singleton
<1> QED
  BY <1>1, ManifestInvariance, PTL

(* A device none of whose requests failed, and that did not crash, never gets    *)
(* the error of generateManifest: after each sync, whatever the others uploaded  *)
(* during it, its inserts, deletes and keys agree with the manifest it fetched.  *)
(* That is so as long as no crash brought back a change without its mark: after  *)
(* one, it is left to the run.                                                   *)
THEOREM WritesStayValid == Spec => [](forgotten = {} => WritesAreValid)
<1>1. IInv /\ (forgotten = {} => MInv) => (forgotten = {} => WritesAreValid)
  BY ValidFromSync DEF WritesAreValid
<1> QED
  BY <1>1, Invariance, ManifestInvariance, PTL
=============================================================================
