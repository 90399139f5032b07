--------------------------- MODULE SendStatesProofs ---------------------------
(***************************************************************************)
(* Theorems about SendStates, for any recipients, receipts, attempts and   *)
(* crashes: every reachable state is well typed, and, as long as           *)
(* MessageController does not forget a model that an attempt holds, the    *)
(* rows are what DeliveryStatus promises: a status claims only what has    *)
(* happened and never goes backwards; nobody reached is sent to again; and *)
(* no receipt of somebody with an entry is lost but to a crash.            *)
(***************************************************************************)
EXTENDS SendStates, TLAPS

-----------------------------------------------------------------------------
(* Statuses *)

Statuses == SendStatus \cup {"none"}
States_ == [All -> Statuses]

LEMMA Numbers ==
  /\ STATUS_NUMBERS["none"] = -1 /\ STATUS_NUMBERS["Failed"] = 0
  /\ STATUS_NUMBERS["Pending"] = 1 /\ STATUS_NUMBERS["Sent"] = 2
  /\ STATUS_NUMBERS["Delivered"] = 3 /\ STATUS_NUMBERS["Read"] = 4
  /\ STATUS_NUMBERS["Viewed"] = 5
  BY DEF STATUS_NUMBERS

LEMMA AtLeastIsAnOrder ==
  /\ \A a \in Statuses : AtLeast(a, a) /\ AtLeast(a, "none")
  /\ \A a, b, c \in Statuses : AtLeast(a, b) /\ AtLeast(b, c) => AtLeast(a, c)
  /\ \A a, b \in Statuses : AtLeast(a, b) \/ AtLeast(b, a)
  BY Numbers DEF AtLeast, Statuses, SendStatus

\* A set of statuses that is not empty has a greatest one.
LEMMA GreatestStatus ==
  ASSUME NEW S \in SUBSET Statuses, S # {}
  PROVE  \E s \in S : \A t \in S : AtLeast(s, t)
<1>1. CASE "Viewed" \in S
  BY <1>1, Numbers DEF AtLeast, Statuses, SendStatus
<1>2. CASE "Viewed" \notin S /\ "Read" \in S
  BY <1>2, Numbers DEF AtLeast, Statuses, SendStatus
<1>3. CASE S \cap {"Viewed", "Read"} = {} /\ "Delivered" \in S
  BY <1>3, Numbers DEF AtLeast, Statuses, SendStatus
<1>4. CASE S \cap {"Viewed", "Read", "Delivered"} = {} /\ "Sent" \in S
  BY <1>4, Numbers DEF AtLeast, Statuses, SendStatus
<1>5. CASE S \cap {"Viewed", "Read", "Delivered", "Sent"} = {} /\ "Pending" \in S
  BY <1>5, Numbers DEF AtLeast, Statuses, SendStatus
<1>6. CASE S \cap {"Viewed", "Read", "Delivered", "Sent", "Pending"} = {} /\ "Failed" \in S
  BY <1>6, Numbers DEF AtLeast, Statuses, SendStatus
<1>7. CASE S = {"none"}
  BY <1>7, Numbers DEF AtLeast
<1> QED
  BY <1>1, <1>2, <1>3, <1>4, <1>5, <1>6, <1>7 DEF Statuses, SendStatus

\* What the table may become where it says old
Forward(old, new) == AtLeast(new, old) \/ (old = "Pending" /\ new = "Failed")

\* sendStateReducer takes the old status or the new one; it only goes back from
\* Pending to Failed.
LEMMA ReducerWorks ==
  ASSUME NEW s \in Statuses, NEW n \in SendStatus
  PROVE  /\ sendStateReducer(s, n) \in {s, n}
         /\ sendStateReducer(s, n) \in Statuses
         /\ n # "Failed" => AtLeast(sendStateReducer(s, n), s)
         /\ n # "Failed" => AtLeast(sendStateReducer(s, n), n)
         /\ \A w \in Statuses : AtLeast(s, w) => Forward(w, sendStateReducer(s, n))
  BY Numbers DEF sendStateReducer, maxStatus, AtLeast, Forward, Statuses, SendStatus

LEMMA ReducedWorks ==
  ASSUME NEW states \in States_, NEW who \in SUBSET All, NEW n \in SendStatus
  PROVE  /\ Reduced(states, who, n) \in States_
         /\ \A p \in All : /\ p \notin who => Reduced(states, who, n)[p] = states[p]
                           /\ p \in who => Reduced(states, who, n)[p] =
                                               sendStateReducer(states[p], n)
  BY ReducerWorks DEF Reduced, States_

LEMMA EarlyWorks ==
  ASSUME NEW states \in States_, collection \subseteq Receipts
  PROVE  /\ EarlyReceipts(states) \in States_
         /\ \A p \in All :
              \/ EarlyReceipts(states)[p] = states[p]
              \/ /\ AtLeast(EarlyReceipts(states)[p], states[p])
                 /\ [from |-> p, type |-> EarlyReceipts(states)[p]] \in collection
<1>1. ASSUME NEW p \in All
      PROVE  /\ EarlyReceipts(states)[p] \in Statuses
             /\ \/ EarlyReceipts(states)[p] = states[p]
                \/ /\ AtLeast(EarlyReceipts(states)[p], states[p])
                   /\ [from |-> p, type |-> EarlyReceipts(states)[p]] \in collection
  <2> DEFINE types == {k.type : k \in {r \in collection : r.from = p}}
             S == types \cup {states[p]}
             best == CHOOSE s \in S : \A t \in S : AtLeast(s, t)
  <2>1. EarlyReceipts(states)[p] =
            IF types = {} \/ states[p] = "none" THEN states[p] ELSE best
    BY DEF EarlyReceipts
  <2>2. \A t \in types : t \in Statuses /\ [from |-> p, type |-> t] \in collection
    BY SendStatesAssumption DEF Statuses, SendStatus
  <2>3. states[p] \in Statuses
    BY DEF States_
  <2>4. S \in SUBSET Statuses /\ S # {}
    BY <2>2, <2>3
  <2> HIDE DEF types
  <2>5. best \in S /\ \A t \in S : AtLeast(best, t)
    <3>1. \E s \in S : \A t \in S : AtLeast(s, t)
      BY <2>4, GreatestStatus
    <3> QED
      BY <3>1
  <2> HIDE DEF best
  <2> QED
    BY <2>1, <2>2, <2>3, <2>5
<1>2. EarlyReceipts(states) = [p \in All |-> EarlyReceipts(states)[p]]
  BY DEF EarlyReceipts
<1> QED
  BY <1>1, <1>2 DEF States_

-----------------------------------------------------------------------------
(* Every reachable state is well typed *)

\* An attempt that is under way holds a model, and only such an attempt has
\* results; while a transcript is saved its model is registered.
Active == {"sending", "saving", "syncing", "sent", "thrown"}

EnvOK ==
  /\ accepted \subseteq Recipients /\ transmitting \subseteq Recipients
  /\ issued \subseteq Receipts /\ mail \subseteq issued
ReceiptsOK ==
  /\ collection \subseteq known /\ known \subseteq issued /\ dropped \subseteq known
  /\ query \in [Receipts -> {"no", "asked", "found"}]
ModelsOK ==
  /\ registered \in Models \cup {NoModel} /\ updating \in Models \cup {NoModel}
  /\ held \in Models \cup {NoModel}
  /\ model \in [Models -> States_]
RowOK == row \in States_
JobOK ==
  /\ job \in {"none", "queued", "done", "dropped"} \cup Active
  /\ attempt \in 0..MaxAttempts
  /\ passedOver \subseteq All
  /\ targets \subseteq All /\ successful \subseteq targets /\ failed \subseteq targets
JobShape ==
  /\ job \in Active => held \in Models
  /\ job \notin Active => held = NoModel /\ successful = {} /\ failed = {}
  /\ job = "sending" => successful = {} /\ failed = {}
  /\ job \in Active \cup {"queued"} => attempt >= 1
TranscriptOK ==
  /\ transcript \in {"none", "awaited", "saving", "saved", "done"}
  /\ update \in {"none", "awaited", "done"}
  /\ listed \subseteq Recipients
  /\ transcript \in {"saving", "saved"} => registered \in Models
CountsOK ==
  /\ retries \in 0..MaxRetries /\ crashes \in 0..MaxCrashes /\ cleanups \in 0..MaxCleanups

TypeInv ==
  /\ EnvOK /\ ReceiptsOK /\ ModelsOK /\ RowOK /\ JobOK /\ JobShape /\ TranscriptOK
  /\ CountsOK

LEMMA TypeInvIsEnough == TypeInv => TypeOK
<1> SUFFICES ASSUME TypeInv
             PROVE  TypeOK
  OBVIOUS
<1>1. job \in {"none", "queued", "sending", "saving", "syncing", "sent", "thrown", "done",
           "dropped"}
  BY DEF TypeInv, JobOK, Active
<1>2. model \in [Models -> [All -> SendStatus \cup {"none"}]]
  BY DEF TypeInv, ModelsOK, States_, Statuses
<1>3. row \in [All -> SendStatus \cup {"none"}]
  BY DEF TypeInv, RowOK, States_, Statuses
<1> QED
  BY <1>1, <1>2, <1>3, Zenon DEF TypeOK, TypeInv, EnvOK, ReceiptsOK, ModelsOK, JobOK, TranscriptOK,
                          CountsOK

LEMMA ModelsWork ==
  ASSUME ModelsOK, RowOK
  PROVE  /\ Registered \in Models
         /\ registered # NoModel => Registered = registered
         /\ registered = NoModel => Registered # held
         /\ \A m \in Models : States(m) \in States_
<1>1. \E m \in Models : m # held
  BY DEF Models
<1>2. Unused \in Models /\ Unused # held
  BY <1>1 DEF Unused
<1> QED
  BY <1>2 DEF ModelsOK, RowOK, Registered, States

LEMMA NoEntriesType == NoEntries \in States_
  BY DEF NoEntries, States_, Statuses

LEMMA SetType ==
  ASSUME ModelsOK, NEW m \in Models, NEW s \in States_, Set(m, s)
  PROVE  registered' \in Models /\ model' \in [Models -> States_]
  BY DEF Set, ModelsOK

LEMMA SetHeldType ==
  ASSUME ModelsOK, held \in Models, NEW s \in States_, SetHeld(s)
  PROVE  registered' = registered /\ model' \in [Models -> States_]
  BY DEF SetHeld, ModelsOK

LEMMA ForgetType ==
  ASSUME ModelsOK, NEW m \in Models, Forget(m)
  PROVE  model' \in [Models -> States_]
  BY NoEntriesType DEF Forget, ModelsOK

LEMMA MarkFailedType ==
  ASSUME ModelsOK, RowOK, NEW m \in Models, MarkFailed(m)
  PROVE  /\ registered' \in Models \cup {NoModel}
         /\ registered # NoModel => registered' = registered
         /\ model' \in [Models -> States_]
         /\ row' \in States_
<1> DEFINE new == Reduced(States(m), All, "Failed")
<1>1. new \in States_
  BY ModelsWork, ReducedWorks DEF SendStatus
<1>2. /\ row' = new
      /\ registered' = IF registered = NoModel /\ m # held THEN m ELSE registered
      /\ model' = [model EXCEPT ![m] = IF m = registered' THEN new ELSE NoEntries]
  BY DEF MarkFailed
<1> HIDE DEF new
<1> QED
  BY <1>1, <1>2, NoEntriesType DEF ModelsOK

LEMMA TypeInit == Init => TypeInv
<1> SUFFICES ASSUME Init
             PROVE  TypeInv
  OBVIOUS
<1>1. EnvOK /\ ReceiptsOK
  BY DEF Init, EnvOK, ReceiptsOK
<1>2. ModelsOK /\ RowOK
  BY NoEntriesType DEF Init, ModelsOK, RowOK
<1>3. JobOK /\ JobShape
  BY SendStatesAssumption DEF Init, JobOK, JobShape, Active
<1>4. TranscriptOK /\ CountsOK
  BY SendStatesAssumption DEF Init, TranscriptOK, CountsOK
<1> QED
  BY <1>1, <1>2, <1>3, <1>4 DEF TypeInv

\* What an action leaves alone stays well typed.
LEMMA Frames ==
  ASSUME TypeInv
  PROVE  /\ UNCHANGED envVars => EnvOK'
         /\ UNCHANGED receiptVars /\ issued' = issued => ReceiptsOK'
         /\ UNCHANGED <<registered, updating, held, model>> => ModelsOK'
         /\ UNCHANGED row => RowOK'
         /\ UNCHANGED <<job, attempt, targets, successful, failed, passedOver>> => JobOK'
         /\ UNCHANGED <<job, attempt, held, successful, failed>> => JobShape'
         /\ UNCHANGED transcriptVars /\ registered' = registered => TranscriptOK'
         /\ UNCHANGED transcriptVars /\ registered' \in Models => TranscriptOK'
         /\ UNCHANGED <<retries, crashes, cleanups>> => CountsOK'
<1> USE DEF TypeInv
<1>1. UNCHANGED envVars => EnvOK'
  BY DEF envVars, EnvOK
<1>2. UNCHANGED receiptVars /\ issued' = issued => ReceiptsOK'
  BY DEF receiptVars, ReceiptsOK
<1>3. UNCHANGED <<registered, updating, held, model>> => ModelsOK'
  BY DEF ModelsOK
<1>4. UNCHANGED row => RowOK'
  BY DEF RowOK
<1>5. UNCHANGED <<job, attempt, targets, successful, failed, passedOver>> => JobOK'
  BY DEF JobOK
<1>6. UNCHANGED <<job, attempt, held, successful, failed>> => JobShape'
  BY DEF JobShape
<1>7. UNCHANGED transcriptVars /\ registered' = registered => TranscriptOK'
  BY DEF transcriptVars, TranscriptOK
<1>8. UNCHANGED transcriptVars /\ registered' \in Models => TranscriptOK'
  BY DEF transcriptVars, TranscriptOK
<1>9. UNCHANGED <<retries, crashes, cleanups>> => CountsOK'
  BY DEF CountsOK
<1> QED
  BY <1>1, <1>2, <1>3, <1>4, <1>5, <1>6, <1>7, <1>8, <1>9

LEMMA TypeStep ==
  ASSUME TypeInv, [Next]_vars
  PROVE  TypeInv'
<1> USE DEF TypeInv
<1>0. NoModel \notin Models
  BY DEF NoModel, Models
<1>1. CASE UNCHANGED vars
  BY <1>1, Frames DEF vars, EnvOK, ReceiptsOK, ModelsOK, RowOK, JobOK, JobShape, TranscriptOK, CountsOK, envVars, receiptVars, jobVars, transcriptVars
<1>2. ASSUME NEW p \in Recipients, ServerAccepts(p)
      PROVE  TypeInv'
  <2>1. EnvOK'
    BY <1>2 DEF ServerAccepts, EnvOK
  <2> QED
    BY <1>2, <2>1, Frames DEF ServerAccepts, jobVars
<1>3. ASSUME NEW k \in Receipts, IssueReceipt(k)
      PROVE  TypeInv'
  <2>1. EnvOK' /\ ReceiptsOK'
    BY <1>3 DEF IssueReceipt, EnvOK, receiptVars, ReceiptsOK
  <2> QED
    BY <1>3, <2>1, Frames DEF IssueReceipt, jobVars
<1>4. ASSUME NEW k \in Receipts, ReceiveReceipt(k)
      PROVE  TypeInv'
  <2>1. EnvOK' /\ ReceiptsOK'
    BY <1>4 DEF ReceiveReceipt, EnvOK, ReceiptsOK
  <2> QED
    BY <1>4, <2>1, Frames DEF ReceiveReceipt, jobVars
<1>5. ASSUME NEW k \in Receipts, QueryAnswered(k)
      PROVE  TypeInv'
  <2>1. ReceiptsOK'
    BY <1>5 DEF QueryAnswered, envVars, ReceiptsOK
  <2> QED
    BY <1>5, <2>1, Frames DEF QueryAnswered, jobVars
<1>6. ASSUME NEW k \in Receipts, HandleReceipt(k)
      PROVE  TypeInv'
  <2>1. ReceiptsOK'
    BY <1>6 DEF HandleReceipt, envVars, ReceiptsOK
  <2> DEFINE m == Registered
             old == States(m)
             entry == IF old[k.from] = "none" THEN "Sent" ELSE old[k.from]
             new == sendStateReducer(entry, k.type)
  <2>2. m \in Models /\ old \in States_
    BY ModelsWork
  <2>3. k.from \in All /\ k.type \in SendStatus
    BY SendStatesAssumption DEF All, SendStatus
  <2>4. new \in Statuses
    <3>1. entry \in Statuses
      BY <2>2, <2>3 DEF States_, Statuses, SendStatus
    <3> QED
      BY <2>3, <3>1, ReducerWorks
  <2>5. \/ Set(m, old) /\ UNCHANGED updating
        \/ Set(m, [old EXCEPT ![k.from] = new]) /\ updating' = m
    BY <1>6 DEF HandleReceipt, queueUpdateMessage
  <2>6. [old EXCEPT ![k.from] = new] \in States_
    BY <2>2, <2>4 DEF States_
  <2> HIDE DEF m, old, new
  <2>7. registered' \in Models /\ model' \in [Models -> States_] /\ updating' \in Models \cup {NoModel}
    BY <2>2, <2>5, <2>6, SetType DEF ModelsOK
  <2>8. ModelsOK'
    BY <1>6, <2>7 DEF HandleReceipt, jobVars, ModelsOK
  <2> QED
    BY <1>6, <2>1, <2>7, <2>8, Frames DEF HandleReceipt, jobVars
<1>7. CASE enqueueMessageForSend
  <2>1. [p \in All |-> "Pending"] \in States_
    BY DEF States_, Statuses, SendStatus
  <2>2. registered' \in Models /\ model' \in [Models -> States_]
    BY <1>7, <2>1, ModelsWork, SetType DEF enqueueMessageForSend
  <2>3. ModelsOK' /\ RowOK'
    BY <1>7, <2>1, <2>2 DEF enqueueMessageForSend, ModelsOK, RowOK
  <2>4. JobOK' /\ JobShape'
    BY <1>7, SendStatesAssumption DEF enqueueMessageForSend, JobOK, JobShape, Active
  <2> QED
    BY <1>7, <2>2, <2>3, <2>4, Frames DEF enqueueMessageForSend, envVars
<1>8. CASE retrySend
  <2>0. PICK gone \in SUBSET MayLeave :
          LET m == Registered
              new == [p \in All |-> IF isSent(States(m)[p]) \/ p \in gone THEN States(m)[p]
                                    ELSE sendStateReducer(States(m)[p], "Pending")]
          IN  Set(m, new) /\ row' = new
    BY <1>8 DEF retrySend
  <2> DEFINE m == Registered
             new == [p \in All |-> IF isSent(States(m)[p]) \/ p \in gone THEN States(m)[p]
                                   ELSE sendStateReducer(States(m)[p], "Pending")]
  <2>1. m \in Models /\ States(m) \in States_
    BY ModelsWork
  <2>2. new \in States_
    <3>1. \A p \in All : States(m)[p] \in Statuses
                         /\ sendStateReducer(States(m)[p], "Pending") \in Statuses
      BY <2>1, ReducerWorks DEF States_, SendStatus
    <3> HIDE DEF m
    <3> QED
      BY <3>1 DEF States_
  <2>3. Set(m, new) /\ row' = new
    BY <2>0
  <2> HIDE DEF m, new
  <2>4. registered' \in Models /\ model' \in [Models -> States_]
    BY <2>1, <2>2, <2>3, SetType
  <2>5. ModelsOK' /\ RowOK'
    BY <1>8, <2>2, <2>3, <2>4 DEF retrySend, ModelsOK, RowOK
  <2>6. JobOK' /\ JobShape' /\ CountsOK'
    BY <1>8, SendStatesAssumption DEF retrySend, JobOK, JobShape, CountsOK, Active
  <2> QED
    BY <1>8, <2>4, <2>5, <2>6, Frames DEF retrySend, envVars
<1>9. CASE StartRun
  <2>1. PICK skipped \in SUBSET MayLeave :
           /\ Set(Registered, States(Registered))
           /\ targets' = Unreached(Registered) \ skipped
           /\ passedOver' = Unreached(Registered) \cap skipped
           /\ transmitting' = transmitting \cup (targets' \ {Me})
           /\ \/ job' = "done" /\ held' = held
              \/ job' \in {"syncing", "sending"} /\ held' = Registered
    BY <1>9 DEF StartRun
  <2>2. targets' \subseteq All /\ passedOver' \subseteq All
    BY <2>1 DEF Unreached
  <2>3. registered' \in Models /\ model' \in [Models -> States_] /\ Registered \in Models
    BY <2>1, ModelsWork, SetType
  <2>4. ModelsOK'
    BY <1>9, <2>1, <2>3 DEF StartRun, ModelsOK
  <2>5. EnvOK' /\ ReceiptsOK'
    BY <1>9, <2>1, <2>2 DEF StartRun, EnvOK, ReceiptsOK, receiptVars, All
  <2>6. JobOK' /\ JobShape'
    BY <1>9, <2>1, <2>2, <2>3 DEF StartRun, JobOK, JobShape, Active
  <2> QED
    BY <1>9, <2>3, <2>4, <2>5, <2>6, Frames DEF StartRun
<1>10. CASE RunThrows \/ RunReturns
  <2>1. /\ Set(Registered, States(Registered))
        /\ \/ job' = "thrown" /\ held' = Registered /\ UNCHANGED passedOver
           \/ job' = "dropped" /\ held' = held /\ passedOver' = Unreached(Registered)
        /\ job = "queued"
        /\ UNCHANGED <<envVars, updating, row, receiptVars, attempt, targets, successful,
                       failed, retries, transcriptVars, crashes, cleanups>>
    BY <1>10 DEF RunThrows, RunReturns
  <2>2. registered' \in Models /\ model' \in [Models -> States_] /\ Registered \in Models
    BY <2>1, ModelsWork, SetType
  <2>3. ModelsOK'
    BY <2>1, <2>2 DEF ModelsOK
  <2>4. JobOK' /\ JobShape'
    BY <2>1, <2>2 DEF Unreached, JobOK, JobShape, Active
  <2> QED
    BY <2>1, <2>2, <2>3, <2>4, Frames DEF envVars
<1>11. CASE RunGivesUp
  <2>1. /\ registered' \in Models \cup {NoModel}
        /\ registered # NoModel => registered' = registered
        /\ model' \in [Models -> States_] /\ row' \in States_
    BY <1>11, ModelsWork, MarkFailedType DEF RunGivesUp
  <2>2. ModelsOK' /\ RowOK'
    BY <1>11, <2>1 DEF RunGivesUp, ModelsOK, RowOK
  <2>3. JobOK' /\ JobShape'
    BY <1>11 DEF RunGivesUp, JobOK, JobShape, Active
  <2>4. registered # NoModel => registered' \in Models
    BY <2>1 DEF ModelsOK
  <2> QED
    BY <1>11, <2>1, <2>2, <2>3, <2>4, Frames DEF RunGivesUp, envVars, ModelsOK
<1>12. CASE SendEnds
  <2>1. held \in Models
    BY <1>12 DEF SendEnds, JobShape, Active
  <2>2. RowOK'
    BY <1>12, <2>1 DEF SendEnds, RowOK, ModelsOK
  <2>3. JobOK' /\ JobShape'
    BY <1>12, <2>1 DEF SendEnds, JobOK, JobShape, Active
  <2> QED
    BY <1>12, <2>2, <2>3, Frames DEF SendEnds, envVars
<1>13. CASE ApplyResult
  <2> DEFINE sent == Reduced(StatesNow, successful, "Sent")
             new == IF LastAttempt THEN Reduced(sent, failed, "Failed") ELSE sent
  <2>1. held \in Models /\ successful \subseteq All /\ failed \subseteq All
    BY <1>13 DEF ApplyResult, JobShape, Active, JobOK
  <2>2. StatesNow \in States_
    BY <2>1 DEF StatesNow, ModelsOK
  <2>3. sent \in States_
    BY <2>1, <2>2, ReducedWorks DEF SendStatus
  <2> HIDE DEF sent
  <2>4. new \in States_
    BY <2>1, <2>3, ReducedWorks DEF SendStatus
  <2>5. SetHeld(new) /\ row' = new
    BY <1>13 DEF ApplyResult, sent
  <2> HIDE DEF new
  <2>6. registered' = registered /\ model' \in [Models -> States_]
    BY <2>1, <2>4, <2>5, SetHeldType
  <2>7. ModelsOK' /\ RowOK'
    BY <1>13, <2>4, <2>5, <2>6 DEF ApplyResult, ModelsOK, RowOK
  <2>8. JobOK' /\ JobShape'
    BY <1>13, <2>1 DEF ApplyResult, JobOK, JobShape, Active
  <2> QED
    BY <1>13, <2>6, <2>7, <2>8, Frames DEF ApplyResult, envVars
<1>14. CASE SyncSent
  <2> DEFINE new == Reduced(model[held], {Me}, "Sent")
  <2>1. held \in Models
    BY <1>14 DEF SyncSent, JobShape, Active
  <2>2. model[held] \in States_ /\ {Me} \subseteq All
    BY <2>1 DEF ModelsOK, All
  <2>3. new \in States_
    BY <2>2, ReducedWorks DEF SendStatus
  <2>4. SetHeld(new) /\ row' = new
    BY <1>14 DEF SyncSent
  <2> HIDE DEF new
  <2>5. registered' = registered /\ model' \in [Models -> States_]
    BY <2>1, <2>3, <2>4, SetHeldType
  <2>6. ModelsOK' /\ RowOK'
    BY <1>14, <2>3, <2>4, <2>5 DEF SyncSent, ModelsOK, RowOK
  <2>7. JobOK' /\ JobShape'
    BY <1>14, <2>1 DEF SyncSent, JobOK, JobShape, Active
  <2> QED
    BY <1>14, <2>5, <2>6, <2>7, Frames DEF SyncSent, envVars
<1>15. CASE SyncFails
  <2>1. held \in Models
    BY <1>15 DEF SyncFails, JobShape, Active
  <2>2. RowOK'
    BY <1>15, <2>1 DEF SyncFails, RowOK, ModelsOK
  <2>3. JobOK' /\ JobShape'
    BY <1>15, <2>1 DEF SyncFails, JobOK, JobShape, Active
  <2> QED
    BY <1>15, <2>2, <2>3, Frames DEF SyncFails, envVars
<1>16. CASE RunEnds
  <2>1. held \in Models
    BY <1>16 DEF RunEnds, JobShape, Active
  <2>2. model' \in [Models -> States_]
    <3>1. model' = model \/ Forget(held)
      BY <1>16, Zenon DEF RunEnds
    <3> QED
      BY <2>1, <3>1, ForgetType DEF ModelsOK
  <2>3. ModelsOK'
    BY <1>16, <2>2 DEF RunEnds, Release, ModelsOK
  <2>4. JobOK' /\ JobShape'
    BY <1>16, <2>1 DEF RunEnds, Release, JobOK, JobShape, Active
  <2> QED
    BY <1>16, <2>3, <2>4, Frames DEF RunEnds, envVars
<1>17. ASSUME NEW stop \in BOOLEAN, RunFails(stop)
       PROVE  TypeInv'
  <2>1. held \in Models /\ attempt \in 1..MaxAttempts
    <3>1. job \in Active
      BY <1>17 DEF RunFails, Active
    <3> QED
      BY <1>17, <3>1 DEF JobShape, JobOK
  <2>2. /\ registered' \in Models \cup {NoModel}
        /\ registered # NoModel => registered' = registered
        /\ model' \in [Models -> States_] /\ row' \in States_
    <3>1. CASE MarkFailed(held)
      BY <2>1, <3>1, MarkFailedType
    <3>2. CASE UNCHANGED <<registered, row>> /\ (model' = model \/ Forget(held))
      BY <2>1, <3>2, ForgetType DEF ModelsOK, RowOK
    <3> QED
      BY <1>17, <3>1, <3>2, Zenon DEF RunFails
  <2>3. ModelsOK' /\ RowOK'
    BY <1>17, <2>2 DEF RunFails, Release, ModelsOK, RowOK
  <2>4. JobOK' /\ JobShape'
    BY <1>17, <2>1, SendStatesAssumption DEF RunFails, Release, LastAttempt, JobOK, JobShape, Active
  <2>5. registered # NoModel => registered' \in Models
    BY <2>2 DEF ModelsOK
  <2> QED
    BY <1>17, <2>2, <2>3, <2>4, <2>5, Frames DEF RunFails, envVars, ModelsOK
<1>18. CASE SentTranscript
  <2> DEFINE states == [p \in All |-> IF p \in listed \cup {Me} THEN "Sent" ELSE "none"]
  <2>1. states \in States_
    BY DEF States_, Statuses, SendStatus
  <2>2. collection \subseteq Receipts
    BY DEF EnvOK, ReceiptsOK
  <2>3. Set(Registered, EarlyReceipts(states)) /\ TakeEarly(states)
    BY <1>18 DEF SentTranscript
  <2>4. EarlyReceipts(states) \in States_
    BY <2>1, <2>2, EarlyWorks
  <2> HIDE DEF states
  <2>5. registered' \in Models /\ model' \in [Models -> States_]
    BY <2>3, <2>4, ModelsWork, SetType
  <2>6. ModelsOK'
    BY <1>18, <2>5 DEF SentTranscript, jobVars, ModelsOK
  <2>7. ReceiptsOK'
    BY <1>18, <2>3 DEF SentTranscript, TakeEarly, envVars, ReceiptsOK
  <2>8. TranscriptOK'
    BY <1>18, <2>5 DEF SentTranscript, TranscriptOK
  <2> QED
    BY <1>18, <2>6, <2>7, <2>8, Frames DEF SentTranscript, jobVars
<1>19. CASE SaveNew
  <2>1. registered \in Models
    BY <1>19 DEF SaveNew, TranscriptOK
  <2>2. RowOK'
    BY <1>19, <2>1 DEF SaveNew, RowOK, ModelsOK
  <2>3. TranscriptOK'
    BY <1>19, <2>1 DEF SaveNew, TranscriptOK
  <2> QED
    BY <1>19, <2>2, <2>3, Frames DEF SaveNew, envVars, jobVars
<1>20. CASE SecondRun
  <2> DEFINE new == EarlyReceipts(model[registered])
  <2>1. registered \in Models
    BY <1>20 DEF SecondRun, TranscriptOK
  <2>2. model[registered] \in States_ /\ collection \subseteq Receipts
    BY <2>1 DEF ModelsOK, EnvOK, ReceiptsOK
  <2>3. new \in States_
    BY <2>2, EarlyWorks
  <2>4. Set(registered, new) /\ (row' = row \/ row' = new) /\ TakeEarly(model[registered])
    BY <1>20 DEF SecondRun
  <2> HIDE DEF new
  <2>5. registered' \in Models /\ model' \in [Models -> States_]
    BY <2>1, <2>3, <2>4, SetType
  <2>6. ModelsOK' /\ RowOK'
    BY <1>20, <2>3, <2>4, <2>5 DEF SecondRun, jobVars, ModelsOK, RowOK
  <2>7. ReceiptsOK'
    BY <1>20, <2>4 DEF SecondRun, TakeEarly, envVars, ReceiptsOK
  <2>8. TranscriptOK'
    BY <1>20, <2>5 DEF SecondRun, TranscriptOK
  <2> QED
    BY <1>20, <2>6, <2>7, <2>8, Frames DEF SecondRun, jobVars
<1>21. CASE UpdateTranscript
  <2> DEFINE m == Registered
             new == [p \in All |-> IF p \in listed \cup {Me} THEN States(m)[p]
                                   ELSE sendStateReducer(States(m)[p], "Sent")]
  <2>1. m \in Models /\ States(m) \in States_
    BY ModelsWork
  <2>2. new \in States_
    <3>1. \A p \in All : States(m)[p] \in Statuses
                         /\ sendStateReducer(States(m)[p], "Sent") \in Statuses
      BY <2>1, ReducerWorks DEF States_, SendStatus
    <3> HIDE DEF m
    <3> QED
      BY <3>1 DEF States_
  <2>3. Set(m, new) /\ (row' = row \/ row' = new)
    BY <1>21 DEF UpdateTranscript
  <2> HIDE DEF m, new
  <2>4. registered' \in Models /\ model' \in [Models -> States_]
    BY <2>1, <2>2, <2>3, SetType
  <2>5. ModelsOK' /\ RowOK'
    BY <1>21, <2>2, <2>3, <2>4 DEF UpdateTranscript, jobVars, ModelsOK, RowOK
  <2>6. TranscriptOK'
    BY <1>21, <2>4 DEF UpdateTranscript, TranscriptOK
  <2> QED
    BY <1>21, <2>5, <2>6, Frames DEF UpdateTranscript, envVars, jobVars
<1>22. CASE FlushUpdate
  <2>1. updating \in Models
    BY <1>22 DEF FlushUpdate, ModelsOK
  <2>2. ModelsOK' /\ RowOK'
    BY <1>22, <2>1 DEF FlushUpdate, jobVars, ModelsOK, RowOK
  <2> QED
    BY <1>22, <2>2, Frames DEF FlushUpdate, envVars, jobVars
<1>23. CASE Cleanup
  <2>1. registered \in Models
    BY <1>23 DEF Cleanup, ModelsOK
  <2>2. model' \in [Models -> States_]
    <3>1. model' = model \/ Forget(registered)
      BY <1>23, Zenon DEF Cleanup
    <3> QED
      BY <2>1, <3>1, ForgetType DEF ModelsOK
  <2>3. ModelsOK'
    BY <1>23, <2>2 DEF Cleanup, jobVars, ModelsOK
  <2>4. TranscriptOK' /\ CountsOK'
    BY <1>23, SendStatesAssumption DEF Cleanup, transcriptVars, jobVars, TranscriptOK, CountsOK
  <2> QED
    BY <1>23, <2>3, <2>4, Frames DEF Cleanup, envVars, jobVars, receiptVars
<1>24. CASE CrashAndRestart
  <2>1. EnvOK'
    BY <1>24 DEF CrashAndRestart, EnvOK, ReceiptsOK
  <2>2. ReceiptsOK'
    BY <1>24 DEF CrashAndRestart, EnvOK, ReceiptsOK
  <2>3. ModelsOK'
    BY <1>24, NoEntriesType DEF CrashAndRestart, Release, ModelsOK
  <2>4. JobOK' /\ JobShape'
    BY <1>24, SendStatesAssumption DEF CrashAndRestart, Release, JobOK, JobShape, Active
  <2>5. TranscriptOK'
    BY <1>24 DEF CrashAndRestart, TranscriptOK
  <2>6. CountsOK'
    BY <1>24, SendStatesAssumption DEF CrashAndRestart, CountsOK
  <2> QED
    BY <1>24, <2>1, <2>2, <2>3, <2>4, <2>5, <2>6, Frames DEF CrashAndRestart
<1> QED
  BY <1>1, <1>2, <1>3, <1>4, <1>5, <1>6, <1>7, <1>8, <1>9, <1>10, <1>11, <1>12, <1>13, <1>14, <1>15, <1>16,
     <1>17, <1>18, <1>19, <1>20, <1>21, <1>22, <1>23, <1>24
     DEF Next, Recipient, Receipt, Run, Transcript

LEMMA WellTyped == Spec => []TypeInv
  BY TypeInit, TypeStep, PTL DEF Spec

\* Whatever the jobs, the receipts, the transcripts and the crashes do, the
\* statuses stay statuses of known recipients, an attempt has results of its
\* targets only, and what memory knows of receipts was issued.
THEOREM TypeCorrect == Spec => []TypeOK
<1> QED
  BY WellTyped, TypeInvIsEnough, PTL

-----------------------------------------------------------------------------
(* The rows are what DeliveryStatus promises *)

\* What a status says has happened
Claims(p, s) ==
  /\ s = "Sent" /\ p # Me => p \in accepted
  /\ AtLeast(s, "Delivered") => [from |-> p, type |-> s] \in issued

True(states) == \A p \in All : Claims(p, states[p])
Ahead(states) == \A p \in All : AtLeast(states[p], row[p])
MayFollow(states) == \A p \in All : Forward(row[p], states[p])

\* There is one model, which memory, the attempt and the batcher share.
OneModel ==
  /\ held # NoModel => registered = held
  /\ updating # NoModel => updating = registered
\* What the table and the models show has happened, and the model is never behind
\* the table.
TableTrue == True(row)
ModelsTrue == \A m \in Models : True(model[m])
ModelAhead == registered # NoModel => Ahead(model[registered])
ResultsHold == successful \subseteq accepted
QueriesKnown == \A k \in Receipts : query[k] # "no" => k \in known
\* A message of another device was sent to all; until the message is saved, here or
\* from its transcript, there is no row.
Elsewhere ==
  /\ transcript # "none" => job = "none"
  /\ transcript # "none" \/ update # "none" => accepted = Recipients
  /\ job = "none" /\ transcript \in {"none", "awaited", "saving"} => row = NoEntries

RefInv ==
  /\ OneModel /\ TableTrue /\ ModelsTrue /\ ModelAhead /\ ResultsHold /\ QueriesKnown
  /\ Elsewhere

\* A step that registers the current model with the given states, and may write
\* them into the row.
Put(states) ==
  /\ Set(Registered, states)
  /\ \/ row' = row /\ Ahead(states)
     \/ row' = states /\ MayFollow(states)
  /\ states \in States_ /\ True(states)

LEMMA Current ==
  ASSUME TypeInv, RefInv
  PROVE  /\ Registered \in Models
         /\ States(Registered) \in States_
         /\ True(States(Registered))
         /\ Ahead(States(Registered))
         /\ registered # NoModel => States(Registered) = model[registered]
         /\ held # NoModel => Registered = held
<1>1. /\ Registered \in Models /\ States(Registered) \in States_
      /\ registered # NoModel => Registered = registered
      /\ registered = NoModel => Registered # held
  BY ModelsWork DEF TypeInv
<1>2. CASE registered # NoModel
  <2>1. States(Registered) = model[registered]
    BY <1>1, <1>2 DEF States
  <2>2. True(model[registered]) /\ Ahead(model[registered])
    BY <1>1, <1>2 DEF RefInv, ModelsTrue, ModelAhead
  <2> QED
    BY <1>1, <1>2, <2>1, <2>2 DEF RefInv, OneModel
<1>3. CASE registered = NoModel
  <2>1. States(Registered) = row
    BY <1>1, <1>3 DEF States, Models, NoModel
  <2>2. True(row) /\ held = NoModel
    BY <1>3 DEF RefInv, TableTrue, OneModel
  <2>3. Ahead(row)
    BY AtLeastIsAnOrder DEF Ahead, TypeInv, RowOK, States_
  <2> QED
    BY <1>1, <1>3, <2>1, <2>2, <2>3
<1> QED
  BY <1>2, <1>3

LEMMA AheadFollows ==
  ASSUME NEW s, Ahead(s)
  PROVE  MayFollow(s)
  BY DEF Ahead, MayFollow, Forward

\* Reduced leaves what it is given true and ahead of the table.
LEMMA ReducedKeeps ==
  ASSUME NEW s \in States_, True(s), Ahead(s), RowOK,
         NEW who \in SUBSET All, NEW n \in SendStatus, \A p \in who : Claims(p, n)
  PROVE  /\ Reduced(s, who, n) \in States_
         /\ True(Reduced(s, who, n))
         /\ n # "Failed" => Ahead(Reduced(s, who, n))
         /\ MayFollow(Reduced(s, who, n))
<1> DEFINE r == Reduced(s, who, n)
<1>1. r \in States_
  BY ReducedWorks
<1>2. ASSUME NEW p \in All
      PROVE  /\ Claims(p, r[p])
             /\ n # "Failed" => AtLeast(r[p], row[p])
             /\ Forward(row[p], r[p])
  <2>1. s[p] \in Statuses /\ row[p] \in Statuses /\ r[p] \in Statuses
    BY <1>1 DEF States_, RowOK
  <2>2. Claims(p, s[p]) /\ AtLeast(s[p], row[p])
    BY DEF True, Ahead
  <2>3. CASE p \notin who
    <3>1. r[p] = s[p]
      BY <2>3, ReducedWorks
    <3> HIDE DEF r
    <3> QED
      BY <2>2, <3>1 DEF Forward
  <2>4. CASE p \in who
    <3>1. r[p] = sendStateReducer(s[p], n)
      BY <2>4, ReducedWorks
    <3>2. r[p] \in {s[p], n} /\ Forward(row[p], r[p]) /\ (n # "Failed" => AtLeast(r[p], s[p]))
      BY <2>1, <2>2, <3>1, ReducerWorks
    <3>3. Claims(p, n)
      BY <2>4
    <3> HIDE DEF r
    <3> QED
      BY <2>1, <2>2, <3>2, <3>3, AtLeastIsAnOrder
  <2> QED
    BY <2>3, <2>4
<1> QED
  BY <1>1, <1>2 DEF True, Ahead, MayFollow

\* No status claims anything before it is Sent.
LEMMA NothingClaimed ==
  ASSUME NEW p \in All
  PROVE  Claims(p, "none") /\ Claims(p, "Failed") /\ Claims(p, "Pending")
  BY Numbers DEF Claims, AtLeast

\* What claims are made of only grows.
LEMMA ClaimsGrow ==
  ASSUME accepted \subseteq accepted', issued \subseteq issued'
  PROVE  \A p \in All : \A s \in Statuses : Claims(p, s) => Claims(p, s)'
  BY DEF Claims, AtLeast, STATUS_NUMBERS

\* The steps that change what the table and the models show
Shows == TableTrue /\ ModelsTrue /\ ModelAhead
Written == row' = row \/ (row' \in States_ /\ MayFollow(row') /\ \A p \in All : Claims(p, row'[p]))

LEMMA PutKeeps ==
  ASSUME TypeInv, RefInv, UNCHANGED <<accepted, issued>>, NEW s, Put(s)
  PROVE  Shows' /\ Written /\ registered' = Registered
<1>1. Registered \in Models
  BY Current
<1>2. registered' = Registered /\ model' = [model EXCEPT ![Registered] = s] /\ s \in States_ /\ True(s)
  BY DEF Put, Set
<1>3. row' = row \/ row' = s
  BY DEF Put
<1>4. TableTrue'
  BY <1>2, <1>3 DEF TableTrue, True, Claims, RefInv
<1>5. ModelsTrue'
  BY <1>1, <1>2 DEF ModelsTrue, True, Claims, RefInv, TypeInv, ModelsOK
<1>6. model'[registered'] = s
  BY <1>1, <1>2 DEF TypeInv, ModelsOK
<1>7. \A p \in All : AtLeast(s[p], row'[p])
  BY <1>2, AtLeastIsAnOrder DEF Put, Ahead, States_
<1>8. ModelAhead'
  BY <1>6, <1>7 DEF ModelAhead, Ahead
<1>9. Written
  BY <1>2 DEF Put, Written, True
<1> QED
  BY <1>2, <1>4, <1>5, <1>8, <1>9 DEF Shows

\* A save of the model, or a step that leaves the table and the models alone
LEMMA SaveKeeps ==
  ASSUME TypeInv, RefInv, UNCHANGED <<accepted, issued, registered, model>>,
         row' = row \/ (registered \in Models /\ row' = model[registered])
  PROVE  Shows' /\ Written
<1>1. CASE row' = row
  BY <1>1 DEF Shows, Written, RefInv, TableTrue, ModelsTrue, ModelAhead, True, Ahead, Claims
<1>2. CASE registered \in Models /\ row' = model[registered]
  <2>1. row' \in States_ /\ True(row') /\ Ahead(row')
    BY <1>2 DEF TypeInv, ModelsOK, RefInv, ModelsTrue, ModelAhead, NoModel, Models
  <2>2. TableTrue' /\ ModelsTrue'
    BY <2>1 DEF RefInv, TableTrue, ModelsTrue, True, Claims
  <2>3. ModelAhead'
    BY <1>2, <2>1, AtLeastIsAnOrder DEF ModelAhead, Ahead, States_
  <2>4. Written
    BY <2>1, AheadFollows DEF Written, True
  <2> QED
    BY <2>2, <2>3, <2>4 DEF Shows
<1> QED
  BY <1>1, <1>2

LEMMA GrowKeeps ==
  ASSUME TypeInv, RefInv, accepted \subseteq accepted', issued \subseteq issued',
         UNCHANGED <<registered, model, row>>
  PROVE  Shows'
<1>1. TableTrue'
  BY ClaimsGrow DEF RefInv, TableTrue, True, TypeInv, RowOK, States_
<1>2. ModelsTrue'
  BY ClaimsGrow DEF RefInv, ModelsTrue, True, TypeInv, ModelsOK, States_
<1>3. ModelAhead'
  BY DEF RefInv, ModelAhead, Ahead
<1> QED
  BY <1>1, <1>2, <1>3 DEF Shows

LEMMA ForgetKeeps ==
  ASSUME TypeInv, RefInv, UNCHANGED <<accepted, issued, row>>, registered' = NoModel,
         \A m \in Models : model'[m] = model[m] \/ model'[m] = NoEntries
  PROVE  Shows'
<1>1. TableTrue' /\ ModelAhead'
  BY DEF RefInv, TableTrue, True, Claims, ModelAhead
<1>2. \A p \in All : NoEntries[p] = "none"
  BY DEF NoEntries
<1>3. ASSUME NEW m \in Models, NEW p \in All
      PROVE  Claims(p, model'[m][p])
  BY <1>2, <1>3, NothingClaimed DEF RefInv, ModelsTrue, True
<1>4. ModelsTrue'
  BY <1>3 DEF ModelsTrue, True, Claims
<1> QED
  BY <1>1, <1>4 DEF Shows

LEMMA MarkFailedPuts ==
  ASSUME TypeInv, RefInv, MarkFailed(Registered)
  PROVE  \E s : Put(s)
<1> DEFINE new == Reduced(States(Registered), All, "Failed")
<1>1. new \in States_ /\ True(new) /\ MayFollow(new)
  BY Current, ReducedKeeps, NothingClaimed DEF TypeInv, SendStatus
<1>2. /\ row' = new
      /\ registered' = IF registered = NoModel /\ Registered # held THEN Registered ELSE registered
      /\ model' = [model EXCEPT ![Registered] = IF Registered = registered' THEN new ELSE NoEntries]
  BY DEF MarkFailed
<1>3. /\ registered # NoModel => Registered = registered
      /\ registered = NoModel => Registered # held
  BY ModelsWork DEF TypeInv
<1> HIDE DEF new
<1>4. Put(new)
  BY <1>1, <1>2, <1>3 DEF Put, Set
<1> QED
  BY <1>4

LEMMA OneModelKept ==
  ASSUME TypeInv, RefInv, registered' \in {registered, Registered},
         held' \in {held, NoModel} \/ (held' = Registered /\ registered' = Registered),
         updating' \in {updating, NoModel} \/ (updating' = Registered /\ registered' = Registered)
  PROVE  OneModel'
<1>1. registered # NoModel => Registered = registered
  BY ModelsWork DEF TypeInv
<1> QED
  BY <1>1 DEF RefInv, OneModel, TypeInv, ModelsOK, NoModel, Models

LEMMA RefInit == Init => RefInv
<1> SUFFICES ASSUME Init
             PROVE  RefInv
  OBVIOUS
<1>1. row = NoEntries /\ model = [m \in Models |-> NoEntries] /\ registered = NoModel
      /\ held = NoModel /\ updating = NoModel /\ successful = {}
  BY DEF Init
<1>2. True(NoEntries)
  BY NothingClaimed DEF True, NoEntries
<1>3. OneModel /\ TableTrue /\ ModelsTrue /\ ModelAhead /\ ResultsHold
  BY <1>1, <1>2 DEF OneModel, TableTrue, ModelsTrue, ModelAhead, ResultsHold
<1>4. QueriesKnown /\ Elsewhere
  BY DEF Init, QueriesKnown, Elsewhere
<1> QED
  BY <1>3, <1>4 DEF RefInv

\* A step of DeliveryStatus, or none
DeliveryStep ==
  \/ \E p \in Recipients : accepted' = accepted \cup {p} /\ UNCHANGED <<row, issued>>
  \/ \E k \in Receipts : /\ k.from \in accepted /\ issued' = issued \cup {k}
                         /\ UNCHANGED <<row, accepted>>
  \/ Written /\ UNCHANGED <<accepted, issued>>

\* What an action leaves alone stays as it is.
LEMMA RefFrames ==
  ASSUME RefInv
  PROVE  /\ UNCHANGED <<query, known>> => QueriesKnown'
         /\ accepted \subseteq accepted' /\ successful' \in {successful, {}} => ResultsHold'
         /\ job # "none" /\ job' # "none" /\ UNCHANGED <<transcriptVars, accepted>> => Elsewhere'
         /\ UNCHANGED <<transcriptVars, accepted, job, row>> => Elsewhere'
<1>1. UNCHANGED <<query, known>> => QueriesKnown'
  BY DEF RefInv, QueriesKnown
<1>2. accepted \subseteq accepted' /\ successful' \in {successful, {}} => ResultsHold'
  BY DEF RefInv, ResultsHold
<1>3. job # "none" /\ job' # "none" /\ UNCHANGED <<transcriptVars, accepted>> => Elsewhere'
  BY DEF RefInv, Elsewhere, transcriptVars
<1>4. UNCHANGED <<transcriptVars, accepted, job, row>> => Elsewhere'
  BY DEF RefInv, Elsewhere, transcriptVars
<1> QED
  BY <1>1, <1>2, <1>3, <1>4

LEMMA RefStep ==
  ASSUME ForgetHeld = FALSE, TypeInv, RefInv, [Next]_vars
  PROVE  RefInv' /\ DeliveryStep
<1> USE DEF RefInv
<1>1. CASE UNCHANGED vars
  <2>1. UNCHANGED <<envVars, registered, held, updating, model, row, receiptVars, jobVars,
                    transcriptVars>>
    BY <1>1 DEF vars, jobVars
  <2>2. Shows' /\ Written
    BY <2>1, SaveKeeps DEF envVars
  <2> QED
    BY <2>1, <2>2, RefFrames, OneModelKept DEF Shows, DeliveryStep, envVars, receiptVars, jobVars
<1>2. ASSUME NEW p \in Recipients, ServerAccepts(p)
      PROVE  RefInv' /\ DeliveryStep
  <2>1. /\ accepted' = accepted \cup {p}
        /\ UNCHANGED <<issued, registered, model, updating, row, receiptVars, jobVars,
                       transcriptVars>>
    BY <1>2 DEF ServerAccepts
  <2>2. Shows'
    BY <2>1, GrowKeeps
  <2>3. Elsewhere'
    BY <2>1 DEF Elsewhere, jobVars, transcriptVars
  <2> QED
    BY <2>1, <2>2, <2>3, RefFrames, OneModelKept DEF Shows, DeliveryStep, receiptVars, jobVars
<1>3. ASSUME NEW k \in Receipts, IssueReceipt(k)
      PROVE  RefInv' /\ DeliveryStep
  <2>1. /\ issued' = issued \cup {k} /\ k.from \in accepted
        /\ UNCHANGED <<accepted, registered, model, updating, row, receiptVars, jobVars,
                       transcriptVars>>
    BY <1>3 DEF IssueReceipt
  <2>2. Shows'
    BY <2>1, GrowKeeps
  <2> QED
    BY <2>1, <2>2, RefFrames, OneModelKept DEF Shows, DeliveryStep, receiptVars, jobVars
<1>4. ASSUME NEW k \in Receipts, ReceiveReceipt(k)
      PROVE  RefInv' /\ DeliveryStep
  <2>1. /\ query' = [query EXCEPT ![k] = "asked"] /\ known' = known \cup {k}
        /\ UNCHANGED <<accepted, issued, registered, model, updating, row, jobVars,
                       transcriptVars>>
    BY <1>4 DEF ReceiveReceipt
  <2>2. Shows' /\ Written
    BY <2>1, SaveKeeps
  <2>3. QueriesKnown'
    BY <2>1 DEF QueriesKnown, TypeInv, ReceiptsOK
  <2> QED
    BY <2>1, <2>2, <2>3, RefFrames, OneModelKept DEF Shows, DeliveryStep, jobVars
<1>5. ASSUME NEW k \in Receipts, QueryAnswered(k)
      PROVE  RefInv' /\ DeliveryStep
  <2>1. /\ query[k] = "asked" /\ query' = [query EXCEPT ![k] = IF saved THEN "found" ELSE "no"]
        /\ UNCHANGED <<envVars, known, registered, model, updating, row, jobVars,
                       transcriptVars>>
    BY <1>5 DEF QueryAnswered
  <2>2. Shows' /\ Written
    BY <2>1, SaveKeeps DEF envVars
  <2>3. QueriesKnown'
    BY <2>1 DEF QueriesKnown, TypeInv, ReceiptsOK
  <2> QED
    BY <2>1, <2>2, <2>3, RefFrames, OneModelKept DEF Shows, DeliveryStep, jobVars, envVars
<1>6. ASSUME NEW k \in Receipts, HandleReceipt(k)
      PROVE  RefInv' /\ DeliveryStep
  <2> DEFINE m == Registered
             old == States(m)
             entry == IF old[k.from] = "none" THEN "Sent" ELSE old[k.from]
             new == sendStateReducer(entry, k.type)
             states == [old EXCEPT ![k.from] = new]
  <2>1. /\ query[k] = "found" /\ query' = [query EXCEPT ![k] = "no"]
        /\ UNCHANGED <<envVars, known, row, jobVars, transcriptVars>>
        /\ \/ new = entry /\ Set(m, old) /\ UNCHANGED updating
           \/ new # entry /\ Set(m, states) /\ updating' = m
    BY <1>6 DEF HandleReceipt, queueUpdateMessage
  <2>2. QueriesKnown'
    BY <2>1 DEF QueriesKnown, TypeInv, ReceiptsOK
  <2>3. old \in States_ /\ True(old) /\ Ahead(old)
    BY Current
  <2>4. /\ k.from \in All /\ k.type \in SendStatus \ {"Failed", "Sent"}
        /\ k = [from |-> k.from, type |-> k.type] /\ k \in issued
    <3>1. k \in [from: Recipients, type: {"Delivered", "Read", "Viewed"}]
      BY SendStatesAssumption
    <3>2. k \in known
      BY <2>1 DEF QueriesKnown
    <3> QED
      BY <3>1, <3>2 DEF All, SendStatus, TypeInv, ReceiptsOK
  <2>5. new # entry => Put(states)
    <3>1. old[k.from] \in Statuses /\ row[k.from] \in Statuses
      BY <2>3, <2>4 DEF States_, TypeInv, RowOK
    <3>2. entry \in Statuses /\ AtLeast(entry, old[k.from])
      BY <3>1, Numbers DEF AtLeast, Statuses, SendStatus
    <3>3. new \in {entry, k.type} /\ new \in Statuses /\ AtLeast(new, entry)
      BY <2>4, <3>2, ReducerWorks
    <3>4. AtLeast(old[k.from], row[k.from])
      BY <2>3, <2>4 DEF Ahead
    <3> HIDE DEF old, entry, new
    <3>5. AtLeast(new, row[k.from])
      BY <3>1, <3>2, <3>3, <3>4, AtLeastIsAnOrder
    <3>6. new # entry => Claims(k.from, new)
      BY <2>4, <3>3 DEF Claims
    <3>7. states \in States_
      BY <2>3, <3>3 DEF States_
    <3>8. new # entry => True(states) /\ Ahead(states)
      BY <2>3, <2>4, <3>5, <3>6 DEF True, Ahead, States_
    <3>9. new # entry => Set(m, states) /\ row' = row
      BY <2>1 DEF new, entry, old
    <3> QED
      BY <3>7, <3>8, <3>9 DEF Put
  <2>6. new = entry => Put(old)
    BY <2>1, <2>3 DEF Put
  <2>7. Shows' /\ Written /\ registered' = m /\ updating' \in {updating, m}
    BY <2>1, <2>5, <2>6, PutKeeps DEF envVars
  <2> QED
    BY <2>1, <2>2, <2>7, RefFrames, OneModelKept DEF Shows, DeliveryStep, jobVars, envVars
<1>7. CASE enqueueMessageForSend
  <2> DEFINE new == [p \in All |-> "Pending"]
  <2>1. /\ Set(Registered, new) /\ row' = new
        /\ transcript = "none" /\ job = "none" /\ job' = "queued"
        /\ UNCHANGED <<envVars, updating, receiptVars, held, successful, transcriptVars>>
    BY <1>7 DEF enqueueMessageForSend
  <2>2. new \in States_ /\ True(new)
    BY NothingClaimed DEF States_, Statuses, SendStatus, True
  <2>3. MayFollow(new)
    BY <2>1, AtLeastIsAnOrder DEF Elsewhere, MayFollow, Forward, NoEntries, Statuses, SendStatus
  <2> HIDE DEF new
  <2>4. Put(new)
    BY <2>1, <2>2, <2>3 DEF Put
  <2>5. Shows' /\ Written /\ registered' = Registered
    BY <2>1, <2>4, PutKeeps DEF envVars
  <2>6. Elsewhere'
    BY <2>1 DEF Elsewhere, transcriptVars, envVars
  <2> QED
    BY <2>1, <2>5, <2>6, RefFrames, OneModelKept DEF Shows, DeliveryStep, receiptVars, envVars
<1>8. CASE retrySend
  <2>0. PICK gone \in SUBSET MayLeave :
          LET m == Registered
              new == [p \in All |-> IF isSent(States(m)[p]) \/ p \in gone THEN States(m)[p]
                                    ELSE sendStateReducer(States(m)[p], "Pending")]
          IN  Set(m, new) /\ row' = new
    BY <1>8 DEF retrySend
  <2> DEFINE old == States(Registered)
             new == [p \in All |-> IF isSent(old[p]) \/ p \in gone THEN old[p]
                                   ELSE sendStateReducer(old[p], "Pending")]
  <2>1. /\ Set(Registered, new) /\ row' = new
        /\ job = "done" /\ job' = "queued"
        /\ UNCHANGED <<envVars, updating, receiptVars, held, successful, transcriptVars>>
    BY <1>8, <2>0 DEF retrySend
  <2>2. old \in States_ /\ True(old) /\ Ahead(old)
    BY Current
  <2> HIDE DEF old
  <2>3. ASSUME NEW p \in All
        PROVE  new[p] \in Statuses /\ Claims(p, new[p]) /\ AtLeast(new[p], row[p])
    <3>1. old[p] \in Statuses /\ row[p] \in Statuses
      BY <2>2 DEF States_, TypeInv, RowOK
    <3>2. Claims(p, old[p]) /\ AtLeast(old[p], row[p])
      BY <2>2 DEF True, Ahead
    <3>3. new[p] \in {old[p], "Pending"} /\ new[p] \in Statuses /\ AtLeast(new[p], old[p])
      BY <3>1, ReducerWorks, AtLeastIsAnOrder DEF SendStatus
    <3> HIDE DEF new
    <3> QED
      BY <3>1, <3>2, <3>3, NothingClaimed, AtLeastIsAnOrder
  <2>4. new \in States_
    BY <2>3 DEF States_
  <2> HIDE DEF new
  <2>5. Put(new)
    BY <2>1, <2>3, <2>4, AheadFollows DEF Put, True, Ahead
  <2>6. Shows' /\ Written /\ registered' = Registered
    BY <2>1, <2>5, PutKeeps DEF envVars
  <2> QED
    BY <2>1, <2>6, RefFrames, OneModelKept DEF Shows, DeliveryStep, receiptVars, envVars
<1>9. CASE StartRun \/ RunThrows \/ RunReturns
  <2>1. /\ Set(Registered, States(Registered)) /\ row' = row
        /\ job # "none" /\ job' # "none" /\ held' \in {held, Registered}
        /\ UNCHANGED <<accepted, issued, updating, receiptVars, successful, transcriptVars>>
    <3>1. CASE StartRun
      BY <3>1 DEF StartRun
    <3>2. CASE RunThrows \/ RunReturns
      BY <3>2 DEF RunThrows, RunReturns, envVars
    <3> QED
      BY <1>9, <3>1, <3>2
  <2>2. Put(States(Registered))
    BY <2>1, Current DEF Put
  <2>3. Shows' /\ Written /\ registered' = Registered
    BY <2>1, <2>2, PutKeeps
  <2> QED
    BY <2>1, <2>3, RefFrames, OneModelKept DEF Shows, DeliveryStep, receiptVars
<1>10. CASE RunGivesUp
  <2>1. /\ MarkFailed(Registered)
        /\ job # "none" /\ job' # "none"
        /\ UNCHANGED <<envVars, updating, receiptVars, held, successful, transcriptVars>>
    BY <1>10 DEF RunGivesUp
  <2>2. Shows' /\ Written /\ registered' = Registered
    BY <2>1, MarkFailedPuts, PutKeeps DEF envVars
  <2> QED
    BY <2>1, <2>2, RefFrames, OneModelKept DEF Shows, DeliveryStep, receiptVars, envVars
<1>11. CASE SendEnds
  <2>1. held \in Models
    BY <1>11 DEF SendEnds, TypeInv, JobShape, Active
  <2>2. /\ row' = model[held] /\ successful' \subseteq accepted
        /\ job # "none" /\ job' # "none"
        /\ UNCHANGED <<envVars, registered, model, updating, receiptVars, held, transcriptVars>>
    BY <1>11 DEF SendEnds
  <2>3. registered \in Models /\ row' = model[registered]
    BY <2>1, <2>2 DEF OneModel, NoModel, Models
  <2>4. Shows' /\ Written
    BY <2>2, <2>3, SaveKeeps DEF envVars
  <2>5. ResultsHold'
    BY <2>2 DEF ResultsHold, envVars
  <2> QED
    BY <2>2, <2>4, <2>5, RefFrames, OneModelKept DEF Shows, DeliveryStep, receiptVars, envVars
<1>12. CASE ApplyResult
  <2> DEFINE sent == Reduced(model[held], successful, "Sent")
             new == IF LastAttempt THEN Reduced(sent, failed, "Failed") ELSE sent
  <2>1. held \in Models /\ successful \subseteq All /\ failed \subseteq All
    BY <1>12 DEF ApplyResult, TypeInv, JobShape, Active, JobOK
  <2>2. held # NoModel
    BY <2>1 DEF NoModel, Models
  <2>3. Registered = held /\ registered = held
    BY <2>2, Current DEF OneModel
  <2>4. /\ SetHeld(new) /\ row' = new
        /\ job # "none" /\ job' # "none"
        /\ UNCHANGED <<envVars, updating, receiptVars, held, successful, transcriptVars>>
    BY <1>12 DEF ApplyResult, StatesNow
  <2>5. model[held] \in States_ /\ True(model[held]) /\ Ahead(model[held])
    BY <2>2, <2>3, Current
  <2>6. sent \in States_ /\ True(sent) /\ Ahead(sent)
    <3>1. \A p \in successful : Claims(p, "Sent")
      BY Numbers DEF ResultsHold, Claims, AtLeast
    <3> QED
      BY <2>1, <2>5, <3>1, ReducedKeeps DEF TypeInv, SendStatus
  <2> HIDE DEF sent
  <2>7. new \in States_ /\ True(new) /\ MayFollow(new)
    BY <2>1, <2>6, ReducedKeeps, NothingClaimed, AheadFollows DEF TypeInv, SendStatus
  <2> HIDE DEF new
  <2>8. Put(new)
    BY <2>3, <2>4, <2>7 DEF Put, Set, SetHeld
  <2>9. Shows' /\ Written /\ registered' = Registered
    BY <2>4, <2>8, PutKeeps DEF envVars
  <2> QED
    BY <2>4, <2>9, RefFrames, OneModelKept DEF Shows, DeliveryStep, receiptVars, envVars
<1>13. CASE SyncSent
  <2> DEFINE new == Reduced(model[held], {Me}, "Sent")
  <2>1. held \in Models /\ {Me} \subseteq All
    BY <1>13 DEF SyncSent, TypeInv, JobShape, Active, All
  <2>2. held # NoModel
    BY <2>1 DEF NoModel, Models
  <2>3. Registered = held /\ registered = held
    BY <2>2, Current DEF OneModel
  <2>4. /\ SetHeld(new) /\ row' = new
        /\ job # "none" /\ job' # "none"
        /\ UNCHANGED <<envVars, updating, receiptVars, held, successful, transcriptVars>>
    BY <1>13 DEF SyncSent
  <2>5. model[held] \in States_ /\ True(model[held]) /\ Ahead(model[held])
    BY <2>2, <2>3, Current
  <2>6. Claims(Me, "Sent")
    BY Numbers DEF Claims, AtLeast
  <2>7. new \in States_ /\ True(new) /\ MayFollow(new)
    BY <2>1, <2>5, <2>6, ReducedKeeps DEF TypeInv, SendStatus
  <2> HIDE DEF new
  <2>8. Put(new)
    BY <2>3, <2>4, <2>7 DEF Put, Set, SetHeld
  <2>9. Shows' /\ Written /\ registered' = Registered
    BY <2>4, <2>8, PutKeeps DEF envVars
  <2> QED
    BY <2>4, <2>9, RefFrames, OneModelKept DEF Shows, DeliveryStep, receiptVars, envVars
<1>14. CASE SyncFails
  <2>1. held \in Models
    BY <1>14 DEF SyncFails, TypeInv, JobShape, Active
  <2>2. /\ row' = row \/ row' = model[held]
        /\ job # "none" /\ job' # "none"
        /\ UNCHANGED <<envVars, registered, model, updating, receiptVars, held, successful,
                       transcriptVars>>
    BY <1>14 DEF SyncFails
  <2>3. registered \in Models /\ registered = held
    BY <2>1 DEF OneModel, NoModel, Models
  <2>4. Shows' /\ Written
    BY <2>2, <2>3, SaveKeeps DEF envVars
  <2> QED
    BY <2>2, <2>4, RefFrames, OneModelKept DEF Shows, DeliveryStep, receiptVars, envVars
<1>15. CASE RunEnds \/ \E stop \in BOOLEAN : RunFails(stop)
  <2>1. /\ job # "none" /\ job' # "none" /\ held' = NoModel /\ successful' = {}
        /\ UNCHANGED <<envVars, updating, receiptVars, transcriptVars>>
        /\ job \in Active
        /\ \/ /\ IF Kept(held) THEN UNCHANGED model ELSE Forget(held)
              /\ UNCHANGED <<registered, row>>
           \/ MarkFailed(held)
    <3>1. CASE RunEnds
      BY <3>1 DEF RunEnds, Release, Active
    <3>2. ASSUME NEW stop \in BOOLEAN, RunFails(stop)
          PROVE  /\ job # "none" /\ job' # "none" /\ held' = NoModel /\ successful' = {}
                 /\ UNCHANGED <<envVars, updating, receiptVars, transcriptVars>>
                 /\ job \in Active
                 /\ \/ /\ IF Kept(held) THEN UNCHANGED model ELSE Forget(held)
                       /\ UNCHANGED <<registered, row>>
                    \/ MarkFailed(held)
      BY <3>2 DEF RunFails, Release, Active
    <3> QED
      BY <1>15, <3>1, <3>2
  <2>2. held \in Models
    BY <2>1 DEF TypeInv, JobShape
  <2>3. held # NoModel
    BY <2>2 DEF NoModel, Models
  <2>4. Registered = held /\ registered = held
    BY <2>3, Current DEF OneModel
  <2>5. \/ UNCHANGED <<registered, row, model>>
        \/ MarkFailed(Registered)
    BY <2>1, <2>4 DEF Kept
  <2>6. Shows' /\ Written /\ registered' \in {registered, Registered}
    BY <2>1, <2>5, SaveKeeps, MarkFailedPuts, PutKeeps DEF envVars
  <2> QED
    BY <2>1, <2>6, RefFrames, OneModelKept DEF Shows, DeliveryStep, receiptVars, envVars
<1>16. CASE SentTranscript
  <2> DEFINE first == [p \in All |-> IF p \in listed \cup {Me} THEN "Sent" ELSE "none"]
             new == EarlyReceipts(first)
  <2>1. /\ transcript = "awaited" /\ transcript' = "saving"
        /\ Set(Registered, new) /\ row' = row
        /\ UNCHANGED <<envVars, query, known, updating, jobVars, update>>
    BY <1>16 DEF SentTranscript, TakeEarly
  <2>2. job = "none" /\ accepted = Recipients /\ row = NoEntries
    BY <2>1 DEF Elsewhere
  <2>3. first \in States_
    BY DEF States_, Statuses, SendStatus
  <2>4. collection \subseteq Receipts /\ collection \subseteq issued
    BY DEF TypeInv, EnvOK, ReceiptsOK
  <2>5. /\ new \in States_
        /\ \A p \in All : \/ new[p] = first[p]
                          \/ /\ AtLeast(new[p], first[p])
                             /\ [from |-> p, type |-> new[p]] \in collection
    BY <2>3, <2>4, EarlyWorks
  <2>6. \A p \in All : Claims(p, first[p])
    <3>1. \A p \in All : p # Me => p \in accepted
      BY <2>2 DEF All
    <3>2. \A p \in All : Claims(p, "Sent")
      BY <3>1, Numbers DEF Claims, AtLeast
    <3> QED
      BY <3>2, NothingClaimed
  <2>7. \A p \in All : first[p] \in {"Sent", "none"}
    OBVIOUS
  <2> HIDE DEF first
  <2>8. ASSUME NEW p \in All
        PROVE  Claims(p, new[p])
    <3>1. CASE new[p] = first[p]
      BY <3>1, <2>6
    <3>2. CASE [from |-> p, type |-> new[p]] \in collection
      <4>1. new[p] \in {"Delivered", "Read", "Viewed"}
        BY <3>2, <2>4, SendStatesAssumption
      <4>2. [from |-> p, type |-> new[p]] \in issued
        BY <3>2, <2>4
      <4> HIDE DEF new
      <4> QED
        BY <4>1, <4>2 DEF Claims
    <3> QED
      BY <2>5, <3>1, <3>2
  <2> HIDE DEF new
  <2>9. Ahead(new)
    BY <2>2, <2>5, AtLeastIsAnOrder DEF Ahead, NoEntries, States_
  <2>10. Put(new)
    BY <2>1, <2>5, <2>8, <2>9 DEF Put, True
  <2>11. Shows' /\ Written /\ registered' = Registered
    BY <2>1, <2>10, PutKeeps DEF envVars
  <2>12. Elsewhere'
    BY <2>1, <2>2 DEF Elsewhere, envVars, jobVars
  <2> QED
    BY <2>1, <2>11, <2>12, RefFrames, OneModelKept DEF Shows, DeliveryStep, envVars, jobVars
<1>17. CASE SaveNew
  <2>1. /\ transcript = "saving" /\ transcript' = "saved" /\ row' = model[registered]
        /\ UNCHANGED <<envVars, registered, model, updating, receiptVars, jobVars, update>>
    BY <1>17 DEF SaveNew
  <2>2. registered \in Models
    BY <2>1 DEF TypeInv, TranscriptOK
  <2>3. Shows' /\ Written
    BY <2>1, <2>2, SaveKeeps DEF envVars
  <2>4. Elsewhere'
    BY <2>1 DEF Elsewhere, envVars, jobVars
  <2> QED
    BY <2>1, <2>3, <2>4, RefFrames, OneModelKept DEF Shows, DeliveryStep, envVars, jobVars, receiptVars
<1>18. CASE SecondRun
  <2> DEFINE old == model[registered]
             new == EarlyReceipts(old)
  <2>1. /\ transcript = "saved" /\ transcript' = "done"
        /\ Set(registered, new) /\ (row' = row \/ row' = new)
        /\ UNCHANGED <<envVars, query, known, updating, jobVars, update>>
    BY <1>18 DEF SecondRun, TakeEarly
  <2>2. registered \in Models
    BY <2>1 DEF TypeInv, TranscriptOK
  <2>3. Registered = registered /\ registered # NoModel
    BY <2>2, ModelsWork DEF TypeInv, NoModel, Models
  <2>4. old \in States_ /\ True(old) /\ Ahead(old)
    BY <2>3, Current
  <2>5. collection \subseteq Receipts /\ collection \subseteq issued
    BY DEF TypeInv, EnvOK, ReceiptsOK
  <2>6. /\ new \in States_
        /\ \A p \in All : \/ new[p] = old[p]
                          \/ /\ AtLeast(new[p], old[p])
                             /\ [from |-> p, type |-> new[p]] \in collection
    BY <2>4, <2>5, EarlyWorks
  <2> HIDE DEF old
  <2>7. ASSUME NEW p \in All
        PROVE  Claims(p, new[p])
    <3>1. CASE new[p] = old[p]
      BY <3>1, <2>4 DEF True
    <3>2. CASE [from |-> p, type |-> new[p]] \in collection
      <4>1. new[p] \in {"Delivered", "Read", "Viewed"}
        BY <3>2, <2>5, SendStatesAssumption
      <4>2. [from |-> p, type |-> new[p]] \in issued
        BY <3>2, <2>5
      <4> HIDE DEF new
      <4> QED
        BY <4>1, <4>2 DEF Claims
    <3> QED
      BY <2>6, <3>1, <3>2
  <2> HIDE DEF new
  <2>8. \A p \in All : old[p] \in Statuses /\ new[p] \in Statuses /\ row[p] \in Statuses
    BY <2>4, <2>6 DEF States_, TypeInv, RowOK
  <2>9. Ahead(new)
    BY <2>4, <2>6, <2>8, AtLeastIsAnOrder DEF Ahead
  <2>10. Put(new)
    BY <2>1, <2>3, <2>6, <2>7, <2>9, AheadFollows DEF Put, True
  <2>11. Shows' /\ Written /\ registered' = Registered
    BY <2>1, <2>10, PutKeeps DEF envVars
  <2>12. Elsewhere'
    BY <2>1 DEF Elsewhere, envVars, jobVars
  <2> QED
    BY <2>1, <2>11, <2>12, RefFrames, OneModelKept DEF Shows, DeliveryStep, envVars, jobVars
<1>19. CASE UpdateTranscript
  <2> DEFINE old == States(Registered)
             new == [p \in All |-> IF p \in listed \cup {Me} THEN old[p]
                                   ELSE sendStateReducer(old[p], "Sent")]
  <2>1. /\ update = "awaited" /\ update' = "done"
        /\ Set(Registered, new) /\ row' = IF saved THEN new ELSE row
        /\ UNCHANGED <<envVars, updating, receiptVars, jobVars, transcript>>
    BY <1>19 DEF UpdateTranscript
  <2>2. accepted = Recipients
    BY <2>1 DEF Elsewhere
  <2>3. old \in States_ /\ True(old) /\ Ahead(old)
    BY Current
  <2> HIDE DEF old
  <2>4. ASSUME NEW p \in All
        PROVE  new[p] \in Statuses /\ Claims(p, new[p]) /\ AtLeast(new[p], row[p])
    <3>1. old[p] \in Statuses /\ row[p] \in Statuses
      BY <2>3 DEF States_, TypeInv, RowOK
    <3>2. Claims(p, old[p]) /\ AtLeast(old[p], row[p])
      BY <2>3 DEF True, Ahead
    <3>3. new[p] \in {old[p], "Sent"} /\ new[p] \in Statuses /\ AtLeast(new[p], old[p])
      BY <3>1, ReducerWorks, AtLeastIsAnOrder DEF SendStatus
    <3>4. Claims(p, "Sent")
      BY <2>2, Numbers DEF Claims, AtLeast, All
    <3> HIDE DEF new
    <3> QED
      BY <3>1, <3>2, <3>3, <3>4, AtLeastIsAnOrder
  <2>5. new \in States_
    BY <2>4 DEF States_
  <2> HIDE DEF new
  <2>6. Put(new)
    BY <2>1, <2>4, <2>5, AheadFollows DEF Put, True, Ahead
  <2>7. Shows' /\ Written /\ registered' = Registered
    BY <2>1, <2>6, PutKeeps DEF envVars
  <2>8. Elsewhere'
    <3>1. ~saved => row' = row
      BY <2>1
    <3>2. row = NoEntries => ~saved
      BY DEF saved, NoEntries, All
    <3> QED
      BY <2>1, <2>2, <3>1, <3>2 DEF Elsewhere, envVars, jobVars
  <2> QED
    BY <2>1, <2>7, <2>8, RefFrames, OneModelKept DEF Shows, DeliveryStep, envVars, jobVars, receiptVars
<1>20. CASE FlushUpdate
  <2>1. /\ updating # NoModel /\ updating' = NoModel
        /\ row' = IF saved THEN model[updating] ELSE row
        /\ UNCHANGED <<envVars, registered, model, receiptVars, jobVars, transcriptVars>>
    BY <1>20 DEF FlushUpdate
  <2>2. updating \in Models /\ updating = registered
    BY <2>1 DEF TypeInv, ModelsOK, OneModel
  <2>3. Shows' /\ Written
    BY <2>1, <2>2, SaveKeeps DEF envVars
  <2>4. Elsewhere'
    <3>1. ~saved => row' = row
      BY <2>1
    <3>2. row = NoEntries => ~saved
      BY DEF saved, NoEntries, All
    <3> QED
      BY <2>1, <3>1, <3>2 DEF Elsewhere, envVars, jobVars, transcriptVars
  <2> QED
    BY <2>1, <2>3, <2>4, RefFrames, OneModelKept DEF Shows, DeliveryStep, envVars, jobVars, receiptVars
<1>21. CASE Cleanup
  <2>1. /\ registered # NoModel /\ registered # held /\ updating = NoModel
        /\ registered' = NoModel /\ Forget(registered)
        /\ UNCHANGED <<envVars, updating, row, receiptVars, jobVars, transcriptVars>>
    BY <1>21 DEF Cleanup
  <2>2. held = NoModel /\ registered \in Models
    BY <2>1 DEF OneModel, TypeInv, ModelsOK
  <2>3. \A m \in Models : model'[m] = model[m] \/ model'[m] = NoEntries
    BY <2>1, <2>2 DEF Forget, TypeInv, ModelsOK
  <2>4. Shows'
    BY <2>1, <2>3, ForgetKeeps DEF envVars
  <2>5. OneModel'
    BY <2>1, <2>2 DEF OneModel, jobVars
  <2> QED
    BY <2>1, <2>4, <2>5, RefFrames DEF Shows, Written, DeliveryStep, envVars, jobVars, receiptVars
<1>22. CASE CrashAndRestart
  <2>1. /\ registered' = NoModel /\ updating' = NoModel /\ held' = NoModel /\ successful' = {}
        /\ model' = [m \in Models |-> NoEntries]
        /\ query' = [k \in Receipts |-> "no"]
        /\ UNCHANGED <<accepted, issued, row>>
    BY <1>22 DEF CrashAndRestart, Release
  <2>2. Shows'
    BY <2>1, ForgetKeeps
  <2>3. OneModel' /\ ResultsHold' /\ QueriesKnown'
    BY <2>1 DEF OneModel, ResultsHold, QueriesKnown
  <2>4. /\ job = "none" <=> job' = "none"
        /\ transcript = "none" <=> transcript' = "none"
        /\ transcript \in {"awaited", "saving"} <=> transcript' = "awaited"
        /\ transcript' # "saving"
        /\ update = "none" <=> update' = "none"
    <3>1. job = "none" <=> job' = "none"
      BY <1>22 DEF CrashAndRestart
    <3>2. /\ transcript = "none" <=> transcript' = "none"
          /\ transcript \in {"awaited", "saving"} <=> transcript' = "awaited"
          /\ transcript' # "saving"
      BY <1>22 DEF CrashAndRestart, TypeInv, TranscriptOK
    <3>3. update = "none" <=> update' = "none"
      BY <1>22 DEF CrashAndRestart
    <3> QED
      BY <3>1, <3>2, <3>3
  <2>5. Elsewhere'
    BY <2>1, <2>4 DEF Elsewhere
  <2> QED
    BY <2>1, <2>2, <2>3, <2>5 DEF Shows, Written, DeliveryStep
<1> QED
  BY <1>1, <1>2, <1>3, <1>4, <1>5, <1>6, <1>7, <1>8, <1>9, <1>10, <1>11, <1>12, <1>13, <1>14, <1>15, <1>16,
     <1>17, <1>18, <1>19, <1>20, <1>21, <1>22 DEF Next, Recipient, Receipt, Run, Transcript

-----------------------------------------------------------------------------

LEMMA InitRefines == Init => Delivery!Init
  BY DEF Init, Delivery!Init, NoEntries, All, Delivery!All

LEMMA SameWords ==
  /\ \A a, b : AtLeast(a, b) <=> Delivery!AtLeast(a, b)
  /\ \A a, b : Forward(a, b) <=> Delivery!Forward(a, b)
  /\ \A p, s : Claims(p, s) <=> Delivery!Claims(p, s)
  /\ States_ = [Delivery!All -> Delivery!SendStatus \cup {"none"}]
  /\ All = Delivery!All
<1>1. STATUS_NUMBERS = Delivery!STATUS_NUMBERS
  BY DEF STATUS_NUMBERS, Delivery!STATUS_NUMBERS
<1>2. \A a, b : AtLeast(a, b) <=> Delivery!AtLeast(a, b)
  BY <1>1 DEF AtLeast, Delivery!AtLeast
<1>3. \A a, b : Forward(a, b) <=> Delivery!Forward(a, b)
  BY <1>2 DEF Forward, Delivery!Forward
<1>4. \A p, s : Claims(p, s) <=> Delivery!Claims(p, s)
  BY <1>2 DEF Claims, Delivery!Claims
<1>5. All = Delivery!All /\ SendStatus = Delivery!SendStatus
  BY DEF All, Delivery!All, SendStatus, Delivery!SendStatus
<1> QED
  BY <1>2, <1>3, <1>4, <1>5 DEF States_, Statuses

LEMMA StepRefines ==
  ASSUME DeliveryStep
  PROVE  [Delivery!Next]_(Delivery!vars)
<1>1. ASSUME NEW p \in Recipients, accepted' = accepted \cup {p}, UNCHANGED <<row, issued>>
      PROVE  Delivery!Next
  BY <1>1 DEF Delivery!Next, Delivery!Accept
<1>2. ASSUME NEW k \in Receipts, k.from \in accepted, issued' = issued \cup {k},
             UNCHANGED <<row, accepted>>
      PROVE  Delivery!Next
  BY <1>2 DEF Delivery!Next, Delivery!Issue
<1>3. CASE Written /\ UNCHANGED <<accepted, issued>> /\ row' # row
  BY <1>3, SameWords DEF Written, MayFollow, Delivery!Next, Delivery!Write
<1>4. CASE UNCHANGED <<accepted, issued, row>>
  BY <1>4 DEF Delivery!vars
<1> QED
  BY <1>1, <1>2, <1>3, <1>4 DEF DeliveryStep

\* As long as MessageController keeps the model an attempt works on, the rows of
\* the table do what DeliveryStatus promises: every status in them claims only what
\* has happened, and but for giving up a recipient none goes backwards, whatever the
\* attempts, receipts, transcripts, batched updates and crashes do.
THEOREM StatusesAreTrue ==
  ASSUME ForgetHeld = FALSE
  PROVE  Spec => ImplementsDelivery
<1>1. Init => RefInv
  BY RefInit
<1>2. TypeInv /\ RefInv /\ [Next]_vars => RefInv'
  BY RefStep
<1>3. TypeInv /\ RefInv /\ [Next]_vars => [Delivery!Next]_(Delivery!vars)
  BY RefStep, StepRefines
<1> QED
  BY WellTyped, InitRefines, <1>1, <1>2, <1>3, PTL DEF Spec, ImplementsDelivery, Delivery!Spec

-----------------------------------------------------------------------------
(* Nobody reached is sent to again *)

\* Only the start of an attempt adds targets.
LEMMA TargetsOfTheStart ==
  ASSUME Next, ~StartRun
  PROVE  targets' \subseteq targets
<1> USE DEF jobVars
<1>1. ASSUME NEW k \in Receipts, ReceiveReceipt(k) \/ QueryAnswered(k) \/ HandleReceipt(k)
      PROVE  targets' = targets
  BY <1>1 DEF ReceiveReceipt, QueryAnswered, HandleReceipt
<1>2. ASSUME NEW stop \in BOOLEAN, RunFails(stop)
      PROVE  targets' = {}
  BY <1>2 DEF RunFails, Release
<1>3. CASE Recipient
  BY <1>3 DEF Recipient, ServerAccepts, IssueReceipt
<1>4. CASE RunReturns \/ RunThrows \/ RunGivesUp \/ SendEnds \/ ApplyResult \/ SyncSent
           \/ SyncFails
  BY <1>4 DEF RunReturns, RunThrows, RunGivesUp, SendEnds, ApplyResult, SyncSent, SyncFails
<1>5. CASE RunEnds \/ CrashAndRestart
  BY <1>5 DEF RunEnds, CrashAndRestart, Release
<1>6. CASE Transcript
  BY <1>6 DEF Transcript, SentTranscript, SaveNew, SecondRun, UpdateTranscript
<1>7. CASE enqueueMessageForSend \/ retrySend \/ FlushUpdate \/ Cleanup
  BY <1>7 DEF enqueueMessageForSend, retrySend, FlushUpdate, Cleanup
<1> QED
  BY <1>1, <1>2, <1>3, <1>4, <1>5, <1>6, <1>7 DEF Next, Receipt, Run

LEMMA TargetsAreMissing ==
  ASSUME TypeInv, RefInv, StartRun, NEW p \in targets'
  PROVE  ~AtLeast(row[p], "Sent")
<1> DEFINE now == States(Registered)
<1>1. targets' \subseteq {q \in All : ~isSent(now[q])}
  BY DEF StartRun, Unreached
<1>2. p \in All /\ ~AtLeast(now[p], "Sent")
  BY <1>1 DEF isSent
<1>3. now \in States_ /\ AtLeast(now[p], row[p])
  BY <1>2, Current DEF Ahead
<1>4. now[p] \in Statuses /\ row[p] \in Statuses /\ "Sent" \in Statuses
  BY <1>2, <1>3 DEF States_, Statuses, SendStatus, TypeInv, RowOK
<1> HIDE DEF now
<1> QED
  BY <1>2, <1>3, <1>4, AtLeastIsAnOrder

\* As long as MessageController keeps the model an attempt works on, no attempt, of
\* this process or of one after a crash, is for a recipient whom the table shows as
\* reached: retries of the queue and of the user go to the others only.
THEOREM NobodyReachedIsSentTo ==
  ASSUME ForgetHeld = FALSE
  PROVE  Spec => NotSentTwice
<1>1. Init => RefInv
  BY RefInit
<1>2. TypeInv /\ RefInv /\ [Next]_vars => RefInv'
  BY RefStep
<1>3. TypeInv /\ RefInv /\ [Next]_vars =>
        [\A p \in Recipients : p \in targets' \ targets => ~AtLeast(row[p], "Sent")]_targets
  <2>1. CASE StartRun
    BY <2>1, TargetsAreMissing
  <2>2. CASE Next /\ ~StartRun
    BY <2>2, TargetsOfTheStart
  <2>3. CASE UNCHANGED vars
    BY <2>3 DEF vars, jobVars
  <2> QED
    BY <2>1, <2>2, <2>3
<1> QED
  BY WellTyped, <1>1, <1>2, <1>3, PTL DEF Spec, NotSentTwice

-----------------------------------------------------------------------------
(* Every receipt counts *)

\* What the process takes the send states for
Latest == IF registered = NoModel THEN row ELSE model[registered]

\* A receipt is in the collection until the model shows it, whatever its query does.
Counted == \A k \in known \ dropped : k \in collection \/ Shown(Latest, k)
\* The table has what the model has, unless a save is to come.
InTable == updating = NoModel /\ transcript # "saving" => row = Latest
\* Where the code takes a row for granted there is one.
Begun ==
  /\ job # "none" \/ transcript \in {"saved", "done"} \/ updating # NoModel => saved
  /\ \A k \in Receipts : query[k] = "found" => saved
OursThere == registered # NoModel => Latest[Me] # "none"
\* Nobody has a model of a message whose transcript has not come.
Awaited ==
  /\ transcript = "awaited" => registered = NoModel
  /\ update # "none" => transcript # "none"
\* Nobody has a message, nor a receipt for it, that is not sent.
Unsent ==
  job = "none" /\ transcript = "none" => accepted = {} /\ transmitting = {} /\ issued = {}

CountInv == Counted /\ InTable /\ Begun /\ OursThere /\ Awaited /\ Unsent

LEMMA CountIsEnough == CountInv => EveryReceiptCounts
  BY DEF CountInv, Counted, Latest, EveryReceiptCounts

\* A status that moves forward still shows a receipt, and still is there.
LEMMA ForwardShows ==
  ASSUME NEW s \in Statuses, NEW t \in Statuses, Forward(s, t)
  PROVE  /\ \A type \in {"Delivered", "Read", "Viewed"} : AtLeast(s, type) => AtLeast(t, type)
         /\ s # "none" => t # "none"
  BY Numbers DEF Forward, AtLeast, Statuses, SendStatus

LEMMA ReceiptShape ==
  ASSUME NEW k \in Receipts
  PROVE  k.from \in Recipients /\ k.from \in All /\ k.from # Me
         /\ k.type \in {"Delivered", "Read", "Viewed"} /\ k.type \in SendStatus
  BY SendStatesAssumption DEF All, SendStatus

LEMMA LatestWorks ==
  ASSUME TypeInv, RefInv
  PROVE  /\ Latest = States(Registered) /\ Latest \in States_ /\ Ahead(Latest)
         /\ Me \in All
         /\ saved => Latest[Me] # "none"
         /\ known \subseteq Receipts /\ collection \subseteq Receipts
<1>1. Latest = States(Registered)
  <2>1. registered = NoModel => States(Registered) = row
    BY ModelsWork DEF States, TypeInv, Models, NoModel
  <2> QED
    BY <2>1, Current DEF Latest
<1>2. Latest \in States_ /\ Ahead(Latest)
  BY <1>1, Current
<1>3. Me \in All
  BY DEF All
<1>4. AtLeast(Latest[Me], row[Me]) /\ row[Me] \in Statuses /\ Latest[Me] \in Statuses
  BY <1>2, <1>3 DEF Ahead, TypeInv, RowOK, States_
<1>5. saved => Latest[Me] # "none"
  BY <1>4, Numbers DEF saved, AtLeast, Statuses, SendStatus
<1> QED
  BY <1>1, <1>2, <1>3, <1>5 DEF TypeInv, EnvOK, ReceiptsOK

\* A row never goes.
LEMMA SavedStays ==
  ASSUME ForgetHeld = FALSE, TypeInv, RefInv, [Next]_vars, saved
  PROVE  saved'
<1>1. DeliveryStep
  BY RefStep, Zenon
<1>2. CASE row' = row
  BY <1>2 DEF saved
<1>3. CASE row' \in States_ /\ MayFollow(row')
  <2>1. Me \in All
    BY DEF All
  <2>2. Forward(row[Me], row'[Me]) /\ row[Me] \in Statuses /\ row'[Me] \in Statuses
    BY <1>3, <2>1 DEF MayFollow, TypeInv, RowOK, States_
  <2>3. row'[Me] # "none"
    BY <2>2, ForwardShows DEF saved
  <2> QED
    BY <2>3 DEF saved
<1> QED
  BY <1>1, <1>2, <1>3 DEF DeliveryStep, Written

\* A step that registers states none of which has gone back
LEMMA MovedCounts ==
  ASSUME TypeInv, RefInv, CountInv, NEW s \in States_, Set(Registered, s),
         \A p \in All : Forward(Latest[p], s[p])
  PROVE  /\ registered' = Registered /\ registered' # NoModel /\ Latest' = s
         /\ Latest[Me] # "none" => s[Me] # "none"
         /\ \A k \in known \ dropped : k \in collection \/ Shown(s, k)
<1>1. Registered \in Models
  BY ModelsWork DEF TypeInv
<1>2. registered' = Registered /\ model' = [model EXCEPT ![Registered] = s]
  BY DEF Set
<1>3. registered' # NoModel /\ Latest' = s
  BY <1>1, <1>2 DEF Latest, TypeInv, ModelsOK, NoModel, Models
<1>4. \A p \in All : Latest[p] \in Statuses /\ s[p] \in Statuses
  BY LatestWorks DEF States_
<1>5. Latest[Me] # "none" => s[Me] # "none"
  <2>1. Me \in All
    BY DEF All
  <2>2. Latest[Me] \in Statuses /\ s[Me] \in Statuses /\ Forward(Latest[Me], s[Me])
    BY <1>4, <2>1
  <2> QED
    BY <2>2, ForwardShows
<1>6. ASSUME NEW k \in known \ dropped, k \notin collection
      PROVE  Shown(s, k)
  <2>1. k.from \in All /\ k.type \in {"Delivered", "Read", "Viewed"}
    BY LatestWorks, ReceiptShape
  <2>2. AtLeast(Latest[k.from], k.type)
    BY <1>6 DEF CountInv, Counted, Shown
  <2> QED
    BY <1>4, <2>1, <2>2, ForwardShows DEF Shown
<1> QED
  BY <1>2, <1>3, <1>5, <1>6

\* ... and that of a job, which leaves the receipts and the transcripts alone and
\* saves what it registers, or registers what the process has.
LEMMA MovedKeeps ==
  ASSUME TypeInv, RefInv, CountInv, saved, saved', NEW s \in States_, Set(Registered, s),
         \A p \in All : Forward(Latest[p], s[p]),
         row' = s \/ (row' = row /\ s = Latest),
         job # "none", job' # "none", UNCHANGED <<updating, receiptVars, transcriptVars>>
  PROVE  CountInv'
<1>0. Latest[Me] # "none"
  BY LatestWorks
<1>1. /\ registered' # NoModel /\ Latest' = s /\ s[Me] # "none"
      /\ \A k \in known \ dropped : k \in collection \/ Shown(s, k)
  BY <1>0, MovedCounts, Zenon
<1> USE DEF receiptVars, transcriptVars
<1>2. Counted' /\ OursThere'
  BY <1>1 DEF Counted, OursThere, Shown
<1>3. InTable'
  BY <1>1 DEF CountInv, InTable
<1>4. Begun' /\ Unsent'
  BY DEF Begun, Unsent
<1>5. Awaited'
  BY DEF RefInv, Elsewhere, CountInv, Awaited
<1> QED
  BY <1>2, <1>3, <1>4, <1>5 DEF CountInv

\* A step that leaves the receipts and the transcripts alone, and saves the model or
\* nothing
LEMMA SaveCounts ==
  ASSUME TypeInv, RefInv, CountInv, saved => saved',
         UNCHANGED <<registered, model, receiptVars, transcriptVars>>,
         updating' \in {updating, NoModel},
         \/ row' = row /\ updating' = updating
         \/ row' = Latest /\ registered # NoModel,
         job = "none" <=> job' = "none", 
         UNCHANGED <<accepted, issued, transmitting>> \/ job # "none"
  PROVE  CountInv'
<1> USE DEF receiptVars, transcriptVars
<1>1. Latest' = Latest /\ (registered' # NoModel => Latest'[Me] # "none")
  BY DEF Latest, CountInv, OursThere
<1>2. Counted' /\ OursThere'
  BY <1>1 DEF CountInv, Counted, OursThere, Shown
<1>3. InTable'
  BY <1>1 DEF CountInv, InTable
<1>4. Begun'
  BY DEF CountInv, Begun
<1>5. Awaited' /\ Unsent'
  BY DEF CountInv, Awaited, Unsent
<1> QED
  BY <1>2, <1>3, <1>4, <1>5 DEF CountInv

\* Reduced moves every status forward.
LEMMA ReducedForward ==
  ASSUME NEW s \in States_, NEW w \in States_, \A p \in All : AtLeast(s[p], w[p]),
         NEW who \in SUBSET All, NEW n \in SendStatus
  PROVE  /\ Reduced(s, who, n) \in States_
         /\ \A p \in All : Forward(w[p], Reduced(s, who, n)[p])
         /\ n # "Failed" => \A p \in All : AtLeast(Reduced(s, who, n)[p], w[p])
<1> DEFINE r == Reduced(s, who, n)
<1>1. r \in States_
  BY ReducedWorks
<1>2. ASSUME NEW p \in All
      PROVE  Forward(w[p], r[p]) /\ (n # "Failed" => AtLeast(r[p], w[p]))
  <2>1. s[p] \in Statuses /\ w[p] \in Statuses /\ r[p] \in Statuses /\ AtLeast(s[p], w[p])
    BY <1>1 DEF States_
  <2>2. CASE p \notin who
    <3>1. r[p] = s[p]
      BY <2>2, ReducedWorks
    <3> HIDE DEF r
    <3> QED
      BY <2>1, <3>1 DEF Forward
  <2>3. CASE p \in who
    <3>1. r[p] = sendStateReducer(s[p], n)
      BY <2>3, ReducedWorks
    <3>2. Forward(w[p], r[p]) /\ (n # "Failed" => AtLeast(r[p], s[p]))
      BY <2>1, <3>1, ReducerWorks
    <3> HIDE DEF r
    <3> QED
      BY <2>1, <3>2, AtLeastIsAnOrder
  <2> QED
    BY <2>2, <2>3
<1> QED
  BY <1>1, <1>2

LEMMA MarkFailedMoves ==
  ASSUME TypeInv, RefInv, MarkFailed(Registered)
  PROVE  \E s \in States_ : /\ Set(Registered, s) /\ row' = s
                            /\ \A p \in All : Forward(Latest[p], s[p])
<1> DEFINE new == Reduced(States(Registered), All, "Failed")
<1>1. \A p \in All : Latest[p] \in Statuses /\ AtLeast(Latest[p], Latest[p])
  BY LatestWorks, AtLeastIsAnOrder DEF States_
<1>2. new \in States_ /\ \A p \in All : Forward(Latest[p], new[p])
  BY <1>1, LatestWorks, ReducedForward DEF SendStatus
<1>3. /\ row' = new
      /\ registered' = IF registered = NoModel /\ Registered # held THEN Registered ELSE registered
      /\ model' = [model EXCEPT ![Registered] = IF Registered = registered' THEN new ELSE NoEntries]
  BY DEF MarkFailed
<1>4. /\ registered # NoModel => Registered = registered
      /\ registered = NoModel => Registered # held
  BY ModelsWork DEF TypeInv
<1> HIDE DEF new
<1>5. Set(Registered, new)
  BY <1>3, <1>4 DEF Set
<1> QED
  BY <1>2, <1>3, <1>5

\* EarlyReceipts shows what it takes out of the collection.
LEMMA EarlyShows ==
  ASSUME NEW states \in States_, collection \subseteq Receipts
  PROVE  /\ \A k \in collection : states[k.from] # "none" => Shown(EarlyReceipts(states), k)
         /\ EarlyReceipts(states)[Me] = states[Me]
<1>1. ASSUME NEW k \in collection, states[k.from] # "none"
      PROVE  Shown(EarlyReceipts(states), k)
  <2> DEFINE p == k.from
             types == {r.type : r \in {q \in collection : q.from = p}}
             S == types \cup {states[p]}
             best == CHOOSE s \in S : \A t \in S : AtLeast(s, t)
  <2>1. p \in All /\ k.type \in types
    BY ReceiptShape
  <2>2. EarlyReceipts(states)[p] = best
    BY <1>1, <2>1 DEF EarlyReceipts
  <2>3. \A t \in types : t \in Statuses
    BY SendStatesAssumption DEF Statuses, SendStatus
  <2>4. S \in SUBSET Statuses /\ S # {}
    BY <2>1, <2>3 DEF States_
  <2> HIDE DEF types
  <2>5. \E s \in S : \A t \in S : AtLeast(s, t)
    BY <2>4, GreatestStatus
  <2>6. \A t \in S : AtLeast(best, t)
    BY <2>5
  <2> HIDE DEF best
  <2> QED
    BY <2>1, <2>2, <2>6 DEF Shown
<1>2. {r \in collection : r.from = Me} = {}
  BY ReceiptShape
<1>3. EarlyReceipts(states)[Me] = states[Me]
  BY <1>2 DEF EarlyReceipts, All
<1> QED
  BY <1>1, <1>3

LEMMA CountInit == Init => CountInv
<1> SUFFICES ASSUME Init
             PROVE  CountInv
  OBVIOUS
<1>1. Counted /\ InTable /\ OursThere
  BY DEF Init, Counted, InTable, OursThere, Latest
<1>2. Begun
  BY DEF Init, Begun
<1>3. Awaited /\ Unsent
  BY DEF Init, Awaited, Unsent
<1> QED
  BY <1>1, <1>2, <1>3 DEF CountInv

LEMMA CountStep ==
  ASSUME ForgetHeld = FALSE, TypeInv, RefInv, CountInv, [Next]_vars
  PROVE  CountInv'
<1>0. saved => saved'
  BY SavedStays, Zenon
<1> DEFINE Here == Latest \in States_ /\ \A p \in All : Latest[p] \in Statuses
                   /\ AtLeast(Latest[p], Latest[p]) /\ Forward(Latest[p], Latest[p])
<1>h. Here
  BY LatestWorks, AtLeastIsAnOrder DEF States_, Forward
<1>n. NoModel \notin Models
  BY DEF NoModel, Models
<1>1. CASE UNCHANGED vars
  BY <1>0, <1>1, SaveCounts DEF vars, envVars, jobVars
<1>2. ASSUME NEW p \in Recipients, ServerAccepts(p)
      PROVE  CountInv'
  <2>1. job # "none" \/ transcript # "none"
    BY <1>2 DEF ServerAccepts, CountInv, Unsent
  <2>2. UNCHANGED <<registered, model, updating, row, receiptVars, jobVars, transcriptVars>>
    BY <1>2 DEF ServerAccepts
  <2> QED
    BY <2>1, <2>2 DEF CountInv, Counted, InTable, Begun, OursThere, Awaited, Unsent, Latest, Shown,
                      saved, receiptVars, jobVars, transcriptVars
<1>3. ASSUME NEW k \in Receipts, IssueReceipt(k)
      PROVE  CountInv'
  <2>1. job # "none" \/ transcript # "none"
    BY <1>3 DEF IssueReceipt, CountInv, Unsent
  <2>2. UNCHANGED <<registered, model, updating, row, receiptVars, jobVars, transcriptVars>>
    BY <1>3 DEF IssueReceipt
  <2> QED
    BY <2>1, <2>2 DEF CountInv, Counted, InTable, Begun, OursThere, Awaited, Unsent, Latest, Shown,
                      saved, receiptVars, jobVars, transcriptVars
<1>4. ASSUME NEW k \in Receipts, ReceiveReceipt(k)
      PROVE  CountInv'
  <2>1. /\ collection' = collection \cup {k} /\ query' = [query EXCEPT ![k] = "asked"]
        /\ known' = known \cup {k} /\ dropped' = dropped \ {k}
        /\ UNCHANGED <<accepted, transmitting, issued, registered, model, updating, row, jobVars,
                       transcriptVars>>
    BY <1>4 DEF ReceiveReceipt
  <2>2. Counted'
    BY <2>1 DEF CountInv, Counted, Latest, Shown
  <2>3. Begun'
    BY <2>1 DEF CountInv, Begun, saved, TypeInv, ReceiptsOK, jobVars, transcriptVars
  <2>4. InTable' /\ OursThere' /\ Awaited' /\ Unsent'
    BY <2>1 DEF CountInv, InTable, OursThere, Awaited, Unsent, Latest, jobVars, transcriptVars
  <2> QED
    BY <2>2, <2>3, <2>4 DEF CountInv
<1>5. ASSUME NEW k \in Receipts, QueryAnswered(k)
      PROVE  CountInv'
  <2>1. /\ query' = [query EXCEPT ![k] = IF saved THEN "found" ELSE "no"]
        /\ UNCHANGED <<envVars, registered, model, updating, row, collection, known, dropped,
                       jobVars, transcriptVars>>
    BY <1>5 DEF QueryAnswered
  <2>2. Begun'
    BY <2>1 DEF CountInv, Begun, saved, TypeInv, ReceiptsOK, jobVars, transcriptVars
  <2>3. Counted' /\ InTable' /\ OursThere' /\ Awaited' /\ Unsent'
    BY <2>1 DEF CountInv, Counted, InTable, OursThere, Awaited, Unsent, Latest, Shown, envVars,
                jobVars, transcriptVars
  <2> QED
    BY <2>2, <2>3 DEF CountInv
<1>6. ASSUME NEW k \in Receipts, HandleReceipt(k)
      PROVE  CountInv'
  <2> DEFINE entry == IF Latest[k.from] = "none" THEN "Sent" ELSE Latest[k.from]
             new == sendStateReducer(entry, k.type)
             states == IF new = entry THEN Latest ELSE [Latest EXCEPT ![k.from] = new]
  <2>1. /\ query[k] = "found" /\ query' = [query EXCEPT ![k] = "no"]
        /\ collection' = collection \ {k}
        /\ UNCHANGED <<envVars, row, known, dropped, jobVars, transcriptVars>>
        /\ Set(Registered, states)
        /\ updating' = IF new = entry THEN updating ELSE Registered
    BY <1>6, LatestWorks DEF HandleReceipt, queueUpdateMessage
  <2>2. saved /\ saved'
    BY <1>0, <2>1 DEF CountInv, Begun
  <2>3. /\ k.from \in All /\ k.from # Me /\ k.type \in {"Delivered", "Read", "Viewed"}
        /\ k.type \in SendStatus
    BY ReceiptShape
  <2>4. Latest[k.from] \in Statuses
    BY <1>h, <2>3
  <2>5. /\ new \in Statuses /\ AtLeast(new, Latest[k.from]) /\ AtLeast(new, k.type)
        /\ new = entry => Latest[k.from] = entry
    <3>1. entry \in Statuses /\ AtLeast(entry, Latest[k.from])
      BY <2>4, Numbers DEF AtLeast, Statuses, SendStatus
    <3>2. new \in Statuses /\ AtLeast(new, entry) /\ AtLeast(new, k.type)
      BY <2>3, <3>1, ReducerWorks
    <3>3. entry = "Sent" => new # entry
      BY <2>3, <3>2, Numbers DEF AtLeast
    <3>4. new = entry => Latest[k.from] = entry
      BY <3>3
    <3>5. k.type \in Statuses
      BY <2>3 DEF Statuses
    <3> HIDE DEF entry, new
    <3> QED
      BY <2>4, <3>1, <3>2, <3>4, AtLeastIsAnOrder
  <2>6. states \in States_ /\ states[k.from] = new /\ \A p \in All : Forward(Latest[p], states[p])
    <3>1. CASE new = entry
      BY <1>h, <2>5, <3>1
    <3>2. CASE new # entry
      <4>1. states = [Latest EXCEPT ![k.from] = new]
        BY <3>2
      <4> HIDE DEF new, states
      <4> QED
        BY <1>h, <2>3, <2>5, <4>1 DEF States_, Forward
    <3> QED
      BY <3>1, <3>2
  <2>7. new = entry => states = Latest
    OBVIOUS
  <2> HIDE DEF entry, new, states
  <2>8. /\ registered' = Registered /\ registered' # NoModel /\ Latest' = states
        /\ Latest[Me] # "none" => states[Me] # "none"
        /\ \A q \in known \ dropped : q \in collection \/ Shown(states, q)
    BY <2>1, <2>6, MovedCounts
  <2>9. Counted' /\ OursThere'
    <3>1. Shown(states, k)
      BY <2>5, <2>6 DEF Shown
    <3> QED
      BY <2>1, <2>2, <2>8, <3>1, LatestWorks DEF Counted, OursThere, Shown
  <2>10. InTable'
    BY <2>1, <2>7, <2>8 DEF CountInv, InTable, transcriptVars
  <2>11. Begun' /\ Unsent'
    BY <2>1, <2>2 DEF CountInv, Begun, Unsent, TypeInv, ReceiptsOK, envVars, jobVars, transcriptVars
  <2>12. Awaited'
    <3>1. row # NoEntries
      BY <2>2 DEF saved, NoEntries, All
    <3>2. transcript # "awaited"
      BY <3>1 DEF RefInv, Elsewhere
    <3> QED
      BY <2>1, <3>2 DEF CountInv, Awaited, transcriptVars
  <2> QED
    BY <2>9, <2>10, <2>11, <2>12 DEF CountInv
<1>7. CASE enqueueMessageForSend
  <2> DEFINE new == [p \in All |-> "Pending"]
  <2>1. /\ Set(Registered, new) /\ row' = new
        /\ transcript = "none" /\ job = "none" /\ job' = "queued"
        /\ UNCHANGED <<envVars, receiptVars, transcriptVars>>
    BY <1>7 DEF enqueueMessageForSend
  <2>2. Registered \in Models /\ new[Me] = "Pending"
    BY ModelsWork DEF TypeInv, All
  <2> HIDE DEF new
  <2>3. registered' \in Models /\ Latest' = new
    BY <1>n, <2>1, <2>2 DEF Set, Latest, TypeInv, ModelsOK
  <2>4. known = {}
    BY <2>1 DEF CountInv, Unsent, TypeInv, ReceiptsOK
  <2>5. Counted' /\ InTable' /\ OursThere' /\ saved'
    BY <2>1, <2>2, <2>3, <2>4 DEF Counted, InTable, OursThere, saved, receiptVars
  <2>6. Begun' /\ Unsent'
    BY <2>1, <2>5 DEF Begun, Unsent
  <2>7. Awaited'
    BY <2>1 DEF CountInv, Awaited, transcriptVars
  <2> QED
    BY <2>5, <2>6, <2>7 DEF CountInv
<1>8. CASE retrySend
  <2>0. PICK gone \in SUBSET MayLeave :
          LET m == Registered
              new == [p \in All |-> IF isSent(States(m)[p]) \/ p \in gone THEN States(m)[p]
                                    ELSE sendStateReducer(States(m)[p], "Pending")]
          IN  Set(m, new) /\ row' = new
    BY <1>8 DEF retrySend
  <2> DEFINE new == [p \in All |-> IF isSent(Latest[p]) \/ p \in gone THEN Latest[p]
                                   ELSE sendStateReducer(Latest[p], "Pending")]
  <2>1. /\ Set(Registered, new) /\ row' = new
        /\ job = "done" /\ job' = "queued"
        /\ UNCHANGED <<updating, receiptVars, transcriptVars>>
    BY <1>8, <2>0, LatestWorks DEF retrySend
  <2>2. \A p \in All : new[p] \in Statuses /\ Forward(Latest[p], new[p])
    BY <1>h, ReducerWorks DEF SendStatus
  <2>3. new \in States_
    BY <2>2 DEF States_
  <2>4. saved /\ saved'
    BY <1>0, <2>1 DEF CountInv, Begun
  <2> HIDE DEF new
  <2> QED
    BY <2>1, <2>2, <2>3, <2>4, MovedKeeps
<1>9. CASE StartRun \/ RunThrows \/ RunReturns
  <2>1. /\ Set(Registered, Latest) /\ row' = row
        /\ job = "queued" /\ job' # "none"
        /\ UNCHANGED <<updating, receiptVars, transcriptVars>>
    <3>1. CASE StartRun
      BY <3>1, LatestWorks DEF StartRun
    <3>2. CASE RunThrows \/ RunReturns
      BY <3>2, LatestWorks DEF RunThrows, RunReturns
    <3> QED
      BY <1>9, <3>1, <3>2
  <2>2. saved /\ saved'
    BY <1>0, <2>1 DEF CountInv, Begun
  <2> QED
    BY <1>h, <2>1, <2>2, MovedKeeps
<1>10. CASE RunGivesUp
  <2>1. /\ MarkFailed(Registered)
        /\ job = "queued" /\ job' # "none"
        /\ UNCHANGED <<updating, receiptVars, transcriptVars>>
    BY <1>10 DEF RunGivesUp
  <2>2. saved /\ saved'
    BY <1>0, <2>1 DEF CountInv, Begun
  <2>3. PICK s \in States_ : Set(Registered, s) /\ row' = s /\ \A p \in All : Forward(Latest[p], s[p])
    BY <2>1, MarkFailedMoves
  <2> QED
    BY <2>1, <2>2, <2>3, MovedKeeps
<1>11. CASE SendEnds
  <2>1. /\ job = "sending" /\ job' = "saving" /\ row' = model[held]
        /\ UNCHANGED <<registered, model, updating, receiptVars, transcriptVars>>
    BY <1>11 DEF SendEnds
  <2>2. held \in Models
    BY <2>1 DEF TypeInv, JobShape, Active
  <2>3. registered # NoModel /\ row' = Latest
    BY <1>n, <2>1, <2>2 DEF RefInv, OneModel, Latest
  <2> QED
    BY <1>0, <2>1, <2>3, SaveCounts
<1>12. CASE ApplyResult
  <2> DEFINE sent == Reduced(Latest, successful, "Sent")
             new == IF LastAttempt THEN Reduced(sent, failed, "Failed") ELSE sent
  <2>1. held \in Models /\ successful \in SUBSET All /\ failed \in SUBSET All
    BY <1>12 DEF ApplyResult, TypeInv, JobShape, Active, JobOK
  <2>2. Registered = held /\ registered = held /\ Latest = model[held]
    BY <1>n, <2>1, Current DEF RefInv, OneModel, Latest
  <2>3. /\ Set(Registered, new) /\ row' = new
        /\ job = "saving" /\ job' # "none"
        /\ UNCHANGED <<updating, receiptVars, transcriptVars>>
    BY <1>12, <2>2 DEF ApplyResult, StatesNow, SetHeld, Set
  <2>4. sent \in States_ /\ \A p \in All : AtLeast(sent[p], Latest[p])
    BY <1>h, <2>1, ReducedForward DEF SendStatus
  <2> HIDE DEF sent
  <2>5. new \in States_ /\ \A p \in All : Forward(Latest[p], new[p])
    BY <1>h, <2>1, <2>4, ReducedForward DEF SendStatus, Forward
  <2> HIDE DEF new
  <2>6. saved /\ saved'
    BY <1>0, <2>3 DEF CountInv, Begun
  <2> QED
    BY <2>3, <2>5, <2>6, MovedKeeps
<1>13. CASE SyncSent
  <2> DEFINE new == Reduced(Latest, {Me}, "Sent")
  <2>1. held \in Models /\ {Me} \in SUBSET All
    BY <1>13 DEF SyncSent, TypeInv, JobShape, Active, All
  <2>2. Registered = held /\ registered = held /\ Latest = model[held]
    BY <1>n, <2>1, Current DEF RefInv, OneModel, Latest
  <2>3. /\ Set(Registered, new) /\ row' = new
        /\ job = "syncing" /\ job' # "none"
        /\ UNCHANGED <<updating, receiptVars, transcriptVars>>
    BY <1>13, <2>2 DEF SyncSent, SetHeld, Set
  <2>4. new \in States_ /\ \A p \in All : Forward(Latest[p], new[p])
    BY <1>h, <2>1, ReducedForward DEF SendStatus
  <2> HIDE DEF new
  <2>5. saved /\ saved'
    BY <1>0, <2>3 DEF CountInv, Begun
  <2> QED
    BY <2>3, <2>4, <2>5, MovedKeeps
<1>14. CASE SyncFails
  <2>1. /\ job = "syncing" /\ job' = "thrown" /\ (row' = row \/ row' = model[held])
        /\ UNCHANGED <<registered, model, updating, receiptVars, transcriptVars>>
    BY <1>14 DEF SyncFails
  <2>2. held \in Models
    BY <2>1 DEF TypeInv, JobShape, Active
  <2>3. registered # NoModel /\ model[held] = Latest
    BY <1>n, <2>2 DEF RefInv, OneModel, Latest
  <2> QED
    BY <1>0, <2>1, <2>3, SaveCounts
<1>15. CASE RunEnds \/ \E stop \in BOOLEAN : RunFails(stop)
  <2>1. /\ job \in Active /\ job' # "none"
        /\ UNCHANGED <<updating, receiptVars, transcriptVars>>
        /\ \/ /\ IF Kept(held) THEN UNCHANGED model ELSE Forget(held)
              /\ UNCHANGED <<registered, row>>
           \/ MarkFailed(held)
    <3>1. CASE RunEnds
      BY <3>1 DEF RunEnds, Active
    <3>2. ASSUME NEW stop \in BOOLEAN, RunFails(stop)
          PROVE  /\ job \in Active /\ job' # "none"
                 /\ UNCHANGED <<updating, receiptVars, transcriptVars>>
                 /\ \/ /\ IF Kept(held) THEN UNCHANGED model ELSE Forget(held)
                       /\ UNCHANGED <<registered, row>>
                    \/ MarkFailed(held)
      BY <3>2 DEF RunFails, Active
    <3> QED
      BY <1>15, <3>1, <3>2
  <2>2. held \in Models /\ job # "none"
    BY <2>1 DEF TypeInv, JobShape, Active
  <2>3. Registered = held /\ registered = held
    BY <1>n, <2>2, Current DEF RefInv, OneModel
  <2>4. saved /\ saved'
    BY <1>0, <2>2 DEF CountInv, Begun
  <2>5. CASE MarkFailed(held)
    <3>1. PICK s \in States_ :
              Set(Registered, s) /\ row' = s /\ \A p \in All : Forward(Latest[p], s[p])
      BY <2>3, <2>5, MarkFailedMoves
    <3> QED
      BY <2>1, <2>2, <2>4, <3>1, MovedKeeps
  <2>6. CASE UNCHANGED <<registered, row, model>>
    BY <2>1, <2>2, <2>4, <2>6, SaveCounts
  <2> QED
    BY <2>1, <2>3, <2>5, <2>6 DEF Kept
<1>16. CASE SentTranscript
  <2> DEFINE first == [p \in All |-> IF p \in listed \cup {Me} THEN "Sent" ELSE "none"]
             new == EarlyReceipts(first)
  <2>1. /\ transcript = "awaited" /\ transcript' = "saving"
        /\ Set(Registered, new) /\ collection' = {}
        /\ dropped' = dropped \cup {k \in collection : first[k.from] = "none"}
        /\ UNCHANGED <<accepted, transmitting, issued, row, query, known, updating, job, update>>
    BY <1>16 DEF SentTranscript, TakeEarly, envVars, jobVars
  <2>2. first \in States_ /\ first[Me] = "Sent"
    BY DEF States_, Statuses, SendStatus, All
  <2> HIDE DEF first
  <2>3. Latest = NoEntries
    BY <2>1 DEF CountInv, Awaited, Latest, RefInv, Elsewhere
  <2>4. known \ dropped \subseteq collection
    <3>1. ASSUME NEW k \in known \ dropped
          PROVE  ~Shown(Latest, k)
      BY <2>3, <3>1, LatestWorks, ReceiptShape, Numbers DEF Shown, NoEntries, AtLeast
    <3> QED
      BY <3>1 DEF CountInv, Counted
  <2>5. /\ \A k \in collection : first[k.from] # "none" => Shown(new, k)
        /\ new[Me] = "Sent"
    BY <2>2, LatestWorks, EarlyShows
  <2> HIDE DEF new
  <2>6. registered' # NoModel /\ Latest' = new
    BY <1>n, <2>1, ModelsWork DEF Set, Latest, TypeInv, ModelsOK
  <2>7. Counted' /\ OursThere'
    BY <2>1, <2>4, <2>5, <2>6 DEF Counted, OursThere, Shown
  <2>8. InTable' /\ Awaited' /\ Unsent'
    BY <2>1 DEF CountInv, InTable, Awaited, Unsent
  <2>9. Begun'
    BY <1>0, <2>1 DEF CountInv, Begun, RefInv, Elsewhere
  <2> QED
    BY <2>7, <2>8, <2>9 DEF CountInv
<1>17. CASE SaveNew
  <2>1. /\ transcript = "saving" /\ transcript' = "saved" /\ row' = model[registered]
        /\ UNCHANGED <<accepted, transmitting, issued, registered, model, updating, receiptVars,
                       job, update>>
    BY <1>17 DEF SaveNew, envVars, jobVars
  <2>2. registered # NoModel
    BY <1>n, <2>1 DEF TypeInv, TranscriptOK
  <2>3. Latest' = Latest /\ row' = Latest /\ Latest[Me] # "none"
    BY <2>1, <2>2 DEF Latest, CountInv, OursThere
  <2>4. Counted' /\ InTable' /\ OursThere' /\ saved'
    BY <2>1, <2>3 DEF CountInv, Counted, InTable, OursThere, Shown, saved, receiptVars
  <2>5. Begun' /\ Awaited' /\ Unsent'
    BY <2>1, <2>4 DEF CountInv, Begun, Awaited, Unsent
  <2> QED
    BY <2>4, <2>5 DEF CountInv
<1>18. CASE SecondRun
  <2> DEFINE new == EarlyReceipts(Latest)
  <2>1. transcript = "saved"
    BY <1>18 DEF SecondRun
  <2>2. registered # NoModel /\ Registered = registered /\ Latest = model[registered]
    BY <1>n, <2>1, ModelsWork DEF TypeInv, TranscriptOK, Latest
  <2>3. /\ transcript' = "done" /\ Set(Registered, new) /\ collection' = {}
        /\ row' = IF new = Latest THEN row ELSE new
        /\ dropped' = dropped \cup {k \in collection : Latest[k.from] = "none"}
        /\ UNCHANGED <<accepted, transmitting, issued, query, known, updating, job, update>>
    BY <1>18, <2>2 DEF SecondRun, TakeEarly, envVars, jobVars
  <2>4. /\ new \in States_ /\ \A p \in All : Forward(Latest[p], new[p])
        /\ \A k \in collection : Latest[k.from] # "none" => Shown(new, k)
    BY <1>h, LatestWorks, EarlyWorks, EarlyShows DEF Forward
  <2> HIDE DEF new
  <2>5. /\ registered' # NoModel /\ Latest' = new
        /\ Latest[Me] # "none" => new[Me] # "none"
        /\ \A k \in known \ dropped : k \in collection \/ Shown(new, k)
    BY <2>3, <2>4, MovedCounts
  <2>6. Counted' /\ OursThere'
    BY <2>2, <2>3, <2>4, <2>5 DEF CountInv, Counted, OursThere, Shown
  <2>7. InTable'
    BY <2>1, <2>3, <2>5 DEF CountInv, InTable
  <2>8. Begun' /\ Awaited' /\ Unsent'
    BY <1>0, <2>1, <2>3 DEF CountInv, Begun, Awaited, Unsent
  <2> QED
    BY <2>6, <2>7, <2>8 DEF CountInv
<1>19. CASE UpdateTranscript
  <2> DEFINE new == [p \in All |-> IF p \in listed \cup {Me} THEN Latest[p]
                                   ELSE sendStateReducer(Latest[p], "Sent")]
  <2>1. /\ update = "awaited" /\ transcript # "awaited" /\ update' = "done"
        /\ Set(Registered, new) /\ row' = IF saved THEN new ELSE row
        /\ UNCHANGED <<accepted, transmitting, issued, updating, receiptVars, job, transcript>>
    BY <1>19, LatestWorks DEF UpdateTranscript, envVars, jobVars
  <2>2. \A p \in All : new[p] \in Statuses /\ Forward(Latest[p], new[p])
    BY <1>h, ReducerWorks DEF SendStatus
  <2>3. new \in States_
    BY <2>2 DEF States_
  <2> HIDE DEF new
  <2>4. /\ registered' # NoModel /\ Latest' = new
        /\ Latest[Me] # "none" => new[Me] # "none"
        /\ \A k \in known \ dropped : k \in collection \/ Shown(new, k)
    BY <2>1, <2>2, <2>3, MovedCounts
  <2>5. transcript = "saving" => registered # NoModel
    BY <1>n DEF TypeInv, TranscriptOK
  <2>6. transcript # "saving" => saved
    BY <2>1 DEF CountInv, Awaited, Begun, TypeInv, TranscriptOK
  <2>7. Latest[Me] # "none"
    BY <2>5, <2>6, LatestWorks DEF CountInv, OursThere
  <2>8. Counted' /\ OursThere'
    BY <2>1, <2>4, <2>7 DEF Counted, OursThere, Shown, receiptVars
  <2>9. InTable'
    BY <2>1, <2>4, <2>6 DEF InTable
  <2>10. Begun' /\ Awaited' /\ Unsent'
    BY <1>0, <2>1 DEF CountInv, Begun, Awaited, Unsent, receiptVars
  <2> QED
    BY <2>8, <2>9, <2>10 DEF CountInv
<1>20. CASE FlushUpdate
  <2>1. /\ updating # NoModel /\ updating' = NoModel
        /\ row' = IF saved THEN model[updating] ELSE row
        /\ UNCHANGED <<accepted, transmitting, issued, registered, model, receiptVars, job,
                       transcriptVars>>
    BY <1>20 DEF FlushUpdate, envVars, jobVars
  <2>2. saved /\ updating = registered
    BY <2>1 DEF CountInv, Begun, RefInv, OneModel
  <2>3. registered # NoModel /\ row' = Latest
    BY <2>1, <2>2 DEF Latest
  <2> QED
    BY <1>0, <2>1, <2>3, SaveCounts
<1>21. CASE Cleanup
  <2>1. /\ updating = NoModel /\ transcript \in {"none", "done"} /\ registered' = NoModel
        /\ UNCHANGED <<accepted, transmitting, issued, updating, row, receiptVars, job,
                       transcriptVars>>
    BY <1>21 DEF Cleanup, envVars, jobVars
  <2>2. Latest' = row /\ row = Latest
    BY <2>1 DEF CountInv, InTable, Latest
  <2>3. Counted' /\ InTable' /\ OursThere'
    BY <2>1, <2>2 DEF CountInv, Counted, InTable, OursThere, Shown, receiptVars
  <2>4. Begun' /\ Awaited' /\ Unsent'
    BY <1>0, <2>1 DEF CountInv, Begun, Awaited, Unsent, receiptVars, transcriptVars
  <2> QED
    BY <2>3, <2>4 DEF CountInv
<1>22. CASE CrashAndRestart
  <2>1. /\ registered' = NoModel /\ updating' = NoModel
        /\ query' = [k \in Receipts |-> "no"] /\ transmitting' = {}
        /\ known' = {k \in known : Shown(row, k)}
        /\ UNCHANGED <<accepted, issued, row>>
    BY <1>22 DEF CrashAndRestart
  <2>2. /\ job = "none" <=> job' = "none"
        /\ transcript = "none" <=> transcript' = "none"
        /\ transcript' \in {"saved", "done"} => transcript \in {"saved", "done"}
        /\ update = "none" <=> update' = "none"
    <3>1. job = "none" <=> job' = "none"
      BY <1>22 DEF CrashAndRestart
    <3>2. /\ transcript = "none" <=> transcript' = "none"
          /\ transcript' \in {"saved", "done"} => transcript \in {"saved", "done"}
      BY <1>22 DEF CrashAndRestart, TypeInv, TranscriptOK
    <3>3. update = "none" <=> update' = "none"
      BY <1>22 DEF CrashAndRestart
    <3> QED
      BY <3>1, <3>2, <3>3
  <2>3. Counted' /\ InTable' /\ OursThere'
    BY <2>1 DEF Counted, InTable, OursThere, Latest, Shown
  <2>4. Begun' /\ Awaited' /\ Unsent'
    BY <1>0, <2>1, <2>2 DEF CountInv, Begun, Awaited, Unsent
  <2> QED
    BY <2>3, <2>4 DEF CountInv
<1> QED
  BY <1>1, <1>2, <1>3, <1>4, <1>5, <1>6, <1>7, <1>8, <1>9, <1>10, <1>11, <1>12, <1>13, <1>14, <1>15, <1>16,
     <1>17, <1>18, <1>19, <1>20, <1>21, <1>22 DEF Next, Recipient, Receipt, Run, Transcript

\* As long as MessageController keeps the model an attempt works on, a receipt that
\* this process got and did not drop for want of an entry is in the collection, about
\* to be handled or shown: whatever overtakes it.
THEOREM ReceiptsCount ==
  ASSUME ForgetHeld = FALSE
  PROVE  Spec => []EveryReceiptCounts
<1>1. Init => RefInv /\ CountInv
  BY RefInit, CountInit
<1>2. TypeInv /\ RefInv /\ [Next]_vars => RefInv'
  BY RefStep
<1>3. TypeInv /\ RefInv /\ CountInv /\ [Next]_vars => CountInv'
  BY CountStep
<1> QED
  BY WellTyped, CountIsEnough, <1>1, <1>2, <1>3, PTL DEF Spec

=============================================================================
