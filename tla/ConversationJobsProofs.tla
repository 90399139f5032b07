------------------------ MODULE ConversationJobsProofs ------------------------
(***************************************************************************)
(* Theorems about ConversationJobs, for any conversations, contacts, jobs, *)
(* attempts and troubles: no job waits for a waiter nobody will resolve, a *)
(* registered conversation with a time to retry is never forgotten, and a  *)
(* cancelled message is not sent.                                          *)
(***************************************************************************)
EXTENDS ConversationJobs, TLAPS

-----------------------------------------------------------------------------
(* Types *)

Flags ==
    /\ isOnline \in BOOLEAN /\ challengeToken \in BOOLEAN
    /\ network \in BOOLEAN /\ connecting \in BOOLEAN /\ blipped \in BOOLEAN

Data ==
    /\ created \subseteq Jobs
    /\ phase \in [Jobs -> {"queued", "waiting", "sending"} \cup Over]
    /\ attempt \in [Jobs -> 1..MaxAttempts]
    /\ waiters \subseteq Conversations
    /\ registered \subseteq Conversations /\ hasRetry \subseteq Conversations
    /\ hasToken \subseteq Conversations
    /\ registering \subseteq Conversations /\ starting \subseteq Conversations
    /\ startTimers \subseteq Conversations /\ pendingStarts \subseteq Conversations
    /\ asked \in Nat /\ answering \in Nat
    /\ untrusted \subseteq Contacts
    /\ stopping \in [Conversations -> SUBSET Contacts]
    /\ tombstone \in [Conversations -> SUBSET Jobs]
    /\ verifying \in [contacts : SUBSET Contacts, conversations : SUBSET Conversations]
    /\ cancelled \subseteq created /\ overruled \subseteq created
    /\ troubles \in 0..MaxTroubles

LEMMA TypeParts == TypeOK <=> Flags /\ Data
  BY Zenon DEF TypeOK, Flags, Data

LEMMA TypeInit == Init => TypeOK
<1> SUFFICES ASSUME Init PROVE TypeOK
  OBVIOUS
<1>1. Flags
  BY Zenon DEF Init, Flags
<1>2. 1 \in 1..MaxAttempts /\ 0 \in 0..MaxTroubles /\ 0 \in Nat
  BY ConversationJobsAssumption
<1>3. Data
  BY <1>2 DEF Init, Data, Over, Nobody
<1> QED
  BY <1>1, <1>3, TypeParts

LEMMA TypeJobs ==
  ASSUME TypeOK, NEW j \in Jobs,
         \/ Create(j) \/ Check(j) \/ WaitTimesOut(j) \/ SendStopped(j)
         \/ Sent(j) \/ SendFails(j) \/ SendChallenged(j)
  PROVE  TypeOK'
<1> USE ConversationJobsAssumption
    DEF TypeOK, jobVars, challengeVars, verificationVars, networkVars, bounds, Over
<1>0. ConversationOf[j] \in Conversations
  BY DEF Jobs
<1>1. CASE Create(j)
  <2>1. Flags'
    BY <1>1, TypeParts, Zenon DEF Flags, Create, solve
  <2>2. Data'
    BY <1>0, <1>1, TypeParts DEF Data, Create, solve
  <2> QED
    BY <2>1, <2>2 DEF Flags, Data
<1>2. CASE Check(j)
  <2>1. Flags'
    BY <1>2, TypeParts, Zenon DEF Flags, Check
  <2>2. Data'
    <3>1. phase' \in [Jobs -> {"queued", "waiting", "sending"} \cup Over]
      <4>1. \E p \in {"failed", "waiting", "sending"} : phase' = [phase EXCEPT ![j] = p]
        BY <1>2, Zenon DEF Check, Fail
      <4> QED
        BY <4>1
    <3>4. attempt' \in [Jobs -> 1..MaxAttempts]
      <4>1. 1 \in 1..MaxAttempts
        OBVIOUS
      <4>2. attempt' = attempt \/ attempt' = [attempt EXCEPT ![j] = 1]
        BY <1>2, Zenon DEF Check, Fail
      <4> QED
        BY <4>1, <4>2
    <3>2. waiters' \subseteq Conversations /\ tombstone' \in [Conversations -> SUBSET Jobs]
      BY <1>0, <1>2 DEF Check, Fail
    <3>3. cancelled' \subseteq created' /\ overruled' \subseteq created'
      BY <1>2 DEF Check, Fail
    <3> QED
      BY <1>2, <3>1, <3>2, <3>3, <3>4 DEF Data, Check
  <2> QED
    BY <2>1, <2>2 DEF Flags, Data
<1>3. CASE WaitTimesOut(j)
  BY <1>3 DEF WaitTimesOut
<1>4. CASE SendStopped(j)
  BY <1>0, <1>4 DEF SendStopped, Challenged, Register, AttemptFails, MayRetry, Untrusted
<1>5. CASE Sent(j)
  BY <1>5 DEF Sent
<1>6. CASE SendFails(j)
  BY <1>6 DEF SendFails, AttemptFails, MayRetry
<1>7. CASE SendChallenged(j)
  BY <1>0, <1>7 DEF SendChallenged, Challenged, Register, AttemptFails, MayRetry
<1> QED
  BY <1>1, <1>2, <1>3, <1>4, <1>5, <1>6, <1>7

LEMMA TypeHandler ==
  ASSUME TypeOK,
         \/ \E c \in Conversations : Registered(c) \/ StartQueue(c) \/ TimerFires(c)
         \/ CaptchaSolved \/ ConnectDone
         \/ \E success \in BOOLEAN : ChallengeAnswered(success)
  PROVE  TypeOK'
<1> USE DEF TypeOK, jobVars, challengeVars, verificationVars, networkVars, bounds
<1>1. ASSUME NEW c \in Conversations, Registered(c) PROVE TypeOK'
  <2>1. Flags'
    BY <1>1, TypeParts, Zenon DEF Flags, Registered, StartQueues, solve
  <2>2. Data'
    BY <1>1, TypeParts DEF Data, Registered, StartQueues, NeedsTimer, solve
  <2> QED
    BY <2>1, <2>2 DEF Flags, Data
<1>2. ASSUME NEW c \in Conversations, StartQueue(c) PROVE TypeOK'
  BY <1>2 DEF StartQueue, WakeUp, Over
<1>3. ASSUME NEW c \in Conversations, TimerFires(c) PROVE TypeOK'
  <2>1. Flags'
    BY <1>3, TypeParts, Zenon DEF Flags, TimerFires
  <2>2. Data'
    BY <1>3, TypeParts DEF Data, TimerFires, StartQueues
  <2> QED
    BY <2>1, <2>2 DEF Flags, Data
<1>4. CASE CaptchaSolved
  <2>1. Flags'
    BY <1>4, TypeParts, Zenon DEF Flags, CaptchaSolved
  <2>2. Data'
    BY <1>4, TypeParts DEF Data, CaptchaSolved
  <2> QED
    BY <2>1, <2>2 DEF Flags, Data
<1>5. ASSUME NEW success \in BOOLEAN, ChallengeAnswered(success) PROVE TypeOK'
  BY <1>5 DEF ChallengeAnswered, StartQueues
<1>6. CASE ConnectDone
  BY <1>6 DEF ConnectDone, onOnline
<1> QED
  BY <1>1, <1>2, <1>3, <1>4, <1>5, <1>6

LEMMA TypeRest ==
  ASSUME TypeOK,
         \/ \E p \in Contacts : KeyChange(p)
         \/ Verify \/ VerifyDone \/ Cancel \/ Offline \/ Online \/ CrashAndRestart
  PROVE  TypeOK'
<1> USE ConversationJobsAssumption
    DEF TypeOK, jobVars, challengeVars, verificationVars, networkVars, bounds
<1>1. ASSUME NEW p \in Contacts, KeyChange(p) PROVE TypeOK'
  BY <1>1 DEF KeyChange
<1>2. CASE Verify
  BY <1>2 DEF Verify, Stopped, Nobody
<1>3. CASE VerifyDone
  BY <1>3 DEF VerifyDone, WakeUp, Nobody, Over
<1>4. CASE Cancel
  BY <1>4 DEF Cancel, WakeUp, Tombstones, Stopped, JobsOf, Cancellable, Over
<1>5. CASE Offline
  <2>1. Flags'
    BY <1>5, TypeParts, Zenon DEF Flags, Offline
  <2>2. Data'
    BY <1>5, TypeParts DEF Data, Offline
  <2> QED
    BY <2>1, <2>2 DEF Flags, Data
<1>6. CASE Online
  BY <1>6 DEF Online
<1>7. CASE CrashAndRestart
  <2>1. Flags'
    BY <1>7, TypeParts, Zenon DEF Flags, CrashAndRestart
  <2>2. Data'
    BY <1>7, TypeParts DEF Data, CrashAndRestart, Nobody, Over
  <2> QED
    BY <2>1, <2>2 DEF Flags, Data
<1> QED
  BY <1>1, <1>2, <1>3, <1>4, <1>5, <1>6, <1>7

LEMMA TypeStutter == TypeOK /\ UNCHANGED vars => TypeOK'
  BY DEF TypeOK, vars, jobVars, challengeVars, verificationVars, networkVars, bounds

LEMMA TypeNext == TypeOK /\ [Next]_vars => TypeOK'
  BY TypeJobs, TypeHandler, TypeRest, TypeStutter DEF Next

(* Every reachable state is well typed. *)
THEOREM TypeCorrect == Spec => []TypeOK
  BY TypeInit, TypeNext, PTL DEF Spec

-----------------------------------------------------------------------------
(* Waiting jobs *)

\* Who resolves the waiter of c is there.
Served(c) ==
    /\ c \in waiters
    /\ \/ c \in registered \cup starting
       \/ stopping[c] # {}
       \/ c \in verifying.conversations

LEMMA WaitersInit == Init => NoOneWaitsInVain
  BY DEF Init, NoOneWaitsInVain

\* A step that makes no job wait may only take from a conversation what it needs to
\* be served by what resolves its waiter.
LEMMA WaitersKept ==
  ASSUME TypeOK, NoOneWaitsInVain,
         \A j \in Jobs : phase'[j] = "waiting" =>
             phase[j] = "waiting" /\ (Served(ConversationOf[j]) => Served(ConversationOf[j])')
  PROVE  NoOneWaitsInVain'
  BY DEF NoOneWaitsInVain, Served

LEMMA WaitersNext ==
  ASSUME TypeOK, NoOneWaitsInVain, [Next]_vars
  PROVE  NoOneWaitsInVain'
<1> USE ConversationJobsAssumption DEF Served, Over
<1>0. /\ \A j \in Jobs : ConversationOf[j] \in Conversations
      /\ phase \in [Jobs -> {"queued", "waiting", "sending"} \cup Over]
      /\ stopping \in [Conversations -> SUBSET Contacts]
  BY DEF Jobs, TypeOK
<1>1. ASSUME NEW j \in Jobs, Create(j) PROVE NoOneWaitsInVain'
  BY <1>1, WaitersKept DEF Create, verificationVars
<1>2. ASSUME NEW j \in Jobs, Check(j) PROVE NoOneWaitsInVain'
  <2> DEFINE c == ConversationOf[j]
  <2>1. UNCHANGED <<registered, starting, stopping, verifying>>
    BY <1>2 DEF Check, challengeVars
  <2>2. waiters \subseteq waiters'
    BY <1>2 DEF Check
  <2>3. CASE phase' = [phase EXCEPT ![j] = "waiting"] /\ c \in waiters'
                /\ (c \in registered \/ stopping[c] # {})
    <3>1. Served(c)'
      BY <2>1, <2>3
    <3>2. \A i \in Jobs \ {j} : phase'[i] = phase[i]
      BY <1>0, <2>3
    <3> QED
      BY <2>1, <2>2, <3>1, <3>2 DEF NoOneWaitsInVain
  <2>4. CASE \E p \in {"failed", "sending"} : phase' = [phase EXCEPT ![j] = p]
    <3>1. \A i \in Jobs : phase'[i] = "waiting" => phase[i] = "waiting"
      BY <1>0, <2>4
    <3> QED
      BY <2>1, <2>2, <3>1, WaitersKept
  <2>5. \/ phase' = [phase EXCEPT ![j] = "waiting"] /\ c \in waiters'
           /\ (c \in registered \/ stopping[c] # {})
        \/ \E p \in {"failed", "sending"} : phase' = [phase EXCEPT ![j] = p]
    <3>1. ASSUME waiters' = waiters \cup {c} PROVE c \in waiters'
      BY <3>1
    <3> HIDE DEF c
    <3> QED
      BY <1>2, <3>1, Zenon DEF Check, Fail, c
  <2> QED
    BY <2>3, <2>4, <2>5
<1>3. ASSUME NEW j \in Jobs, WaitTimesOut(j) PROVE NoOneWaitsInVain'
  BY <1>0, <1>3, WaitersKept DEF WaitTimesOut, challengeVars, verificationVars
<1>4. ASSUME NEW j \in Jobs, SendStopped(j) PROVE NoOneWaitsInVain'
  <2>1. registered \subseteq registered' /\ starting' = starting
    BY <1>4 DEF SendStopped, Challenged, Register, challengeVars
  <2>2. verifying' = verifying /\ waiters' = waiters
    BY <1>4 DEF SendStopped, AttemptFails
  <2> QED
    BY <1>0, <1>4, <2>1, <2>2, WaitersKept DEF SendStopped, AttemptFails
<1>5. ASSUME NEW j \in Jobs, Sent(j) PROVE NoOneWaitsInVain'
  BY <1>0, <1>5, WaitersKept DEF Sent, challengeVars, verificationVars
<1>6. ASSUME NEW j \in Jobs, SendFails(j) PROVE NoOneWaitsInVain'
  BY <1>0, <1>6, WaitersKept DEF SendFails, AttemptFails, challengeVars, verificationVars
<1>7. ASSUME NEW j \in Jobs, SendChallenged(j) PROVE NoOneWaitsInVain'
  <2>1. registered \subseteq registered' /\ UNCHANGED <<starting, stopping, verifying, waiters>>
    BY <1>7 DEF SendChallenged, Challenged, Register, AttemptFails, challengeVars, verificationVars
  <2> QED
    BY <1>0, <1>7, <2>1, WaitersKept DEF SendChallenged, AttemptFails
<1>8. ASSUME NEW c \in Conversations, Registered(c) PROVE NoOneWaitsInVain'
  <2>1. registered \cup starting \subseteq registered' \cup starting'
    BY <1>8 DEF Registered, StartQueues
  <2> QED
    BY <1>8, <2>1, WaitersKept DEF Registered, jobVars, verificationVars
<1>9. ASSUME NEW c \in Conversations, StartQueue(c) PROVE NoOneWaitsInVain'
  <2>1. \A j \in Jobs : phase'[j] = "waiting" =>
             phase[j] = "waiting" /\ ConversationOf[j] # c
    BY <1>0, <1>9 DEF StartQueue, WakeUp
  <2> QED
    BY <1>0, <1>9, <2>1, WaitersKept DEF StartQueue, WakeUp, verificationVars
<1>10. ASSUME NEW c \in Conversations, TimerFires(c) PROVE NoOneWaitsInVain'
  <2>1. registered \cup starting \subseteq registered' \cup starting'
    BY <1>10 DEF TimerFires, StartQueues
  <2> QED
    BY <1>10, <2>1, WaitersKept DEF TimerFires, jobVars, verificationVars
<1>11. CASE CaptchaSolved
  BY <1>11, WaitersKept DEF CaptchaSolved, jobVars, verificationVars
<1>12. ASSUME NEW success \in BOOLEAN, ChallengeAnswered(success) PROVE NoOneWaitsInVain'
  <2>1. registered \cup starting \subseteq registered' \cup starting'
    BY <1>12 DEF ChallengeAnswered, StartQueues
  <2> QED
    BY <1>12, <2>1, WaitersKept DEF ChallengeAnswered, jobVars, verificationVars
<1>13. ASSUME NEW p \in Contacts, KeyChange(p) PROVE NoOneWaitsInVain'
  BY <1>13, WaitersKept DEF KeyChange, jobVars, challengeVars
<1>14. CASE Verify
  <2>1. \A c \in Conversations : stopping[c] # {} => c \in verifying'.conversations
    BY <1>14 DEF Verify, Stopped
  <2>2. verifying.conversations = {}
    BY <1>14 DEF Verify, Nobody
  <2> QED
    BY <1>0, <1>14, <2>1, <2>2, WaitersKept DEF Verify, jobVars, challengeVars
<1>15. CASE VerifyDone
  <2>1. \A j \in Jobs : phase'[j] = "waiting" =>
             phase[j] = "waiting" /\ ConversationOf[j] \notin verifying.conversations
    BY <1>0, <1>15 DEF VerifyDone, WakeUp
  <2> QED
    BY <1>0, <1>15, <2>1, WaitersKept DEF VerifyDone, WakeUp, challengeVars
<1>16. CASE Cancel
  <2>1. \A j \in Jobs : phase'[j] = "waiting" =>
             phase[j] = "waiting" /\ ConversationOf[j] \notin Stopped
    BY <1>0, <1>16 DEF Cancel, WakeUp
  <2>2. waiters' = waiters \ Stopped /\ UNCHANGED <<registered, starting, verifying>>
    BY <1>16 DEF Cancel, WakeUp, challengeVars
  <2>3. \A c \in Conversations \ Stopped : stopping[c] = {}
    BY DEF Stopped
  <2> QED
    BY <1>0, <2>1, <2>2, <2>3, WaitersKept
<1>17. CASE Offline
  BY <1>17, WaitersKept DEF Offline, jobVars, verificationVars
<1>18. CASE Online
  BY <1>18, WaitersKept DEF Online, jobVars, challengeVars, verificationVars
<1>19. CASE ConnectDone
  <2>1. registered \cup starting \subseteq registered' \cup starting'
    BY <1>19 DEF ConnectDone, onOnline
  <2> QED
    BY <1>19, <2>1, WaitersKept DEF ConnectDone, jobVars, verificationVars
<1>20. CASE CrashAndRestart
  <2>1. \A j \in Jobs : phase'[j] # "waiting"
    BY <1>0, <1>20 DEF CrashAndRestart
  <2> QED
    BY <2>1 DEF NoOneWaitsInVain
<1>21. CASE UNCHANGED vars
  BY <1>21, WaitersKept DEF vars, jobVars, challengeVars, verificationVars
<1> QED
  BY <1>1, <1>2, <1>3, <1>4, <1>5, <1>6, <1>7, <1>8, <1>9, <1>10, <1>11, <1>12, <1>13,
     <1>14, <1>15, <1>16, <1>17, <1>18, <1>19, <1>20, <1>21 DEF Next

(* A job that waits is always served: its challenge is registered, or the       *)
(* safety number dialog or its answer is still to come.                         *)
THEOREM WaitersAreServed == Spec => []NoOneWaitsInVain
<1>1. Spec => [](TypeOK /\ NoOneWaitsInVain)
  <2>1. TypeOK /\ NoOneWaitsInVain /\ [Next]_vars => (TypeOK /\ NoOneWaitsInVain)'
    BY TypeNext, WaitersNext
  <2> QED
    BY TypeInit, WaitersInit, <2>1, PTL DEF Spec
<1> QED
  BY <1>1, PTL

-----------------------------------------------------------------------------
(* Registered conversations *)

LEMMA TendedInit == Init => RegisteredIsTended
  BY DEF Init, RegisteredIsTended

\* Steps that leave all of the handler's sets alone
LEMMA TendedKept ==
  ASSUME RegisteredIsTended,
         UNCHANGED <<registered, hasRetry, registering, startTimers, pendingStarts>>
  PROVE  RegisteredIsTended'
  BY DEF RegisteredIsTended

LEMMA TendedNext ==
  ASSUME RegisteredIsTended, [Next]_vars
  PROVE  RegisteredIsTended'
<1> USE DEF challengeVars
<1>1. ASSUME NEW j \in Jobs, Create(j) PROVE RegisteredIsTended'
  BY <1>1, TendedKept DEF Create
<1>2. ASSUME NEW j \in Jobs, Check(j) PROVE RegisteredIsTended'
  BY <1>2, TendedKept DEF Check
<1>3. ASSUME NEW j \in Jobs, WaitTimesOut(j) PROVE RegisteredIsTended'
  BY <1>3, TendedKept DEF WaitTimesOut
<1>4. ASSUME NEW j \in Jobs, SendStopped(j) PROVE RegisteredIsTended'
  <2>1. CASE Challenged(ConversationOf[j])
    BY <2>1 DEF Challenged, Register, RegisteredIsTended
  <2>2. CASE UNCHANGED challengeVars
    BY <2>2, TendedKept
  <2> QED
    BY <1>4, <2>1, <2>2 DEF SendStopped
<1>5. ASSUME NEW j \in Jobs, Sent(j) PROVE RegisteredIsTended'
  BY <1>5, TendedKept DEF Sent
<1>6. ASSUME NEW j \in Jobs, SendFails(j) PROVE RegisteredIsTended'
  BY <1>6, TendedKept DEF SendFails
<1>7. ASSUME NEW j \in Jobs, SendChallenged(j) PROVE RegisteredIsTended'
  BY <1>7 DEF SendChallenged, Challenged, Register, RegisteredIsTended
<1>8. ASSUME NEW c \in Conversations, Registered(c) PROVE RegisteredIsTended'
  BY <1>8 DEF Registered, StartQueues, NeedsTimer, RegisteredIsTended
<1>9. ASSUME NEW c \in Conversations, StartQueue(c) PROVE RegisteredIsTended'
  BY <1>9 DEF StartQueue, RegisteredIsTended
<1>10. ASSUME NEW c \in Conversations, TimerFires(c) PROVE RegisteredIsTended'
  BY <1>10 DEF TimerFires, StartQueues, RegisteredIsTended
<1>11. CASE CaptchaSolved
  BY <1>11, TendedKept DEF CaptchaSolved
<1>12. ASSUME NEW success \in BOOLEAN, ChallengeAnswered(success) PROVE RegisteredIsTended'
  BY <1>12 DEF ChallengeAnswered, StartQueues, RegisteredIsTended
<1>13. ASSUME NEW p \in Contacts, KeyChange(p) PROVE RegisteredIsTended'
  BY <1>13, TendedKept DEF KeyChange
<1>14. CASE Verify
  BY <1>14, TendedKept DEF Verify
<1>15. CASE VerifyDone
  BY <1>15, TendedKept DEF VerifyDone
<1>16. CASE Cancel
  BY <1>16, TendedKept DEF Cancel
<1>17. CASE Offline
  BY <1>17, TendedKept DEF Offline
<1>18. CASE Online
  BY <1>18, TendedKept DEF Online
<1>19. CASE ConnectDone
  BY <1>19 DEF ConnectDone, onOnline, RegisteredIsTended
<1>20. CASE CrashAndRestart
  BY <1>20 DEF CrashAndRestart, RegisteredIsTended
<1>21. CASE UNCHANGED vars
  BY <1>21, TendedKept DEF vars
<1> QED
  BY <1>1, <1>2, <1>3, <1>4, <1>5, <1>6, <1>7, <1>8, <1>9, <1>10, <1>11, <1>12, <1>13,
     <1>14, <1>15, <1>16, <1>17, <1>18, <1>19, <1>20, <1>21 DEF Next

(* Through every race of register, timers, answers, outages and restarts, what  *)
(* is registered with a time to retry has somebody who will start it.           *)
THEOREM ChallengesAreTended == Spec => []RegisteredIsTended
  BY TendedInit, TendedNext, PTL DEF Spec

-----------------------------------------------------------------------------
(* Cancelled messages *)

\* Jobs are created in their order.
CreatedInOrder == \A j \in created : \A i \in Jobs : i < j => i \in created

\* The queue of a conversation works on its oldest job.
OnlyHeadsRun == \A j \in Jobs : phase[j] \in {"waiting", "sending"} => IsHead(j)

\* While a job sends nothing stops its conversation and no tombstone is left.
SendingIsClear ==
    \A j \in Jobs : phase[j] = "sending" =>
        stopping[ConversationOf[j]] = {} /\ tombstone[ConversationOf[j]] = {}

\* A tombstone is about all jobs of its conversation up to some job.
TombstonesReachBack ==
    \A c \in Conversations : \A j \in tombstone[c] : \A i \in Jobs :
        ConversationOf[i] = c /\ i < j => i \in tombstone[c]

\* The tombstone is there until the cancelled job sees it.
CancelledHasTombstone ==
    \A j \in cancelled \ overruled :
        phase[j] \in {"queued", "waiting"} /\ j \in tombstone[ConversationOf[j]]

CancelInv ==
    /\ TypeOK /\ CreatedInOrder /\ OnlyHeadsRun /\ SendingIsClear
    /\ TombstonesReachBack /\ CancelledHasTombstone

LEMMA CancelInit == Init => CancelInv
<1> SUFFICES ASSUME Init PROVE CancelInv
  OBVIOUS
<1>1. created = {} /\ cancelled = {} /\ (\A j \in Jobs : phase[j] = "queued")
      /\ (\A c \in Conversations : tombstone[c] = {})
  BY DEF Init
<1> QED
  BY <1>1, TypeInit DEF CancelInv, CreatedInOrder, OnlyHeadsRun, SendingIsClear,
     TombstonesReachBack, CancelledHasTombstone

LEMMA TypesOfJobs ==
  ASSUME TypeOK
  PROVE  /\ created \subseteq Jobs /\ cancelled \subseteq created
         /\ Jobs \subseteq Nat
         /\ \A j \in Jobs : ConversationOf[j] \in Conversations
         /\ phase \in [Jobs -> {"queued", "waiting", "sending", "sent", "failed"}]
         /\ stopping \in [Conversations -> SUBSET Contacts]
         /\ tombstone \in [Conversations -> SUBSET Jobs]
<1>1. Jobs = 1 .. Len(ConversationOf) /\ Len(ConversationOf) \in Nat
  BY ConversationJobsAssumption DEF Jobs
<1>2. \A j \in Jobs : ConversationOf[j] \in Conversations
  BY ConversationJobsAssumption DEF Jobs
<1> QED
  BY <1>1, <1>2 DEF TypeOK, Over

\* The oldest job of a conversation is the only one that is not queued.
LEMMA OneHead ==
  ASSUME TypeOK, NEW i \in Jobs, NEW j \in Jobs, IsHead(i), IsHead(j),
         ConversationOf[i] = ConversationOf[j]
  PROVE  i = j
  BY TypesOfJobs DEF IsHead

\* A step keeps a head that it does not finish, if it starts no finished job again.
LEMMA HeadStays ==
  ASSUME TypeOK, NEW j \in Jobs, IsHead(j), UNCHANGED created,
         phase'[j] \notin Over,
         \A i \in created : phase[i] \in Over => phase'[i] \in Over
  PROVE  IsHead(j)'
  BY DEF IsHead

\* Steps that touch neither jobs nor verification
LEMMA CancelKept ==
  ASSUME CancelInv, TypeOK',
         UNCHANGED <<created, phase, stopping, tombstone, cancelled, overruled>>
  PROVE  CancelInv'
  BY DEF CancelInv, CreatedInOrder, OnlyHeadsRun, IsHead, SendingIsClear,
         TombstonesReachBack, CancelledHasTombstone

\* Steps that move one job from `from` to `to` and leave the rest alone
LEMMA CancelMoved ==
  ASSUME CancelInv, TypeOK', NEW j \in Jobs, NEW to \in {"queued", "sent", "failed"},
         phase[j] \in {"waiting", "sending"}, phase' = [phase EXCEPT ![j] = to],
         to = "queued" \/ j \notin cancelled \ overruled,
         UNCHANGED <<created, stopping, tombstone, cancelled, overruled>>
  PROVE  CancelInv'
<1> USE TypesOfJobs DEF CancelInv
<1>1. OnlyHeadsRun'
  <2>1. \A i \in created : phase[i] \in Over => phase'[i] \in Over
    BY DEF Over
  <2>2. \A i \in Jobs : phase'[i] \in {"waiting", "sending"} => phase'[i] = phase[i]
    OBVIOUS
  <2> QED
    BY <2>1, <2>2, HeadStays DEF OnlyHeadsRun, Over
<1>2. SendingIsClear'
  BY DEF SendingIsClear
<1>3. CancelledHasTombstone'
  BY DEF CancelledHasTombstone
<1> QED
  BY <1>1, <1>2, <1>3 DEF CreatedInOrder, TombstonesReachBack

LEMMA CancelCreate ==
  ASSUME CancelInv, TypeOK', NEW j \in Jobs, Create(j)
  PROVE  CancelInv'
<1> USE TypesOfJobs DEF CancelInv, Create, verificationVars
<1>1. CreatedInOrder'
  BY DEF CreatedInOrder
<1>2. OnlyHeadsRun'
  <2> SUFFICES ASSUME NEW i \in Jobs, phase'[i] \in {"waiting", "sending"}
               PROVE  IsHead(i)'
    BY DEF OnlyHeadsRun
  <2>1. IsHead(i) /\ i \in created
    BY DEF OnlyHeadsRun, IsHead
  <2>2. i <= j
    BY <2>1 DEF CreatedInOrder
  <2> QED
    BY <2>1, <2>2 DEF IsHead
<1> QED
  BY <1>1, <1>2 DEF SendingIsClear, TombstonesReachBack, CancelledHasTombstone

LEMMA CancelCheck ==
  ASSUME CancelInv, TypeOK', NEW j \in Jobs, Check(j)
  PROVE  CancelInv'
<1> USE TypesOfJobs DEF CancelInv
<1> DEFINE c == ConversationOf[j]
<1>0. IsHead(j) /\ phase[j] = "queued" /\ c \in Conversations
      /\ UNCHANGED <<created, stopping>>
  BY DEF Check
<1>1. CASE /\ phase' = [phase EXCEPT ![j] = "failed"] /\ UNCHANGED tombstone
           /\ cancelled' = cancelled \ {j} /\ overruled' = overruled \ {j}
  <2>1. OnlyHeadsRun'
    <3>1. \A i \in created : phase[i] \in Over => phase'[i] \in Over
      BY <1>1 DEF Over
    <3>2. \A i \in Jobs : phase'[i] \in {"waiting", "sending"} => phase'[i] = phase[i]
      BY <1>1
    <3> QED
      BY <1>0, <3>1, <3>2, HeadStays DEF OnlyHeadsRun, Over
  <2> QED
    BY <1>0, <1>1, <2>1 DEF CreatedInOrder, SendingIsClear, TombstonesReachBack,
       CancelledHasTombstone
<1>2. CASE /\ phase' = [phase EXCEPT ![j] = "waiting"]
           /\ UNCHANGED <<tombstone, cancelled, overruled>>
  <2>1. OnlyHeadsRun'
    <3>1. \A i \in created : phase[i] \in Over => phase'[i] \in Over
      BY <1>0, <1>2 DEF Over
    <3>2. \A i \in Jobs \ {j} : phase'[i] = phase[i]
      BY <1>2
    <3> QED
      BY <1>0, <1>2, <3>1, <3>2, HeadStays DEF OnlyHeadsRun, Over
  <2> QED
    BY <1>0, <1>2, <2>1 DEF CreatedInOrder, SendingIsClear, TombstonesReachBack,
       CancelledHasTombstone
<1>3. CASE /\ phase' = [phase EXCEPT ![j] = "sending"] /\ stopping[c] = {}
           /\ j \notin tombstone[c] /\ tombstone' = [tombstone EXCEPT ![c] = {}]
           /\ UNCHANGED <<cancelled, overruled>>
  <2>1. OnlyHeadsRun'
    <3>1. \A i \in created : phase[i] \in Over => phase'[i] \in Over
      BY <1>0, <1>3 DEF Over
    <3>2. \A i \in Jobs \ {j} : phase'[i] = phase[i]
      BY <1>3
    <3> QED
      BY <1>0, <1>3, <3>1, <3>2, HeadStays DEF OnlyHeadsRun, Over
  <2>2. CancelledHasTombstone'
    <3> SUFFICES ASSUME NEW i \in cancelled \ overruled
                 PROVE  /\ phase'[i] \in {"queued", "waiting"}
                        /\ i \in tombstone'[ConversationOf[i]]
      BY <1>3 DEF CancelledHasTombstone
    <3>1. phase[i] \in {"queued", "waiting"} /\ i \in tombstone[ConversationOf[i]]
          /\ i \in created /\ i \in Jobs
      BY DEF CancelledHasTombstone
    <3>2. ConversationOf[i] # c
      <4> SUFFICES ASSUME ConversationOf[i] = c PROVE FALSE
        OBVIOUS
      <4>1. j <= i
        BY <1>0, <3>1 DEF IsHead, Over
      <4>2. j \in tombstone[c]
        BY <1>0, <3>1, <4>1 DEF TombstonesReachBack
      <4> QED
        BY <1>3, <4>2
    <3> QED
      BY <1>3, <3>1, <3>2
  <2>3. SendingIsClear'
    BY <1>0, <1>3 DEF SendingIsClear
  <2>4. TombstonesReachBack'
    BY <1>0, <1>3 DEF TombstonesReachBack
  <2> QED
    BY <1>0, <2>1, <2>2, <2>3, <2>4 DEF CreatedInOrder
<1>4. \/ /\ phase' = [phase EXCEPT ![j] = "failed"] /\ UNCHANGED tombstone
         /\ cancelled' = cancelled \ {j} /\ overruled' = overruled \ {j}
      \/ /\ phase' = [phase EXCEPT ![j] = "waiting"]
         /\ UNCHANGED <<tombstone, cancelled, overruled>>
      \/ /\ phase' = [phase EXCEPT ![j] = "sending"] /\ stopping[c] = {}
         /\ j \notin tombstone[c] /\ tombstone' = [tombstone EXCEPT ![c] = {}]
         /\ UNCHANGED <<cancelled, overruled>>
  BY Zenon DEF Check, Fail
<1> QED
  BY <1>1, <1>2, <1>3, <1>4

LEMMA CancelStopped ==
  ASSUME CancelInv, TypeOK', NEW j \in Jobs, SendStopped(j)
  PROVE  CancelInv'
<1> USE TypesOfJobs DEF CancelInv
<1> DEFINE c == ConversationOf[j]
<1>1. /\ phase[j] = "sending" /\ IsHead(j) /\ c \in Conversations
      /\ tombstone[c] = {} /\ tombstone' = tombstone
      /\ UNCHANGED <<created, cancelled, overruled>>
  BY DEF SendStopped, AttemptFails, OnlyHeadsRun, SendingIsClear
<1>2. PICK to \in {"queued", "failed"} : phase' = [phase EXCEPT ![j] = to]
  BY DEF SendStopped, AttemptFails
<1>3. \A d \in Conversations \ {c} : stopping'[d] = stopping[d]
  BY DEF SendStopped
<1>4. OnlyHeadsRun'
  <2>1. \A i \in created : phase[i] \in Over => phase'[i] \in Over
    BY <1>1, <1>2 DEF Over
  <2>2. \A i \in Jobs : phase'[i] \in {"waiting", "sending"} => phase'[i] = phase[i]
    BY <1>2
  <2> QED
    BY <1>1, <2>1, <2>2, HeadStays DEF OnlyHeadsRun, Over
<1>5. SendingIsClear'
  <2> SUFFICES ASSUME NEW i \in Jobs, phase'[i] = "sending"
               PROVE  /\ stopping'[ConversationOf[i]] = {}
                      /\ tombstone'[ConversationOf[i]] = {}
    BY DEF SendingIsClear
  <2>1. i # j /\ phase[i] = "sending"
    BY <1>2
  <2>2. ConversationOf[i] # c
    BY <1>1, <2>1, OneHead DEF OnlyHeadsRun
  <2> QED
    BY <1>1, <1>3, <2>1, <2>2 DEF SendingIsClear
<1>6. CancelledHasTombstone'
  BY <1>1, <1>2 DEF CancelledHasTombstone
<1> QED
  BY <1>1, <1>4, <1>5, <1>6 DEF CreatedInOrder, TombstonesReachBack

\* Resolving waiters only takes jobs back to their queues.
LEMMA HeadsAfterWakeUp ==
  ASSUME CancelInv, NEW S \in SUBSET Conversations, WakeUp(S)
  PROVE  /\ OnlyHeadsRun' /\ UNCHANGED created
         /\ \A i \in Jobs : /\ phase'[i] = "sending" => phase[i] = "sending"
                            /\ phase[i] \in {"queued", "waiting"} =>
                                   phase'[i] \in {"queued", "waiting"}
<1> USE TypesOfJobs DEF CancelInv
<1>1. UNCHANGED created
  BY DEF WakeUp
<1>2. \A i \in Jobs : phase'[i] = phase[i] \/ (phase[i] = "waiting" /\ phase'[i] = "queued")
  BY DEF WakeUp
<1>3. \A i \in created : phase[i] \in Over => phase'[i] \in Over
  BY <1>2 DEF Over
<1>4. \A i \in Jobs : phase'[i] \in {"waiting", "sending"} => phase'[i] = phase[i]
  BY <1>2
<1>5. OnlyHeadsRun'
  BY <1>1, <1>3, <1>4, HeadStays DEF OnlyHeadsRun, Over
<1> QED
  BY <1>1, <1>2, <1>5

LEMMA CancelWokenUp ==
  ASSUME CancelInv, TypeOK', NEW S \in SUBSET Conversations, WakeUp(S),
         UNCHANGED <<stopping, tombstone, cancelled, overruled>>
  PROVE  CancelInv'
<1> USE TypesOfJobs DEF CancelInv
<1>1. CancelledHasTombstone'
  BY HeadsAfterWakeUp DEF CancelledHasTombstone
<1>2. SendingIsClear'
  BY HeadsAfterWakeUp DEF SendingIsClear
<1> QED
  BY <1>1, <1>2, HeadsAfterWakeUp DEF CreatedInOrder, TombstonesReachBack

LEMMA CancelVerify ==
  ASSUME CancelInv, TypeOK', Verify
  PROVE  CancelInv'
<1> USE TypesOfJobs DEF CancelInv
<1>1. /\ UNCHANGED <<created, phase, cancelled>>
      /\ \A c \in Conversations : stopping'[c] = {} /\ tombstone'[c] = {}
  BY DEF Verify, jobVars
<1>2. cancelled' \ overruled' = {}
  <2>1. cancelled \ overruled \subseteq UNION {tombstone[c] : c \in Conversations}
    BY DEF CancelledHasTombstone
  <2> QED
    BY <1>1, <2>1 DEF Verify
<1>3. OnlyHeadsRun'
  BY <1>1 DEF OnlyHeadsRun, IsHead
<1> QED
  BY <1>1, <1>2, <1>3 DEF CreatedInOrder, SendingIsClear, TombstonesReachBack,
     CancelledHasTombstone

LEMMA CancelCancel ==
  ASSUME CancelInv, TypeOK', Cancel
  PROVE  CancelInv'
<1> USE TypesOfJobs DEF CancelInv
<1>1. /\ WakeUp(Stopped) /\ Stopped \in SUBSET Conversations
      /\ \A c \in Conversations : stopping'[c] = {}
      /\ tombstone' = Tombstones
      /\ cancelled' = cancelled \cup Cancellable(Stopped)
      /\ overruled' = overruled \ Cancellable(Stopped)
  BY DEF Cancel, Stopped
<1>2. \A c \in Conversations : tombstone'[c] = IF c \in Stopped THEN JobsOf(c) ELSE {}
  BY <1>1 DEF Tombstones
<1>3. TombstonesReachBack'
  <2>1. \A c \in Conversations : \A j \in JobsOf(c) : \A i \in Jobs :
            ConversationOf[i] = c /\ i < j => i \in JobsOf(c)
    BY DEF JobsOf, CreatedInOrder
  <2> QED
    BY <1>2, <2>1 DEF TombstonesReachBack
<1>4. SendingIsClear'
  <2>1. \A j \in Jobs : phase'[j] = "sending" => ConversationOf[j] \notin Stopped
    BY <1>1, HeadsAfterWakeUp DEF SendingIsClear, Stopped
  <2> QED
    BY <1>1, <1>2, <2>1 DEF SendingIsClear
<1>5. CancelledHasTombstone'
  <2> SUFFICES ASSUME NEW j \in cancelled' \ overruled'
               PROVE  /\ phase'[j] \in {"queued", "waiting"}
                      /\ j \in tombstone'[ConversationOf[j]]
    BY DEF CancelledHasTombstone
  <2>1. j \in Cancellable(Stopped) \/ j \in cancelled \ overruled
    BY <1>1
  <2>2. j \in created /\ j \in Jobs /\ phase[j] \in {"queued", "waiting"}
        /\ ConversationOf[j] \in Stopped
    BY <2>1 DEF Cancellable, CancelledHasTombstone, Stopped
  <2> QED
    BY <1>1, <1>2, <2>2, HeadsAfterWakeUp DEF JobsOf
<1> QED
  BY <1>1, <1>3, <1>4, <1>5, HeadsAfterWakeUp DEF CreatedInOrder

LEMMA CancelRestart ==
  ASSUME CancelInv, TypeOK', CrashAndRestart
  PROVE  CancelInv'
<1> USE TypesOfJobs DEF CancelInv
<1>1. /\ UNCHANGED created /\ cancelled' = {}
      /\ \A j \in Jobs : phase'[j] \notin {"waiting", "sending"}
      /\ \A c \in Conversations : tombstone'[c] = {}
  BY DEF CrashAndRestart, Over
<1> QED
  BY <1>1 DEF CreatedInOrder, OnlyHeadsRun, SendingIsClear, TombstonesReachBack,
     CancelledHasTombstone

LEMMA CancelNext ==
  ASSUME CancelInv, [Next]_vars
  PROVE  CancelInv'
<1>0. TypeOK'
  BY TypeNext DEF CancelInv
<1> USE <1>0, TypesOfJobs
<1>1. ASSUME NEW j \in Jobs, Create(j) PROVE CancelInv'
  BY <1>1, CancelCreate
<1>2. ASSUME NEW j \in Jobs, Check(j) PROVE CancelInv'
  BY <1>2, CancelCheck
<1>3. ASSUME NEW j \in Jobs, WaitTimesOut(j) PROVE CancelInv'
  BY <1>3, CancelMoved DEF WaitTimesOut, verificationVars
<1>4. ASSUME NEW j \in Jobs, SendStopped(j) PROVE CancelInv'
  BY <1>4, CancelStopped
<1>5. ASSUME NEW j \in Jobs, phase[j] = "sending" PROVE j \notin cancelled \ overruled
  BY <1>5 DEF CancelInv, CancelledHasTombstone
<1>6. ASSUME NEW j \in Jobs, Sent(j) PROVE CancelInv'
  BY <1>5, <1>6, CancelMoved DEF Sent, verificationVars
<1>7. ASSUME NEW j \in Jobs, SendFails(j) PROVE CancelInv'
  BY <1>5, <1>7, CancelMoved DEF SendFails, AttemptFails, verificationVars
<1>8. ASSUME NEW j \in Jobs, SendChallenged(j) PROVE CancelInv'
  BY <1>5, <1>8, CancelMoved DEF SendChallenged, AttemptFails, verificationVars
<1>9. ASSUME NEW c \in Conversations, Registered(c) \/ TimerFires(c) PROVE CancelInv'
  BY <1>9, CancelKept DEF Registered, TimerFires, jobVars, verificationVars
<1>10. ASSUME NEW c \in Conversations, StartQueue(c) PROVE CancelInv'
  BY <1>10, CancelWokenUp DEF StartQueue, verificationVars
<1>11. CASE CaptchaSolved \/ ConnectDone
  BY <1>11, CancelKept DEF CaptchaSolved, ConnectDone, jobVars, verificationVars
<1>12. ASSUME NEW success \in BOOLEAN, ChallengeAnswered(success) PROVE CancelInv'
  BY <1>12, CancelKept DEF ChallengeAnswered, jobVars, verificationVars
<1>13. ASSUME NEW p \in Contacts, KeyChange(p) PROVE CancelInv'
  BY <1>13, CancelKept DEF KeyChange, jobVars
<1>14. CASE Verify
  BY <1>14, CancelVerify
<1>15. CASE VerifyDone
  <2>1. verifying.conversations \in SUBSET Conversations
    BY DEF CancelInv, TypeOK
  <2> QED
    BY <1>15, <2>1, CancelWokenUp DEF VerifyDone
<1>16. CASE Cancel
  BY <1>16, CancelCancel
<1>17. CASE Offline \/ Online
  BY <1>17, CancelKept DEF Offline, Online, jobVars, verificationVars
<1>18. CASE CrashAndRestart
  BY <1>18, CancelRestart
<1>19. CASE UNCHANGED vars
  BY <1>19, CancelKept DEF vars, jobVars, verificationVars
<1> QED
  BY <1>1, <1>2, <1>3, <1>4, <1>6, <1>7, <1>8, <1>9, <1>10, <1>11, <1>12, <1>13, <1>14,
     <1>15, <1>16, <1>17, <1>18, <1>19 DEF Next

(* A message the user cancelled is not sent by this process, unless verifying   *)
(* another conversation swept its tombstone away.                               *)
THEOREM CancelledStays == Spec => []CancelledIsNotSent
<1>1. CancelInv => CancelledIsNotSent
  BY DEF CancelInv, CancelledHasTombstone, CancelledIsNotSent
<1> QED
  BY <1>1, CancelInit, CancelNext, PTL DEF Spec

=============================================================================
