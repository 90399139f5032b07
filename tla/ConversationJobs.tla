-------------------------- MODULE ConversationJobs --------------------------
(***************************************************************************)
(* When a job of the conversation job queue may send: run of               *)
(* ts/jobs/conversationJobQueue.ts with its verification waiters, the      *)
(* ChallengeHandler of ts/challenge.ts that registers conversations whose  *)
(* sends the server answers with 428, and the verification data that the   *)
(* safety number dialog clears or turns into tombstones.                   *)
(*                                                                         *)
(* What sends of a job do to its message is in SendStates; how a job gets  *)
(* to its queue, and back after a crash, in JobQueue.                      *)
(***************************************************************************)
EXTENDS Naturals, Sequences

CONSTANTS
    Conversations,
    Contacts,
    Members,         \* the contacts of each conversation
    Groups,          \* conversations with several recipients
    ConversationOf,  \* the conversation of each job, in the order of creation
    MaxAttempts,     \* MAX_ATTEMPTS
    MaxTroubles      \* bound: answers with status 428, safety numbers that change,
                     \* 'offline' events and crashes, together

ASSUME ConversationJobsAssumption ==
    /\ Members \in [Conversations -> SUBSET Contacts]
    /\ Groups \subseteq Conversations
    /\ ConversationOf \in Seq(Conversations)
    /\ MaxAttempts \in Nat \ {0} /\ MaxTroubles \in Nat

Jobs == DOMAIN ConversationOf

VARIABLES
    (* jobs *)
    created,       \* jobs added so far
    phase,         \* where run is with the job
    attempt,       \* of a job that is not over
    waiters,       \* verificationWaitMap: a waiting job waits for the one here
    (* ChallengeHandler *)
    registered,    \* registeredConversations
    hasRetry,      \* those with a retryAt
    hasToken,      \* those with a token
    registering,   \* register is between its persist and the rest
    starting,      \* startQueue is between unregister's persist and the rest
    startTimers,
    pendingStarts,
    isOnline,
    asked,         \* calls of solve that wait for the captcha
    answering,     \* calls of solve that wait for the server
    challengeToken,\* it is defined
    (* verification *)
    untrusted,     \* contacts whose new safety number is not approved
    stopping,      \* conversations pending verification: uuidsNeedingVerification
    tombstone,     \* cancelled ones: the jobs that canceledAt is not before
    verifying,     \* verifyConversationsStoppingSend awaits its approvals
    (* network *)
    network,       \* navigator.onLine
    connecting,
    (* history *)
    cancelled,     \* jobs the user cancelled in this process, until they fail
    overruled,     \* ... whose tombstone a later verification swept away
    blipped,       \* an outage ended without a reconnection
    troubles

jobVars == <<created, phase, attempt, waiters>>
challengeVars == <<registered, hasRetry, hasToken, registering, starting,
                   startTimers, pendingStarts, isOnline, asked, answering,
                   challengeToken>>
verificationVars == <<untrusted, stopping, tombstone, verifying, cancelled, overruled>>
networkVars == <<network, connecting, blipped>>
bounds == <<troubles>>
vars == <<jobVars, challengeVars, verificationVars, networkVars, bounds>>

Over == {"sent", "failed"}
Nobody == [contacts |-> {}, conversations |-> {}]

Init ==
    /\ created = {} /\ phase = [j \in Jobs |-> "queued"]
    /\ attempt = [j \in Jobs |-> 1] /\ waiters = {}
    /\ registered = {} /\ hasRetry = {} /\ hasToken = {}
    /\ registering = {} /\ starting = {}
    /\ startTimers = {} /\ pendingStarts = {}
    /\ isOnline = FALSE /\ asked = 0 /\ answering = 0 /\ challengeToken = FALSE
    /\ untrusted = {} /\ verifying = Nobody
    /\ stopping = [c \in Conversations |-> {}]
    /\ tombstone = [c \in Conversations |-> {}]
    /\ cancelled = {} /\ overruled = {}
    /\ network = TRUE /\ connecting = TRUE
    /\ blipped = FALSE
    /\ troubles = 0

-----------------------------------------------------------------------------
(* Verification waiters *)

WakeNobody(S) ==   \* mutant: the waiter leaves the map unresolved
    /\ waiters' = waiters \ S
    /\ UNCHANGED <<created, phase, attempt>>

\* resolveVerificationWaiter for each of S
WakeUp(S) ==
    /\ waiters' = waiters \ S
    /\ phase' = [j \in Jobs |-> IF phase[j] = "waiting" /\ ConversationOf[j] \in S
                                THEN "queued" ELSE phase[j]]
    /\ UNCHANGED <<created, attempt>>

-----------------------------------------------------------------------------
(* ChallengeHandler *)

solve ==
    /\ asked' = asked + 1
    /\ challengeToken' = TRUE
    /\ UNCHANGED answering

\* startQueue for each of S, up to the persist of unregister
StartQueues(S) ==
    IF isOnline'
    THEN /\ registered' = registered \ S
         /\ startTimers' = startTimers \ S
         /\ starting' = starting \cup S
         /\ pendingStarts' = pendingStarts \ S
    ELSE /\ pendingStarts' = pendingStarts \cup S
         /\ UNCHANGED <<registered, startTimers, starting>>

\* The rest of startQueue: unregistered, and the table says so.
StartQueue(c) ==
    /\ c \in starting
    /\ starting' = starting \ {c}
    /\ hasRetry' = IF c \in registered THEN hasRetry ELSE hasRetry \ {c}
    /\ hasToken' = IF c \in registered THEN hasToken ELSE hasToken \ {c}
    /\ WakeUp({c})
    /\ UNCHANGED <<registered, registering, startTimers, pendingStarts, isOnline,
                   asked, answering, challengeToken, verificationVars, networkVars,
                   bounds>>

\* register, up to its persist
Register(c, retry, token) ==
    IF c \in registered
    THEN UNCHANGED challengeVars
    ELSE /\ registered' = registered \cup {c}
         /\ hasRetry' = IF retry THEN hasRetry \cup {c} ELSE hasRetry \ {c}
         /\ hasToken' = IF token THEN hasToken \cup {c} ELSE hasToken \ {c}
         /\ registering' = registering \cup {c}
         /\ UNCHANGED <<starting, startTimers, pendingStarts, isOnline, asked,
                        answering, challengeToken>>

NeedsTimerUnlessToken(c) == c \in hasRetry \ hasToken   \* mutant: the captcha will do
NeedsTimer(c) == c \in hasRetry

\* The rest of register.  It does not look again: another call may have started
\* the conversation meanwhile.
Registered(c) ==
    /\ c \in registering
    /\ registering' = registering \ {c}
    /\ UNCHANGED isOnline
    /\ \/ /\ c \in hasRetry   \* retryAt has passed
          /\ StartQueues({c})
          /\ UNCHANGED <<asked, challengeToken, answering>>
       \/ /\ startTimers' = IF NeedsTimer(c) THEN startTimers \cup {c} ELSE startTimers
          /\ UNCHANGED <<registered, starting, pendingStarts>>
          /\ IF c \in hasToken THEN solve
             ELSE UNCHANGED <<asked, challengeToken, answering>>
    /\ UNCHANGED <<hasRetry, hasToken, jobVars, verificationVars, networkVars, bounds>>

TimerFires(c) ==
    /\ c \in startTimers
    /\ UNCHANGED isOnline
    /\ IF isOnline THEN StartQueues({c})
       ELSE /\ startTimers' = startTimers \ {c}
            /\ pendingStarts' = pendingStarts \cup {c}
            /\ UNCHANGED <<registered, starting>>
    /\ UNCHANGED <<hasRetry, hasToken, registering, asked, answering, challengeToken,
                   jobVars, verificationVars, networkVars, bounds>>

\* The user solves the captcha of one call: the first to come takes the token.
CaptchaSolved ==
    /\ asked > 0
    /\ asked' = asked - 1
    /\ answering' = IF challengeToken THEN answering + 1 ELSE answering
    /\ challengeToken' = FALSE
    /\ UNCHANGED <<registered, hasRetry, hasToken, registering, starting, startTimers,
                   pendingStarts, isOnline, jobVars, verificationVars, networkVars,
                   bounds>>

\* sendChallengeResponse; statuses 413 and 429 count as success.
ChallengeAnswered(success) ==
    /\ answering > 0
    /\ answering' = answering - 1
    /\ UNCHANGED <<isOnline, asked, challengeToken>>
    /\ StartQueues(IF success THEN registered ELSE {})
    /\ UNCHANGED <<hasRetry, hasToken, registering, jobVars, verificationVars,
                   networkVars, bounds>>

-----------------------------------------------------------------------------
(* The network: onOffline, onOnline and connect of background.ts *)

Offline ==
    /\ network /\ troubles < MaxTroubles
    /\ network' = FALSE /\ isOnline' = FALSE
    /\ troubles' = troubles + 1
    /\ UNCHANGED <<registered, hasRetry, hasToken, registering, starting, startTimers,
                   pendingStarts, asked, answering, challengeToken, connecting, blipped,
                   jobVars, verificationVars>>

\* Within a second, before disconnectTimer closes the socket, it may still be
\* open: then nothing reconnects.
Online ==
    /\ ~network
    /\ network' = TRUE
    /\ \/ connecting' = TRUE /\ UNCHANGED blipped
       \/ blipped' = TRUE /\ UNCHANGED connecting
    /\ UNCHANGED <<jobVars, challengeVars, verificationVars, bounds>>

onOnlineMatured(matured) ==   \* mutant: clears the pending starts first, then reads them
    /\ isOnline' = TRUE
    /\ registered' = registered \ matured
    /\ startTimers' = startTimers \ matured
    /\ starting' = starting \cup matured
    /\ pendingStarts' = {}

\* onOnline starts what matured while offline, then what has matured by now.
onOnline(matured) ==
    /\ isOnline' = TRUE
    /\ registered' = registered \ (pendingStarts \cup matured)
    /\ startTimers' = startTimers \ (pendingStarts \cup matured)
    /\ starting' = starting \cup pendingStarts \cup matured
    /\ pendingStarts' = {}

\* The end of connect
ConnectDone ==
    /\ connecting
    /\ connecting' = FALSE /\ blipped' = FALSE
    /\ \E matured \in SUBSET (registered \cap hasRetry) : onOnline(matured)
    /\ UNCHANGED <<hasRetry, hasToken, registering, asked, answering, challengeToken,
                   network, jobVars, verificationVars, bounds>>

-----------------------------------------------------------------------------
(* Jobs *)

IsHead(j) ==
    /\ j \in created /\ phase[j] \notin Over
    /\ \A i \in created :
         ConversationOf[i] = ConversationOf[j] /\ phase[i] \notin Over => j <= i

\* add: maybeSolve, then the insert
Create(j) ==
    LET c == ConversationOf[j] IN
    /\ j \notin created
    /\ \A i \in Jobs : i < j => i \in created
    /\ created' = created \cup {j}
    /\ IF c \in registered /\ asked + answering = 0 /\ c \in hasToken
       THEN solve ELSE UNCHANGED <<asked, challengeToken, answering>>
    /\ UNCHANGED <<phase, attempt, waiters, registered, hasRetry, hasToken, registering,
                   starting, startTimers, pendingStarts, isOnline, verificationVars,
                   networkVars, bounds>>

\* The handler marks the message as failed, and the job ends.
Fail(j) ==
    /\ phase' = [phase EXCEPT ![j] = "failed"]
    /\ attempt' = [attempt EXCEPT ![j] = 1]
    /\ cancelled' = cancelled \ {j} /\ overruled' = overruled \ {j}

\* One turn of the loop in run, up to its await or its break.  A cancelled job,
\* and one whose time is up, is given to its handler to mark as failed.
Check(j) ==
    LET c == ConversationOf[j] IN
    /\ IsHead(j) /\ phase[j] = "queued"
    /\ \/ Fail(j)   \* out of time
          /\ UNCHANGED <<waiters, tombstone>>
       \/ /\ network
          /\ c \in registered \/ stopping[c] # {}
          /\ waiters' = waiters \cup {c}
          /\ phase' = [phase EXCEPT ![j] = "waiting"]
          /\ UNCHANGED <<attempt, tombstone, cancelled, overruled>>
       \/ /\ network
          /\ c \notin registered /\ stopping[c] = {}
          /\ IF j \in tombstone[c]
             THEN Fail(j) /\ UNCHANGED tombstone
             ELSE /\ phase' = [phase EXCEPT ![j] = "sending"]
                  /\ UNCHANGED <<attempt, cancelled, overruled>>
                  /\ tombstone' = [tombstone EXCEPT ![c] = {}]
          /\ UNCHANGED waiters
    /\ UNCHANGED <<created, challengeVars, untrusted, stopping, verifying, networkVars,
                   bounds>>

\* Five minutes; the waiter stays in the map.
WaitTimesOut(j) ==
    /\ phase[j] = "waiting"
    /\ phase' = [phase EXCEPT ![j] = "queued"]
    /\ UNCHANGED <<created, attempt, waiters, challengeVars, verificationVars,
                   networkVars, bounds>>

MayRetryOnceMore(j) == attempt[j] <= MaxAttempts   \* mutant: off by one
MayRetry(j) == attempt[j] < MaxAttempts

\* run throws: the queue tries the job again, after its backoff.
AttemptFails(j) ==
    /\ phase' = [phase EXCEPT ![j] = IF MayRetry(j) THEN "queued" ELSE "failed"]
    /\ attempt' = [attempt EXCEPT ![j] = IF MayRetry(j) THEN @ + 1 ELSE 1]
    /\ UNCHANGED <<created, waiters>>

Untrusted(c) == Members[c] \cap untrusted

\* The server answers 428.  A register of the conversation has persisted by then.
Challenged(c) ==
    /\ troubles < MaxTroubles /\ c \notin registering
    /\ troubles' = troubles + 1
    /\ \E retry, token \in BOOLEAN : Register(c, retry, token)

\* conversationStoppedByMissingVerification replaces a tombstone.  The send to
\* another recipient of a group may be challenged as well.
SendStopped(j) ==
    LET c == ConversationOf[j] IN
    /\ phase[j] = "sending" /\ Untrusted(c) # {}
    /\ (c \in Groups /\ Challenged(c)) \/ UNCHANGED <<challengeVars, bounds>>
    /\ stopping' = [stopping EXCEPT ![c] = @ \cup Untrusted(c)]
    /\ tombstone' = [tombstone EXCEPT ![c] = {}]
    /\ AttemptFails(j)
    /\ UNCHANGED <<untrusted, verifying, cancelled, overruled, networkVars>>

Sent(j) ==
    /\ phase[j] = "sending" /\ Untrusted(ConversationOf[j]) = {}
    /\ phase' = [phase EXCEPT ![j] = "sent"]
    /\ attempt' = [attempt EXCEPT ![j] = 1]
    /\ UNCHANGED <<created, waiters, challengeVars, verificationVars,
                   networkVars, bounds>>

SendFails(j) ==
    /\ phase[j] = "sending" /\ Untrusted(ConversationOf[j]) = {}
    /\ AttemptFails(j)
    /\ UNCHANGED <<challengeVars, verificationVars, networkVars, bounds>>

SendChallenged(j) ==
    /\ phase[j] = "sending" /\ Untrusted(ConversationOf[j]) = {}
    /\ Challenged(ConversationOf[j])
    /\ AttemptFails(j)
    /\ UNCHANGED <<verificationVars, networkVars>>

-----------------------------------------------------------------------------
(* Verification *)

KeyChange(p) ==
    /\ troubles < MaxTroubles
    /\ troubles' = troubles + 1
    /\ untrusted' = untrusted \cup {p}
    /\ UNCHANGED <<stopping, tombstone, verifying, cancelled, overruled, jobVars,
                   challengeVars, networkVars>>

\* getConversationIdsStoppedForVerification: tombstones included
Stopped == {c \in Conversations : stopping[c] # {} \/ tombstone[c] # {}}

\* The dialog is open while a conversation is pending.
DialogIsOpen == \E c \in Conversations : stopping[c] # {}

\* verifyConversationsStoppingSend, up to its await: the data is cleared first.
Verify ==
    /\ DialogIsOpen /\ verifying = Nobody
    /\ verifying' = [contacts |-> UNION {stopping[c] : c \in Conversations},
                     conversations |-> Stopped]
    /\ stopping' = [c \in Conversations |-> {}]
    /\ tombstone' = [c \in Conversations |-> {}]
    /\ overruled' = overruled \cup (cancelled \cap UNION {tombstone[c] : c \in Conversations})
    /\ UNCHANGED <<untrusted, cancelled, jobVars, challengeVars, networkVars, bounds>>

VerifyDone ==
    /\ verifying # Nobody
    /\ untrusted' = untrusted \ verifying.contacts
    /\ WakeUp(verifying.conversations)
    /\ verifying' = Nobody
    /\ UNCHANGED <<stopping, tombstone, cancelled, overruled, challengeVars, networkVars,
                   bounds>>

\* The jobs that Cancel is about: created, and not past their check.
Cancellable(S) ==
    {j \in created : ConversationOf[j] \in S /\ phase[j] \in {"queued", "waiting"}}

JobsOf(c) == {j \in created : ConversationOf[j] = c}

TombstonesOfPending ==   \* mutant: drops the tombstones that are there
    [c \in Conversations |-> IF stopping[c] # {} THEN JobsOf(c) ELSE {}]

\* The reducer renews the tombstones that are there.
Tombstones == [c \in Conversations |-> IF c \in Stopped THEN JobsOf(c) ELSE {}]

\* cancelConversationVerification
Cancel ==
    /\ DialogIsOpen
    /\ stopping' = [c \in Conversations |-> {}]
    /\ tombstone' = Tombstones
    /\ WakeUp(Stopped)
    /\ cancelled' = cancelled \cup Cancellable(Stopped)
    /\ overruled' = overruled \ Cancellable(Stopped)
    /\ UNCHANGED <<untrusted, verifying, challengeVars, networkVars, bounds>>

-----------------------------------------------------------------------------
(* The process ends and starts again.  The jobs are in the database; of the
   challenges, those that were written and have not expired are loaded. *)

CrashAndRestart ==
    /\ troubles < MaxTroubles
    /\ troubles' = troubles + 1
    /\ registered' \in SUBSET (registered \cup starting)
    /\ registering' = registered'
    /\ starting' = {} /\ startTimers' = {} /\ pendingStarts' = {}
    /\ isOnline' = FALSE /\ asked' = 0 /\ answering' = 0 /\ challengeToken' = FALSE
    /\ phase' = [j \in Jobs |-> IF phase[j] \in Over THEN phase[j] ELSE "queued"]
    /\ attempt' = [j \in Jobs |-> 1] /\ waiters' = {}
    /\ stopping' = [c \in Conversations |-> {}]
    /\ tombstone' = [c \in Conversations |-> {}]
    /\ verifying' = Nobody /\ cancelled' = {} /\ overruled' = {}
    /\ connecting' = network /\ blipped' = FALSE
    /\ UNCHANGED <<created, hasRetry, hasToken, untrusted, network>>

-----------------------------------------------------------------------------
Next ==
    \/ \E j \in Jobs : \/ Create(j) \/ Check(j) \/ WaitTimesOut(j) \/ SendStopped(j)
                       \/ Sent(j) \/ SendFails(j) \/ SendChallenged(j)
    \/ \E c \in Conversations : Registered(c) \/ StartQueue(c) \/ TimerFires(c)
    \/ CaptchaSolved
    \/ \E success \in BOOLEAN : ChallengeAnswered(success)
    \/ \E p \in Contacts : KeyChange(p)
    \/ Verify \/ VerifyDone \/ Cancel
    \/ Offline \/ Online \/ ConnectDone
    \/ CrashAndRestart

Spec == Init /\ [][Next]_vars

\* Writes to storage end, timers fire and a connection that is being made is
\* made.  Nothing is assumed of the user, the server's answers or the network.
HandlerStep ==
    \/ \E c \in Conversations : Registered(c) \/ StartQueue(c) \/ TimerFires(c)
    \/ ConnectDone

FairSpec == Spec /\ WF_vars(HandlerStep)

-----------------------------------------------------------------------------
(* Properties *)

(* The types of the variables. *)
TypeOK ==
    /\ created \subseteq Jobs
    /\ phase \in [Jobs -> {"queued", "waiting", "sending"} \cup Over]
    /\ attempt \in [Jobs -> 1..MaxAttempts]
    /\ waiters \subseteq Conversations
    /\ registered \subseteq Conversations /\ hasRetry \subseteq Conversations
    /\ hasToken \subseteq Conversations
    /\ registering \subseteq Conversations /\ starting \subseteq Conversations
    /\ startTimers \subseteq Conversations /\ pendingStarts \subseteq Conversations
    /\ isOnline \in BOOLEAN /\ challengeToken \in BOOLEAN
    /\ asked \in Nat /\ answering \in Nat
    /\ untrusted \subseteq Contacts
    /\ stopping \in [Conversations -> SUBSET Contacts]
    /\ tombstone \in [Conversations -> SUBSET Jobs]
    /\ verifying \in [contacts : SUBSET Contacts, conversations : SUBSET Conversations]
    /\ network \in BOOLEAN /\ connecting \in BOOLEAN
    /\ cancelled \subseteq created /\ overruled \subseteq created /\ blipped \in BOOLEAN
    /\ troubles \in 0..MaxTroubles

(* A job that waits has a waiter in the map, and somebody will resolve it: the  *)
(* challenge that stopped it, or the answer to the dialog.  Only the five       *)
(* minutes would get it out otherwise.                                          *)
NoOneWaitsInVain ==
    \A j \in Jobs : phase[j] = "waiting" =>
        LET c == ConversationOf[j] IN
        /\ c \in waiters
        /\ \/ c \in registered \cup starting
           \/ stopping[c] # {}
           \/ c \in verifying.conversations

(* A job that was there when the user cancelled the verification of its         *)
(* conversation, and had not passed its check, is not sent by this process.     *)
(* Exempt are the jobs whose tombstone the verification of another conversation *)
(* swept away before they saw it (state/ducks/conversations.ts:2153).           *)
CancelledIsNotSent == \A j \in cancelled \ overruled : phase[j] \notin {"sending", "sent"}

(* A registered conversation with a time to retry is never forgotten: register  *)
(* is still about it, its timer runs, or it starts with the next connection.    *)
RegisteredIsTended ==
    registered \cap hasRetry \subseteq registering \cup startTimers \cup pendingStarts

(* ... and it is started in the end, unless the network is away, or came back   *)
(* so soon that nothing tells the handler (background.ts:1937).                 *)
ChallengeIsStarted ==
    \A c \in Conversations :
        c \in registered \cap hasRetry ~> c \notin registered \/ ~network \/ blipped

=============================================================================
