------------------------------ MODULE JobQueue ------------------------------
(***************************************************************************)
(* The durable job queues of ts/jobs: JobQueue.add and streamJobs, the     *)
(* JobQueueDatabaseStore between the `jobs` table and an AsyncQueue, and   *)
(* the PQueue of each conversation (InMemoryQueues) that runs the jobs.    *)
(*                                                                         *)
(* Job j is the j-th created: its number is its timestamp.  A queue that   *)
(* does not override getInMemoryQueue runs its jobs in parallel, like jobs *)
(* with one key each.                                                      *)
(***************************************************************************)
EXTENDS Naturals, Sequences

CONSTANTS
    KeyOf,        \* the key of each job's in-memory queue: its conversation
    OwnInsert,    \* jobs whose caller inserts the row, with its message
    Malformed,    \* jobs that parseData rejects
    MaxAttempts,  \* this.maxAttempts
    MaxCrashes,   \* bound: crashes, each followed by a restart
    DbMayFail     \* the SQL channel may reject or time out

ASSUME JobQueueAssumption ==
    /\ KeyOf \in Seq({KeyOf[j] : j \in DOMAIN KeyOf})
    /\ OwnInsert \cup Malformed \subseteq DOMAIN KeyOf
    /\ MaxAttempts \in Nat \ {0}
    /\ MaxCrashes \in Nat
    /\ DbMayFail \in BOOLEAN

Jobs == DOMAIN KeyOf
Keys == {KeyOf[j] : j \in Jobs}
NoJob == 0

VARIABLES
    db,           \* the rows of the jobs table
    sqlQueue,     \* SQL calls sent and not answered: the SQL worker is serial
    created,      \* number of jobs created so far
    adding,       \* where the call of add is
    started,      \* this.started
    fetched,      \* the initialFetchPromise is resolved
    backlog,      \* fetched rows, not yet iterated over
    asyncQueue,   \* the array of the AsyncQueue
    reader,       \* where the loop of streamJobs is
    position,     \* elements of asyncQueue the reader has yielded
    queueFor,     \* InMemoryQueues: the PQueue of a key, named by its first job
    tasks,        \* the tasks of each PQueue: the head one is running
    attempt,      \* which attempt at the running job this is
    deleting,     \* jobs whose row is being deleted, and how they ended
    completion,   \* job.completion
    (* history *)
    inserted,     \* jobs whose row has been inserted
    ran,          \* jobs that a run was started for
    finished,     \* jobs with no more runs to come
    timesQueued,  \* how often this process gave the job to a PQueue
    dropped,      \* jobs an AsyncQueue lost
    addedBefore,  \* for each job, those whose add had returned when it was created
    crashes

storeVars == <<db, sqlQueue>>
addVars == <<created, adding, addedBefore, inserted>>
streamVars == <<started, fetched, backlog, asyncQueue, reader, position, dropped>>
runVars == <<queueFor, tasks, attempt, ran, timesQueued>>
endVars == <<deleting, completion, finished>>
vars == <<storeVars, addVars, streamVars, runVars, endVars, crashes>>

Call(name, j) == [do |-> name, job |-> j]
Outcomes == {"success", "failure", "malformed"}

Init ==
    /\ db = {} /\ sqlQueue = <<>>
    /\ created = 0 /\ adding = [j \in Jobs |-> "no"]
    /\ started = FALSE /\ fetched = FALSE
    /\ backlog = {} /\ asyncQueue = <<>> /\ reader = "off" /\ position = 0
    /\ queueFor = [k \in Keys |-> NoJob]
    /\ tasks = [j \in Jobs |-> <<>>] /\ attempt = [j \in Jobs |-> 0]
    /\ deleting = [j \in Jobs |-> "no"]
    /\ completion = [j \in Jobs |-> "no"]
    /\ inserted = {} /\ ran = {} /\ finished = {}
    /\ timesQueued = [j \in Jobs |-> 0]
    /\ dropped = {} /\ addedBefore = [j \in Jobs |-> {}]
    /\ crashes = 0

-----------------------------------------------------------------------------
(* add *)

CreateUnstarted ==   \* mutant: the `started` check is dropped
    /\ created + 1 \in Jobs
    /\ LET j == created + 1
       IN  /\ created' = j
           /\ addedBefore' = [addedBefore EXCEPT ![j] =
                                 {i \in Jobs : adding[i] = "done"}]
           /\ IF j \in OwnInsert
              THEN /\ sqlQueue' = Append(sqlQueue, Call("insert", j))
                   /\ adding' = [adding EXCEPT ![j] = "inserting"]
              ELSE /\ adding' = [adding EXCEPT ![j] = "awaitFetch"]
                   /\ UNCHANGED sqlQueue
    /\ UNCHANGED <<db, inserted, streamVars, runVars, endVars, crashes>>

\* add up to its first await: the insert of the caller, or the
\* initialFetchPromise in the store.
Create ==
    /\ started
    /\ created + 1 \in Jobs
    /\ LET j == created + 1
       IN  /\ created' = j
           /\ addedBefore' = [addedBefore EXCEPT ![j] =
                                 {i \in Jobs : adding[i] = "done"}]
           /\ IF j \in OwnInsert
              THEN /\ sqlQueue' = Append(sqlQueue, Call("insert", j))
                   /\ adding' = [adding EXCEPT ![j] = "inserting"]
              ELSE /\ adding' = [adding EXCEPT ![j] = "awaitFetch"]
                   /\ UNCHANGED sqlQueue
    /\ UNCHANGED <<db, inserted, streamVars, runVars, endVars, crashes>>

\* SQL calls run one by one and are answered in order: in the renderer, until the
\* first 'empty', by microtasks, then by messages of the main process.
Answered(name, j) ==
    /\ sqlQueue # <<>>
    /\ Head(sqlQueue) = Call(name, j)
    /\ sqlQueue' = Tail(sqlQueue)

InsertDone(j) ==
    /\ Answered("insert", j)
    /\ db' = db \cup {j}
    /\ inserted' = inserted \cup {j}
    /\ adding' = [adding EXCEPT
                     ![j] = IF j \in OwnInsert THEN "awaitFetch" ELSE "queueing"]
    /\ UNCHANGED <<created, addedBefore, streamVars, runVars, endVars, crashes>>

\* add rejects; a timed-out insert has been made all the same.
InsertRejected(j) ==
    /\ DbMayFail
    /\ Answered("insert", j)
    /\ \/ UNCHANGED <<db, inserted>>
       \/ db' = db \cup {j} /\ inserted' = inserted \cup {j}
    /\ adding' = [adding EXCEPT ![j] = "rejected"]
    /\ UNCHANGED <<created, addedBefore, streamVars, runVars, endVars, crashes>>

\* JobQueueDatabaseStore.insert, past the initialFetchPromise
SendInsert(j) ==
    /\ adding[j] = "awaitFetch"
    /\ fetched
    /\ j \notin OwnInsert
    /\ adding' = [adding EXCEPT ![j] = "inserting"]
    /\ sqlQueue' = Append(sqlQueue, Call("insert", j))
    /\ UNCHANGED <<db, created, addedBefore, inserted, streamVars, runVars, endVars,
                   crashes>>

ReadyToQueue(j) ==
    \/ adding[j] = "queueing"
    \/ adding[j] = "awaitFetch" /\ fetched /\ j \in OwnInsert

AddUnnoticed(j) ==   \* mutant: onAdd is not called
    /\ ReadyToQueue(j)
    /\ adding' = [adding EXCEPT ![j] = "done"]
    /\ asyncQueue' = Append(asyncQueue, j)
    /\ UNCHANGED <<storeVars, created, addedBefore, inserted, started, fetched,
                   backlog, reader, position, dropped, runVars, endVars, crashes>>

\* AsyncQueue.add: a reader that waits starts again with the whole array.
AddToAsyncQueue(j) ==
    /\ ReadyToQueue(j)
    /\ adding' = [adding EXCEPT ![j] = "done"]
    /\ asyncQueue' = Append(asyncQueue, j)
    /\ IF reader = "waiting"
       THEN reader' = "reading" /\ position' = 0
       ELSE UNCHANGED <<reader, position>>
    /\ UNCHANGED <<storeVars, created, addedBefore, inserted, started, fetched,
                   backlog, dropped, runVars, endVars, crashes>>

-----------------------------------------------------------------------------
(* streamJobs *)

\* The fetch is sent before anything else runs.
StreamJobs ==
    /\ ~started
    /\ started' = TRUE
    /\ reader' = "fetching"
    /\ sqlQueue' = Append(sqlQueue, Call("getJobsInQueue", NoJob))
    /\ UNCHANGED <<db, addVars, fetched, backlog, asyncQueue, position, dropped,
                   runVars, endVars, crashes>>

FetchDone ==
    /\ Answered("getJobsInQueue", NoJob)
    /\ fetched' = TRUE
    /\ backlog' = db
    /\ reader' = "backlog"
    /\ UNCHANGED <<db, addVars, started, asyncQueue, position, dropped, runVars,
                   endVars, crashes>>

\* streamJobs rejects, and the initialFetchPromise is never resolved.
FetchRejected ==
    /\ DbMayFail
    /\ Answered("getJobsInQueue", NoJob)
    /\ reader' = "dead"
    /\ UNCHANGED <<db, addVars, started, fetched, backlog, asyncQueue, position,
                   dropped, runVars, endVars, crashes>>

\* Delete the row; how the job ended is for its completion.
Delete(j, outcome) ==
    /\ sqlQueue' = Append(sqlQueue, Call("delete", j))
    /\ deleting' = [deleting EXCEPT ![j] = outcome]
    /\ finished' = finished \cup {j}

StartOn(queue, j) ==
    /\ tasks' = [tasks EXCEPT ![queue] = Append(@, j)]
    /\ IF tasks[queue] = <<>>
       THEN ran' = ran \cup {j} /\ attempt' = [attempt EXCEPT ![j] = 1]
       ELSE UNCHANGED <<ran, attempt>>

EnqueueUnshared(j) ==   \* mutant: InMemoryQueues does not keep the PQueue it made
    /\ timesQueued' = [timesQueued EXCEPT ![j] = @ + 1]
    /\ IF j \in Malformed
       THEN Delete(j, "malformed") /\ UNCHANGED <<queueFor, tasks, attempt, ran>>
       ELSE StartOn(j, j) /\ UNCHANGED <<queueFor, sqlQueue, deleting, finished>>
    /\ UNCHANGED <<db, completion>>

\* enqueueStoredJob: InMemoryQueues.get makes the PQueue of a key without one.
Enqueue(j) ==
    /\ timesQueued' = [timesQueued EXCEPT ![j] = @ + 1]
    /\ IF j \in Malformed
       THEN /\ Delete(j, "malformed")
            /\ UNCHANGED <<queueFor, tasks, attempt, ran>>
       ELSE /\ IF queueFor[KeyOf[j]] = NoJob
               THEN /\ queueFor' = [queueFor EXCEPT ![KeyOf[j]] = j]
                    /\ StartOn(j, j)
               ELSE /\ StartOn(queueFor[KeyOf[j]], j)
                    /\ UNCHANGED queueFor
            /\ UNCHANGED <<sqlQueue, deleting, finished>>
    /\ UNCHANGED <<db, completion>>

LatestFirst(j) == \A i \in backlog : i <= j   \* mutant

\* ORDER BY timestamp
NextFetched(j) == \A i \in backlog : j <= i

EnqueueFetched(j) ==
    /\ reader = "backlog"
    /\ j \in backlog
    /\ NextFetched(j)
    /\ Enqueue(j)
    /\ backlog' = backlog \ {j}
    /\ UNCHANGED <<addVars, started, fetched, asyncQueue, reader, position, dropped,
                   crashes>>

EndOfBacklog ==
    /\ reader = "backlog"
    /\ backlog = {}
    /\ reader' = "reading"
    /\ position' = 0
    /\ UNCHANGED <<storeVars, addVars, started, fetched, backlog, asyncQueue,
                   dropped, runVars, endVars, crashes>>

\* yield* of the AsyncQueue's iterator
EnqueueAdded ==
    /\ reader = "reading"
    /\ position < Len(asyncQueue)
    /\ Enqueue(asyncQueue[position + 1])
    /\ position' = position + 1
    /\ UNCHANGED <<addVars, started, fetched, backlog, asyncQueue, reader, dropped,
                   crashes>>

\* The array iterator is done.  yield* in an async generator awaits that answer:
\* the generator goes on two microtasks later, and others may run in between.
Exhausted ==
    /\ reader = "reading"
    /\ position = Len(asyncQueue)
    /\ reader' = "exhausted"
    /\ UNCHANGED <<storeVars, addVars, started, fetched, backlog, asyncQueue,
                   position, dropped, runVars, endVars, crashes>>

EmptyWithoutRewind ==   \* mutant: an index kept across arrays
    /\ reader = "exhausted"
    /\ asyncQueue' = <<>>
    /\ reader' = "waiting"
    /\ UNCHANGED <<storeVars, addVars, started, fetched, backlog, position, dropped,
                   runVars, endVars, crashes>>

\* this.queue = [], and wait for onAdd
EmptyAsyncQueue ==
    /\ reader = "exhausted"
    /\ dropped' = dropped \cup
          {asyncQueue[i] : i \in (position + 1) .. Len(asyncQueue)}
    /\ asyncQueue' = <<>>
    /\ position' = 0
    /\ reader' = "waiting"
    /\ UNCHANGED <<storeVars, addVars, started, fetched, backlog, runVars, endVars,
                   crashes>>

-----------------------------------------------------------------------------
(* Running a job *)

Running == {Head(tasks[q]) : q \in {p \in Jobs : tasks[p] # <<>>}}

\* On 'idle' InMemoryQueues forgets the PQueue.
ForgetIfIdle(q) ==
    queueFor' = [k \in Keys |->
                    IF queueFor[k] = q /\ Len(tasks[q]) = 1 THEN NoJob
                    ELSE queueFor[k]]

\* The task of job j, the first of PQueue q, returns; the next one starts.
EndTask(q, outcome) ==
    LET j == Head(tasks[q])
        rest == Tail(tasks[q])
    IN  /\ tasks' = [tasks EXCEPT ![q] = rest]
        /\ ForgetIfIdle(q)
        /\ Delete(j, outcome)
        /\ IF rest = <<>>
           THEN attempt' = [attempt EXCEPT ![j] = 0] /\ UNCHANGED ran
           ELSE /\ attempt' = [attempt EXCEPT ![j] = 0, ![Head(rest)] = 1]
                /\ ran' = ran \cup {Head(rest)}

RunSucceeds(q) ==
    /\ tasks[q] # <<>>
    /\ EndTask(q, "success")
    /\ UNCHANGED <<db, addVars, streamVars, timesQueued, completion, crashes>>

DeletedOnFailure(q) ==   \* mutant: the row is not kept for the retry
    /\ tasks[q] # <<>>
    /\ attempt[Head(tasks[q])] < MaxAttempts
    /\ attempt' = [attempt EXCEPT ![Head(tasks[q])] = @ + 1]
    /\ sqlQueue' = Append(sqlQueue, Call("delete", Head(tasks[q])))
    /\ UNCHANGED <<db, addVars, streamVars, queueFor, tasks, ran, timesQueued,
                   endVars, crashes>>

RunFails(q) ==
    /\ tasks[q] # <<>>
    /\ attempt[Head(tasks[q])] < MaxAttempts
    /\ attempt' = [attempt EXCEPT ![Head(tasks[q])] = @ + 1]
    /\ UNCHANGED <<storeVars, addVars, streamVars, queueFor, tasks, ran, timesQueued,
                   endVars, crashes>>

LastRunFails(q) ==
    /\ tasks[q] # <<>>
    /\ attempt[Head(tasks[q])] = MaxAttempts
    /\ EndTask(q, "failure")
    /\ UNCHANGED <<db, addVars, streamVars, timesQueued, completion, crashes>>

\* Then job.completion is settled.
DeleteDone(j) ==
    /\ Answered("delete", j)
    /\ db' = db \ {j}
    /\ completion' = [completion EXCEPT
                         ![j] = IF deleting[j] = "success" THEN "resolved"
                                ELSE "rejected"]
    /\ deleting' = [deleting EXCEPT ![j] = "no"]
    /\ UNCHANGED <<addVars, streamVars, runVars, finished, crashes>>

SettledAnyway(j) ==   \* mutant: the completion is settled in a finally block
    /\ DbMayFail
    /\ Answered("delete", j)
    /\ db' \in {db, db \ {j}}
    /\ completion' = [completion EXCEPT ![j] = "rejected"]
    /\ deleting' = [deleting EXCEPT ![j] = "no"]
    /\ UNCHANGED <<addVars, streamVars, runVars, finished, crashes>>

\* enqueueStoredJob rejects, and nobody listens: the completion never settles.
DeleteRejected(j) ==
    /\ DbMayFail
    /\ Answered("delete", j)
    /\ db' \in {db, db \ {j}}
    /\ deleting' = [deleting EXCEPT ![j] = "no"]
    /\ UNCHANGED <<addVars, streamVars, runVars, completion, finished, crashes>>

-----------------------------------------------------------------------------
Crash ==
    /\ crashes < MaxCrashes
    /\ crashes' = crashes + 1
    /\ sqlQueue' = <<>>
    /\ adding' = [j \in Jobs |-> IF adding[j] \in {"no", "done"} THEN adding[j]
                                 ELSE "rejected"]
    /\ started' = FALSE /\ fetched' = FALSE
    /\ backlog' = {} /\ asyncQueue' = <<>> /\ reader' = "off" /\ position' = 0
    /\ queueFor' = [k \in Keys |-> NoJob]
    /\ tasks' = [j \in Jobs |-> <<>>] /\ attempt' = [j \in Jobs |-> 0]
    /\ deleting' = [j \in Jobs |-> "no"]
    /\ completion' = [j \in Jobs |-> "no"]
    /\ timesQueued' = [j \in Jobs |-> 0]
    /\ UNCHANGED <<db, created, addedBefore, inserted, ran, finished, dropped>>

Progress(j) ==
    \/ InsertDone(j)
    \/ SendInsert(j)
    \/ AddToAsyncQueue(j)
    \/ DeleteDone(j)

StreamProgress ==
    \/ FetchDone
    \/ \E j \in Jobs : EnqueueFetched(j)
    \/ EndOfBacklog
    \/ EnqueueAdded
    \/ Exhausted
    \/ EmptyAsyncQueue

RunProgress(q) ==
    \/ RunSucceeds(q)
    \/ RunFails(q)
    \/ LastRunFails(q)

Next ==
    \/ StreamJobs
    \/ Create
    \/ StreamProgress
    \/ FetchRejected
    \/ \E j \in Jobs : Progress(j) \/ RunProgress(j)
    \/ \E j \in Jobs : InsertRejected(j) \/ DeleteRejected(j)
    \/ Crash

Spec == Init /\ [][Next]_vars

\* The queues are started when the database is ready; promises settle, and so
\* does each run: MAX_RETRY_TIME bounds its waits.
Fairness ==
    /\ WF_vars(StreamJobs)
    /\ WF_vars(StreamProgress)
    /\ \A j \in Jobs : WF_vars(Progress(j)) /\ WF_vars(RunProgress(j))

FairSpec == Spec /\ Fairness

-----------------------------------------------------------------------------
(* Properties *)

TypeOK ==
    /\ db \subseteq Jobs
    /\ sqlQueue \in Seq([do : {"insert", "delete"}, job : Jobs]
                          \cup {Call("getJobsInQueue", NoJob)})
    /\ created \in {0} \cup Jobs
    /\ adding \in [Jobs -> {"no", "awaitFetch", "inserting", "queueing", "done",
                            "rejected"}]
    /\ {started, fetched} \subseteq BOOLEAN
    /\ backlog \subseteq Jobs /\ asyncQueue \in Seq(Jobs)
    /\ reader \in {"off", "fetching", "dead", "backlog", "reading", "exhausted",
                   "waiting"}
    /\ position \in 0 .. Len(asyncQueue)
    /\ queueFor \in [Keys -> Jobs \cup {NoJob}]
    /\ tasks \in [Jobs -> Seq(Jobs)]
    /\ attempt \in [Jobs -> 0 .. MaxAttempts]
    /\ \A j \in Running : attempt[j] > 0
    /\ deleting \in [Jobs -> Outcomes \cup {"no"}]
    /\ completion \in [Jobs -> {"no", "resolved", "rejected"}]

\* The jobs of one conversation run one at a time, though InMemoryQueues makes
\* a new PQueue for it each time the last one was idle.
OneAtATime ==
    \A i, j \in Running : KeyOf[i] = KeyOf[j] => i = j

\* No process queues a job twice: the rows fetched at the start and the jobs
\* added since do not overlap, whoever inserts the row.
QueuedOnce == \A j \in Jobs : timesQueued[j] <= 1

\* "If it resolves, the job will be deleted from the store. If it rejects, the
\* job will be retried [...], after which it will be deleted" (JobQueue.run): a
\* row inserted is kept until no run is to come, through every crash.
KeptUntilFinished == inserted \ finished \subseteq db

\* "resolves job.completion AFTER deleting the job from the database"
\* (JobQueue_test): a settled completion is of a job that no restart runs again.
SettledIsGone == \A j \in Jobs : completion[j] # "no" => j \notin db

\* The jobs of a conversation start in the order they were added in, over
\* restarts too, unless the AsyncQueue dropped one: a message is not sent before
\* one whose add had returned when it was created.
StartedInOrder ==
    \A j \in ran :
        \A i \in addedBefore[j] :
            KeyOf[i] = KeyOf[j] => i \in ran \cup finished \cup dropped

\* A job whose add has returned ends, in this process or the next, unless the
\* AsyncQueue dropped it or the database failed.
AddedIsFinished ==
    \A j \in Jobs :
        adding[j] = "done" ~> j \in finished \cup dropped \/ reader = "dead"

=============================================================================
