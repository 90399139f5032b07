--------------------------- MODULE JobQueueProofs ---------------------------
(***************************************************************************)
(* Theorems about JobQueue, for any number of jobs and conversations: no   *)
(* process queues a job twice, jobs of a conversation run one at a time,   *)
(* a row stays in the table until no run of it is to come, and jobs start  *)
(* in the order they were added in.                                        *)
(***************************************************************************)
EXTENDS JobQueue, TLAPS

-----------------------------------------------------------------------------
(* Sequences as sets *)

Members(s) == {s[i] : i \in 1 .. Len(s)}
\* the members after the first n
Rest(s, n) == {s[i] : i \in (n + 1) .. Len(s)}
Distinct(s) == \A i, k \in 1 .. Len(s) : s[i] = s[k] => i = k

LEMMA EmptyMembers == Members(<<>>) = {} /\ Distinct(<<>>)
  BY DEF Members, Distinct

LEMMA AppendMembers ==
  ASSUME NEW S, NEW s \in Seq(S), NEW x \in S
  PROVE  /\ Append(s, x) \in Seq(S) /\ Append(s, x) # <<>>
         /\ Len(Append(s, x)) = Len(s) + 1
         /\ Members(Append(s, x)) = Members(s) \cup {x}
         /\ Head(Append(s, x)) = IF s = <<>> THEN x ELSE Head(s)
         /\ Distinct(s) /\ x \notin Members(s) => Distinct(Append(s, x))
         /\ \A n \in 0 .. Len(s) : Rest(Append(s, x), n) = Rest(s, n) \cup {x}
<1> DEFINE t == Append(s, x)
<1>1. /\ t \in Seq(S) /\ Len(t) = Len(s) + 1 /\ Len(s) \in Nat
      /\ \A i \in 1 .. Len(s) : t[i] = s[i]
      /\ t[Len(s) + 1] = x
  OBVIOUS
<1>2. t # <<>> /\ Head(t) = t[1]
  OBVIOUS
<1>3. Head(t) = IF s = <<>> THEN x ELSE Head(s)
  <2>1. CASE s = <<>>
    BY <1>1, <1>2, <2>1
  <2>2. CASE s # <<>>
    <3>1. Head(s) = s[1] /\ 1 \in 1 .. Len(s)
      BY <2>2
    <3> QED
      BY <1>1, <1>2, <2>2, <3>1
  <2> QED
    BY <2>1, <2>2
<1> HIDE DEF t
<1>4. Members(t) = Members(s) \cup {x}
  <2>1. \A y \in Members(t) : y \in Members(s) \cup {x}
    BY <1>1 DEF Members
  <2>2. \A y \in Members(s) : y \in Members(t)
    <3> TAKE y \in Members(s)
    <3>1. PICK i \in 1 .. Len(s) : y = s[i]
      BY DEF Members
    <3>2. i \in 1 .. Len(t) /\ y = t[i]
      BY <1>1, <3>1
    <3> QED
      BY <3>2 DEF Members
  <2>3. x \in Members(t)
    <3>1. Len(s) + 1 \in 1 .. Len(t)
      BY <1>1
    <3> QED
      BY <1>1, <3>1 DEF Members
  <2> QED
    BY <2>1, <2>2, <2>3
<1>5. Distinct(s) /\ x \notin Members(s) => Distinct(t)
  BY <1>1 DEF Distinct, Members
<1>6. \A n \in 0 .. Len(s) : Rest(t, n) = Rest(s, n) \cup {x}
  <2> TAKE n \in 0 .. Len(s)
  <2>1. \A y \in Rest(t, n) : y \in Rest(s, n) \cup {x}
    BY <1>1 DEF Rest
  <2>2. \A y \in Rest(s, n) : y \in Rest(t, n)
    <3> TAKE y \in Rest(s, n)
    <3>1. PICK i \in (n + 1) .. Len(s) : y = s[i]
      BY DEF Rest
    <3>2. i \in (n + 1) .. Len(t) /\ y = t[i]
      BY <1>1, <3>1
    <3> QED
      BY <3>2 DEF Rest
  <2>3. x \in Rest(t, n)
    <3>1. Len(s) + 1 \in (n + 1) .. Len(t)
      BY <1>1
    <3> QED
      BY <1>1, <3>1 DEF Rest
  <2> QED
    BY <2>1, <2>2, <2>3
<1> QED
  BY <1>1, <1>2, <1>3, <1>4, <1>5, <1>6 DEF t

LEMMA TailMembers ==
  ASSUME NEW S, NEW s \in Seq(S), s # <<>>
  PROVE  /\ Tail(s) \in Seq(S) /\ Head(s) \in S
         /\ Len(Tail(s)) = Len(s) - 1
         /\ Head(s) \in Members(s)
         /\ Members(Tail(s)) \subseteq Members(s)
         /\ Distinct(s) => /\ Members(Tail(s)) = Members(s) \ {Head(s)}
                           /\ Distinct(Tail(s))
<1> DEFINE t == Tail(s)
<1>1. /\ t \in Seq(S) /\ Len(t) = Len(s) - 1 /\ Len(s) \in Nat /\ Len(s) > 0
      /\ \A i \in 1 .. Len(t) : t[i] = s[i + 1]
      /\ Head(s) = s[1] /\ Head(s) \in S
  OBVIOUS
<1> HIDE DEF t
<1>2. Head(s) \in Members(s)
  BY <1>1 DEF Members
<1>3. Members(t) \subseteq Members(s)
  <2>1. ASSUME NEW i \in 1 .. Len(t) PROVE t[i] \in Members(s)
    <3>1. i + 1 \in 1 .. Len(s) /\ t[i] = s[i + 1]
      BY <1>1
    <3> QED
      BY <3>1 DEF Members
  <2> QED
    BY <2>1 DEF Members
<1>4. ASSUME Distinct(s) PROVE Members(t) = Members(s) \ {Head(s)} /\ Distinct(t)
  <2>1. ASSUME NEW i \in 1 .. Len(t) PROVE t[i] # Head(s)
    <3>1. i + 1 \in 1 .. Len(s) /\ t[i] = s[i + 1] /\ 1 \in 1 .. Len(s) /\ i + 1 # 1
      BY <1>1
    <3> QED
      BY <1>1, <1>4, <3>1 DEF Distinct
  <2>2. ASSUME NEW i \in 1 .. Len(s), s[i] # Head(s) PROVE s[i] \in Members(t)
    <3>1. i - 1 \in 1 .. Len(t) /\ i = (i - 1) + 1
      BY <1>1, <2>2
    <3>2. t[i - 1] = s[i]
      BY <1>1, <3>1
    <3> QED
      BY <3>1, <3>2 DEF Members
  <2>3. Members(t) = Members(s) \ {Head(s)}
    BY <1>3, <2>1, <2>2 DEF Members
  <2>4. ASSUME NEW i \in 1 .. Len(t), NEW k \in 1 .. Len(t), t[i] = t[k]
        PROVE  i = k
    <3>1. /\ i + 1 \in 1 .. Len(s) /\ k + 1 \in 1 .. Len(s)
          /\ s[i + 1] = s[k + 1]
      BY <1>1, <2>4
    <3> QED
      BY <1>4, <3>1 DEF Distinct
  <2> QED
    BY <2>3, <2>4 DEF Distinct
<1> QED
  BY <1>1, <1>2, <1>3, <1>4 DEF t

LEMMA MembersType ==
  ASSUME NEW S, NEW s \in Seq(S)
  PROVE  /\ Members(s) \subseteq S
         /\ s # <<>> => Head(s) \in Members(s)
         /\ s = <<>> <=> Len(s) = 0
<1>1. s = <<>> <=> Len(s) = 0
  OBVIOUS
<1> QED
  BY <1>1 DEF Members

LEMMA RestMembers ==
  ASSUME NEW S, NEW s \in Seq(S), Distinct(s)
  PROVE  /\ Rest(s, 0) = Members(s)
         /\ \A n \in 0 .. Len(s) : Rest(s, n) \subseteq Members(s)
         /\ \A n \in 0 .. Len(s) : n < Len(s) =>
               /\ s[n + 1] \in Rest(s, n)
               /\ Rest(s, n + 1) = Rest(s, n) \ {s[n + 1]}
<1>1. Rest(s, 0) = Members(s)
  BY DEF Rest, Members
<1>2. ASSUME NEW n \in 0 .. Len(s) PROVE Rest(s, n) \subseteq Members(s)
  <2>1. (n + 1) .. Len(s) \subseteq 1 .. Len(s)
    OBVIOUS
  <2> QED
    BY <2>1 DEF Rest, Members
<1>3. ASSUME NEW n \in 0 .. Len(s), n < Len(s)
      PROVE  s[n + 1] \in Rest(s, n) /\ Rest(s, n + 1) = Rest(s, n) \ {s[n + 1]}
  <2>1. n + 1 \in (n + 1) .. Len(s)
    BY <1>3
  <2>2. \A i \in (n + 2) .. Len(s) :
           /\ i \in (n + 1) .. Len(s) /\ i \in 1 .. Len(s)
           /\ n + 1 \in 1 .. Len(s) /\ i # n + 1
    BY <1>3
  <2>3. \A y \in Rest(s, n + 1) : y \in Rest(s, n) /\ y # s[n + 1]
    BY <2>2 DEF Rest, Distinct
  <2>4. \A y \in Rest(s, n) : y # s[n + 1] => y \in Rest(s, n + 1)
    BY DEF Rest
  <2> QED
    BY <2>1, <2>3, <2>4 DEF Rest
<1> QED
  BY <1>1, <1>2, <1>3

-----------------------------------------------------------------------------
(* The invariant *)

Fetch == Call("getJobsInQueue", NoJob)
Calls == [do : {"insert", "delete"}, job : Jobs] \cup {Fetch}
Unadded == {"no", "awaitFetch", "inserting", "queueing"}
Over == {"done", "rejected"}
Iterating == {"backlog", "reading", "exhausted", "waiting"}
Unread == Rest(asyncQueue, position)

DataType ==
    /\ db \subseteq Jobs
    /\ sqlQueue \in Seq(Calls)
    /\ created \in {0} \cup Jobs
    /\ adding \in [Jobs -> Unadded \cup Over]
    /\ started \in BOOLEAN /\ fetched \in BOOLEAN
    /\ backlog \subseteq Jobs /\ asyncQueue \in Seq(Jobs)
    /\ reader \in {"off", "fetching", "dead"} \cup Iterating
    /\ position \in 0 .. Len(asyncQueue)
    /\ queueFor \in [Keys -> Jobs \cup {NoJob}]
    /\ tasks \in [Jobs -> Seq(Jobs)]
    /\ attempt \in [Jobs -> 0 .. MaxAttempts]
    /\ deleting \in [Jobs -> Outcomes \cup {"no"}]
    /\ completion \in [Jobs -> {"no", "resolved", "rejected"}]
    /\ timesQueued \in [Jobs -> Nat]

\* Jobs that have not been given to a PQueue of this process.
Unqueued(j) == timesQueued[j] = 0
\* Jobs that have, and whose add has returned, here or in an earlier process.
Queued(j) == timesQueued[j] = 1 /\ adding[j] \in Over
InTasks(j) == \E q \in Jobs : j \in Members(tasks[q])

\* The fetch is the first SQL call of its process.
SqlInv ==
    /\ Distinct(sqlQueue)
    /\ \A j \in Jobs : Call("insert", j) \in Members(sqlQueue) =>
          adding[j] = "inserting"
    /\ \A j \in Jobs : Call("delete", j) \in Members(sqlQueue) =>
          Queued(j) /\ ~InTasks(j) /\ j \in finished
    /\ Fetch \in Members(sqlQueue) => reader = "fetching"
    /\ reader = "fetching" => sqlQueue # <<>> /\ Head(sqlQueue) = Fetch
    /\ ~started => sqlQueue = <<>>

ReaderInv ==
    /\ ~started <=> reader = "off"
    /\ fetched <=> reader \in Iterating
    /\ \A j \in Jobs :
          /\ adding[j] = "queueing" => fetched
          /\ adding[j] = "inserting" => fetched \/ j \in OwnInsert
    /\ reader \notin {"reading", "exhausted"} => position = 0
    /\ ~fetched \/ reader = "waiting" => asyncQueue = <<>>
    /\ reader # "backlog" => backlog = {}

\* A job is added, fetched, or neither yet; the reader passes each once.  What
\* is fetched was there before the process: the worker is serial.
StreamInv ==
    /\ \A j \in Jobs : j > created => adding[j] = "no"
    /\ \A j \in Jobs : adding[j] \in Unadded => Unqueued(j)
    /\ \A j \in Jobs : Unqueued(j) \/ Queued(j)
    /\ \A j \in backlog : Unqueued(j) /\ adding[j] \in Over
    /\ \A j \in Members(asyncQueue) : adding[j] = "done" /\ j \notin backlog
    /\ \A j \in Unread : Unqueued(j)
    /\ Distinct(asyncQueue)
    /\ \A j \in db : adding[j] # "no"
    /\ reader \in {"off", "fetching"} =>
          /\ \A j \in Jobs : Unqueued(j)
          /\ \A j \in db : adding[j] \in Over

\* Each key has one PQueue, which is forgotten when it has no task left.
TaskInv ==
    /\ \A q \in Jobs : \A j \in Members(tasks[q]) : KeyOf[j] = KeyOf[q] /\ Queued(j)
    /\ \A q \in Jobs : Distinct(tasks[q])
    /\ \A q \in Jobs : tasks[q] # <<>> =>
          queueFor[KeyOf[q]] = q /\ attempt[Head(tasks[q])] > 0
    /\ \A k \in Keys : queueFor[k] # NoJob =>
          KeyOf[queueFor[k]] = k /\ tasks[queueFor[k]] # <<>>

EndInv ==
    /\ inserted \ finished \subseteq db
    /\ \A j \in Jobs : completion[j] # "no" => j \notin db /\ adding[j] \in Over

IInv == DataType /\ SqlInv /\ ReaderInv /\ StreamInv /\ TaskInv /\ EndInv

-----------------------------------------------------------------------------
(* SQL calls *)

LEMMA JobsAreNumbers == Jobs \subseteq Nat \ {0} /\ NoJob \notin Jobs
  BY JobQueueAssumption DEF Jobs, NoJob

LEMMA KeyOfType == \A j \in Jobs : KeyOf[j] \in Keys
  BY DEF Keys

LEMMA MembersAreJobs ==
  ASSUME DataType
  PROVE  /\ Members(asyncQueue) \subseteq Jobs /\ Unread \subseteq Members(asyncQueue)
         /\ \A q \in Jobs :
               /\ Members(tasks[q]) \subseteq Jobs
               /\ tasks[q] # <<>> => Head(tasks[q]) \in Members(tasks[q])
<1>1. Members(asyncQueue) \subseteq Jobs /\ Unread \subseteq Members(asyncQueue)
  <2>1. (position + 1) .. Len(asyncQueue) \subseteq 1 .. Len(asyncQueue)
    BY DEF DataType
  <2> QED
    BY <2>1, MembersType DEF DataType, Unread, Rest, Members
<1>2. \A q \in Jobs :
         /\ Members(tasks[q]) \subseteq Jobs
         /\ tasks[q] # <<>> => Head(tasks[q]) \in Members(tasks[q])
  BY MembersType DEF DataType
<1> QED
  BY <1>1, <1>2

\* What the jobs of a PQueue and the calls of theirs need of the rest.
QueuedKept == \A j \in Jobs : Queued(j) => Queued(j)'

LEMMA TasksUntouched ==
  ASSUME DataType, TaskInv, QueuedKept, UNCHANGED <<queueFor, tasks, attempt>>
  PROVE  TaskInv' /\ \A j \in Jobs : InTasks(j)' <=> InTasks(j)
<1>1. \A q \in Jobs : Members(tasks[q]) \subseteq Jobs
  BY MembersAreJobs
<1>2. \A q \in Jobs : \A j \in Members(tasks[q]) : KeyOf[j] = KeyOf[q] /\ Queued(j)'
  BY <1>1 DEF TaskInv, QueuedKept
<1> QED
  BY <1>2 DEF TaskInv, InTasks

LEMMA CallFacts ==
  /\ \A name1, name2, i, j : Call(name1, i) = Call(name2, j) => name1 = name2 /\ i = j
  /\ Fetch \in Calls
  /\ \A j \in Jobs : Call("insert", j) \in Calls /\ Call("delete", j) \in Calls
  /\ \A j : Call("insert", j) \in Calls => j \in Jobs
  /\ \A j : Call("insert", j) # Call("delete", j)
  /\ \A j : Call("insert", j) # Fetch /\ Call("delete", j) # Fetch
<1>1. \A name1, name2, i, j : Call(name1, i) = Call(name2, j) => name1 = name2 /\ i = j
  <2> TAKE name1, name2, i, j
  <2>1. /\ Call(name1, i).do = name1 /\ Call(name1, i).job = i
        /\ Call(name2, j).do = name2 /\ Call(name2, j).job = j
    BY DEF Call
  <2> QED
    BY <2>1
<1> QED
  BY <1>1 DEF Calls, Fetch, Call

LEMMA AnsweredCall ==
  ASSUME DataType, SqlInv, NEW name, NEW k, Answered(name, k)
  PROVE  /\ sqlQueue' \in Seq(Calls)
         /\ Call(name, k) \in Members(sqlQueue) /\ Call(name, k) \in Calls
         /\ Members(sqlQueue') = Members(sqlQueue) \ {Call(name, k)}
         /\ Distinct(sqlQueue')
         /\ started
         /\ reader = "fetching" <=> name = "getJobsInQueue"
<1>1. /\ sqlQueue' \in Seq(Calls)
      /\ Call(name, k) \in Members(sqlQueue) /\ Call(name, k) \in Calls
      /\ Members(sqlQueue') = Members(sqlQueue) \ {Call(name, k)}
      /\ Distinct(sqlQueue')
  BY TailMembers DEF Answered, DataType, SqlInv
<1>2. started
  BY DEF Answered, SqlInv
<1>3. reader = "fetching" <=> name = "getJobsInQueue"
  <2>1. ASSUME name = "getJobsInQueue" PROVE Call(name, k) = Fetch
    BY <1>1, <2>1 DEF Calls, Call, Fetch
  <2> QED
    BY <1>1, <2>1, CallFacts DEF Answered, SqlInv, Fetch
<1> QED
  BY <1>1, <1>2, <1>3

\* What the calls in the queue need of the rest.
CallsKept ==
    /\ QueuedKept
    /\ \A j \in Jobs : Queued(j) /\ InTasks(j)' => InTasks(j)
    /\ finished \subseteq finished'
    /\ started' = started

LEMMA NoneSent ==
  ASSUME DataType, SqlInv, CallsKept, UNCHANGED <<sqlQueue, reader>>,
         \A j \in Jobs : adding[j] = "inserting" => adding'[j] = "inserting"
  PROVE  SqlInv'
<1>1. \A j \in Jobs : Call("delete", j) \in Members(sqlQueue) =>
          Queued(j)' /\ ~InTasks(j)' /\ j \in finished'
  BY DEF SqlInv, CallsKept, QueuedKept
<1> QED
  BY <1>1 DEF SqlInv, CallsKept

LEMMA OneSent ==
  ASSUME DataType, SqlInv, CallsKept, UNCHANGED reader, started,
         NEW name \in {"insert", "delete"}, NEW k \in Jobs,
         Call(name, k) \notin Members(sqlQueue),
         sqlQueue' = Append(sqlQueue, Call(name, k)),
         name = "insert" => adding'[k] = "inserting",
         name = "delete" => Queued(k)' /\ ~InTasks(k)' /\ k \in finished',
         \A j \in Jobs : adding[j] = "inserting" => adding'[j] = "inserting"
  PROVE  SqlInv' /\ sqlQueue' \in Seq(Calls)
<1> DEFINE c == Call(name, k)
<1>1. c \in Calls /\ c \notin Members(sqlQueue) /\ sqlQueue' = Append(sqlQueue, c)
  BY CallFacts
<1> HIDE DEF c
<1>2. /\ sqlQueue' \in Seq(Calls) /\ sqlQueue' # <<>>
      /\ Members(sqlQueue') = Members(sqlQueue) \cup {c}
      /\ Distinct(sqlQueue')
      /\ Head(sqlQueue') = IF sqlQueue = <<>> THEN c ELSE Head(sqlQueue)
  BY <1>1, AppendMembers DEF DataType, SqlInv
<1>3. \A j \in Jobs : Call("insert", j) \in Members(sqlQueue') =>
          adding'[j] = "inserting"
  BY <1>2, CallFacts DEF SqlInv, c
<1>4. \A j \in Jobs : Call("delete", j) \in Members(sqlQueue') =>
          Queued(j)' /\ ~InTasks(j)' /\ j \in finished'
  <2>1. \A j \in Jobs : Call("delete", j) \in Members(sqlQueue) =>
            Queued(j)' /\ ~InTasks(j)' /\ j \in finished'
    BY DEF SqlInv, CallsKept, QueuedKept
  <2> QED
    BY <1>2, <2>1, CallFacts DEF c
<1>5. Fetch # c
  BY CallFacts DEF c
<1>6. Fetch \in Members(sqlQueue') => reader' = "fetching"
  BY <1>2, <1>5 DEF SqlInv
<1>7. reader' = "fetching" => sqlQueue' # <<>> /\ Head(sqlQueue') = Fetch
  BY <1>2 DEF SqlInv
<1>8. started'
  BY DEF CallsKept
<1> QED
  BY <1>2, <1>3, <1>4, <1>6, <1>7, <1>8 DEF SqlInv

LEMMA OneAnswered ==
  ASSUME DataType, SqlInv, CallsKept, reader' # "fetching",
         NEW name, NEW k, Answered(name, k),
         \A j \in Jobs : adding[j] = "inserting" /\ Call(name, k) # Call("insert", j)
                            => adding'[j] = "inserting"
  PROVE  SqlInv' /\ sqlQueue' \in Seq(Calls)
<1>1. /\ sqlQueue' \in Seq(Calls)
      /\ Call(name, k) \in Members(sqlQueue)
      /\ Members(sqlQueue') = Members(sqlQueue) \ {Call(name, k)}
      /\ Distinct(sqlQueue')
      /\ started
      /\ reader = "fetching" <=> name = "getJobsInQueue"
  BY AnsweredCall
<1>2. \A j \in Jobs : Call("insert", j) \in Members(sqlQueue') =>
          adding'[j] = "inserting"
  BY <1>1 DEF SqlInv
<1>3. \A j \in Jobs : Call("delete", j) \in Members(sqlQueue') =>
          Queued(j)' /\ ~InTasks(j)' /\ j \in finished'
  BY <1>1 DEF SqlInv, CallsKept, QueuedKept
<1>4. Fetch \notin Members(sqlQueue')
  <2>1. CASE name = "getJobsInQueue"
    BY <1>1, <2>1 DEF SqlInv, Answered
  <2>2. CASE name # "getJobsInQueue"
    BY <1>1, <2>2 DEF SqlInv
  <2> QED
    BY <2>1, <2>2
<1>5. started'
  BY <1>1 DEF CallsKept
<1> QED
  BY <1>1, <1>2, <1>3, <1>4, <1>5 DEF SqlInv

-----------------------------------------------------------------------------
(* add keeps the invariant *)

LEMMA CreateKeeps == IInv /\ Create => IInv'
<1> SUFFICES ASSUME IInv, Create PROVE IInv'
  OBVIOUS
<1> USE DEF IInv
<1> DEFINE j == created + 1
<1>1. /\ j \in Jobs /\ j > created /\ started
      /\ adding[j] = "no" /\ completion[j] = "no" /\ Unqueued(j)
      /\ Call("insert", j) \notin Members(sqlQueue)
      /\ j \notin db /\ j \notin Members(asyncQueue) /\ j \notin backlog
  <2>1. j \in Jobs /\ j > created /\ started
    BY JobsAreNumbers DEF Create, DataType
  <2>2. adding[j] = "no" /\ Unqueued(j)
    BY <2>1 DEF StreamInv, Unadded
  <2> HIDE DEF j
  <2> QED
    BY <2>1, <2>2 DEF StreamInv, SqlInv, Over, EndInv, DataType
<1>2. /\ created' = j
      /\ \/ /\ j \in OwnInsert /\ adding' = [adding EXCEPT ![j] = "inserting"]
            /\ sqlQueue' = Append(sqlQueue, Call("insert", j))
         \/ /\ j \notin OwnInsert /\ adding' = [adding EXCEPT ![j] = "awaitFetch"]
            /\ sqlQueue' = sqlQueue
      /\ UNCHANGED <<db, inserted, streamVars, runVars, endVars>>
  BY DEF Create
<1> HIDE DEF j
<1> USE DEF streamVars, runVars, endVars
<1>3. QueuedKept
  BY <1>1, <1>2 DEF QueuedKept, DataType, Queued, Over
<1>4. TaskInv' /\ \A i \in Jobs : InTasks(i)' <=> InTasks(i)
  BY <1>2, <1>3, TasksUntouched
<1>5. SqlInv' /\ sqlQueue' \in Seq(Calls)
  <2>1. CallsKept
    BY <1>2, <1>3, <1>4 DEF CallsKept
  <2>2. CASE j \in OwnInsert
    BY <1>1, <1>2, <2>1, <2>2, OneSent DEF DataType
  <2>3. CASE j \notin OwnInsert
    BY <1>1, <1>2, <2>1, <2>3, NoneSent DEF DataType
  <2> QED
    BY <2>2, <2>3
<1>6. DataType'
  BY <1>1, <1>2, <1>5 DEF DataType, Unadded, Over
<1>7. ReaderInv'
  BY <1>1, <1>2 DEF ReaderInv, DataType
<1>8. StreamInv'
  <2>1. \A i \in Jobs : i # j => adding'[i] = adding[i]
    BY <1>1, <1>2 DEF DataType
  <2>2. adding'[j] \in {"awaitFetch", "inserting"}
    BY <1>1, <1>2 DEF DataType
  <2>3. \A i \in Jobs : i > created' => adding'[i] = "no"
    BY <1>1, <1>2, <2>1, JobsAreNumbers DEF StreamInv, DataType
  <2>4. \A i \in Jobs : Unqueued(i)' <=> Unqueued(i)
    BY <1>2 DEF Unqueued
  <2>5. \A i \in Jobs : adding'[i] \in Unadded => Unqueued(i)'
    BY <1>1, <2>1, <2>4 DEF StreamInv
  <2>6. \A i \in Jobs : Unqueued(i)' \/ Queued(i)'
    BY <1>3, <2>4 DEF StreamInv, QueuedKept
  <2>7. \A i \in backlog' : Unqueued(i)' /\ adding'[i] \in Over
    BY <1>1, <1>2, <2>1, <2>4 DEF StreamInv, DataType
  <2>8. \A i \in Members(asyncQueue') : adding'[i] = "done" /\ i \notin backlog'
    BY <1>1, <1>2, <2>1, MembersAreJobs DEF StreamInv
  <2>9. \A i \in Unread' : Unqueued(i)'
    BY <1>2, <2>4, MembersAreJobs DEF StreamInv, Unread
  <2>10. \A i \in db' : i # j /\ adding'[i] = adding[i]
    BY <1>1, <1>2, <2>1 DEF DataType
  <2> QED
    BY <1>2, <2>3, <2>4, <2>5, <2>6, <2>7, <2>8, <2>9, <2>10 DEF StreamInv
<1>9. EndInv'
  BY <1>1, <1>2 DEF EndInv, DataType, Over
<1> QED
  BY <1>4, <1>5, <1>6, <1>7, <1>8, <1>9

\* The call of add moves on, up to the AsyncQueue.
LEMMA AddMovesOn ==
  ASSUME DataType, StreamInv, EndInv,
         NEW k \in Jobs, adding[k] \in Unadded \ {"no"},
         NEW step \in (Unadded \cup Over) \ {"no"},
         adding' = [adding EXCEPT ![k] = step],
         db \subseteq db', db' \subseteq db \cup {k},
         reader \in {"off", "fetching"} => db' = db,
         inserted' \subseteq inserted \cup db',
         UNCHANGED <<created, streamVars, runVars, endVars>>
  PROVE  QueuedKept /\ StreamInv' /\ EndInv'
<1> USE DEF streamVars, runVars, endVars
<1>1. \A i \in Jobs : i # k => adding'[i] = adding[i]
  BY DEF DataType
<1>2. adding'[k] = step
  BY DEF DataType
<1>3. QueuedKept
  BY <1>1 DEF QueuedKept, Queued, Unadded, Over
<1>4. \A i \in Jobs : Unqueued(i)' <=> Unqueued(i)
  BY DEF Unqueued
<1>5. StreamInv'
  <2>1. k \notin backlog /\ k \notin Members(asyncQueue)
    BY DEF StreamInv, Unadded, Over
  <2>2. ~(k > created)
    BY DEF StreamInv
  <2>3. \A i \in Jobs : i > created' => adding'[i] = "no"
    BY <1>1, <2>2 DEF StreamInv
  <2>4. \A i \in Jobs : adding'[i] \in Unadded => Unqueued(i)'
    BY <1>1, <1>4 DEF StreamInv
  <2>5. \A i \in Jobs : Unqueued(i)' \/ Queued(i)'
    BY <1>3, <1>4 DEF StreamInv, QueuedKept
  <2>6. \A i \in backlog' : Unqueued(i)' /\ adding'[i] \in Over
    BY <1>1, <1>4, <2>1 DEF StreamInv, DataType
  <2>7. \A i \in Members(asyncQueue') : adding'[i] = "done" /\ i \notin backlog'
    BY <1>1, <2>1, MembersAreJobs DEF StreamInv
  <2>8. \A i \in Unread' : Unqueued(i)'
    BY <1>4, MembersAreJobs DEF StreamInv, Unread
  <2>9. \A i \in db' : adding'[i] # "no"
    BY <1>1, <1>2 DEF StreamInv, DataType
  <2>10. \A i \in db : adding[i] \in Over => adding'[i] \in Over
    BY <1>1 DEF DataType, Unadded, Over
  <2> QED
    BY <1>4, <2>3, <2>4, <2>5, <2>6, <2>7, <2>8, <2>9, <2>10 DEF StreamInv
<1>6. EndInv'
  <2>1. inserted' \ finished' \subseteq db'
    BY DEF EndInv
  <2>2. completion[k] = "no"
    BY DEF EndInv, Unadded, Over
  <2>3. \A j \in Jobs : completion'[j] # "no" => j \notin db' /\ adding'[j] \in Over
    BY <1>1, <2>2 DEF EndInv
  <2> QED
    BY <2>1, <2>3 DEF EndInv
<1> QED
  BY <1>3, <1>5, <1>6

LEMMA SendInsertKeeps == ASSUME IInv, NEW j \in Jobs, SendInsert(j) PROVE IInv'
<1> USE DEF IInv
<1>1. /\ adding[j] = "awaitFetch" /\ fetched /\ j \notin OwnInsert
      /\ adding' = [adding EXCEPT ![j] = "inserting"]
      /\ sqlQueue' = Append(sqlQueue, Call("insert", j))
      /\ UNCHANGED <<db, created, inserted, streamVars, runVars, endVars>>
  BY DEF SendInsert
<1>2. Call("insert", j) \notin Members(sqlQueue) /\ started
  BY <1>1 DEF SqlInv, ReaderInv, DataType, Iterating
<1>3. QueuedKept /\ StreamInv' /\ EndInv'
  BY <1>1, AddMovesOn DEF Unadded
<1> USE DEF streamVars, runVars, endVars
<1>4. TaskInv' /\ \A i \in Jobs : InTasks(i)' <=> InTasks(i)
  BY <1>1, <1>3, TasksUntouched
<1>5. SqlInv' /\ sqlQueue' \in Seq(Calls)
  <2>1. CallsKept
    BY <1>1, <1>3, <1>4 DEF CallsKept
  <2> QED
    BY <1>1, <1>2, <2>1, OneSent DEF DataType
<1>6. DataType'
  BY <1>1, <1>5 DEF DataType, Unadded
<1>7. ReaderInv'
  BY <1>1 DEF ReaderInv, DataType
<1> QED
  BY <1>3, <1>4, <1>5, <1>6, <1>7

LEMMA InsertDoneKeeps == ASSUME IInv, NEW j \in Jobs, InsertDone(j) PROVE IInv'
<1> USE DEF IInv
<1>1. /\ Answered("insert", j)
      /\ db' = db \cup {j} /\ inserted' = inserted \cup {j}
      /\ adding' = [adding EXCEPT
                       ![j] = IF j \in OwnInsert THEN "awaitFetch" ELSE "queueing"]
      /\ UNCHANGED <<created, streamVars, runVars, endVars>>
  BY DEF InsertDone
<1>2. adding[j] = "inserting" /\ reader \notin {"off", "fetching"}
  BY <1>1, AnsweredCall DEF SqlInv, ReaderInv
<1>3. QueuedKept /\ StreamInv' /\ EndInv'
  <2> DEFINE step == IF j \in OwnInsert THEN "awaitFetch" ELSE "queueing"
  <2>1. step \in (Unadded \cup Over) \ {"no"} /\ adding[j] \in Unadded \ {"no"}
    BY <1>2 DEF Unadded
  <2>2. /\ db \subseteq db' /\ db' \subseteq db \cup {j}
        /\ inserted' \subseteq inserted \cup db'
    BY <1>1
  <2>3. adding' = [adding EXCEPT ![j] = step]
    BY <1>1
  <2> HIDE DEF step
  <2> QED
    BY <1>1, <1>2, <2>1, <2>2, <2>3, AddMovesOn
<1> USE DEF streamVars, runVars, endVars
<1>4. TaskInv' /\ \A i \in Jobs : InTasks(i)' <=> InTasks(i)
  BY <1>1, <1>3, TasksUntouched
<1>5. SqlInv' /\ sqlQueue' \in Seq(Calls)
  <2>1. CallsKept
    BY <1>1, <1>3, <1>4 DEF CallsKept
  <2>2. \A i \in Jobs : adding[i] = "inserting" /\ i # j => adding'[i] = "inserting"
    BY <1>1 DEF DataType
  <2> QED
    BY <1>1, <1>2, <2>1, <2>2, OneAnswered
<1>6. DataType'
  BY <1>1, <1>5 DEF DataType, Unadded
<1>7. ReaderInv'
  BY <1>1, <1>2 DEF ReaderInv, DataType
<1> QED
  BY <1>3, <1>4, <1>5, <1>6, <1>7

LEMMA InsertRejectedKeeps == ASSUME IInv, NEW j \in Jobs, InsertRejected(j) PROVE IInv'
<1> USE DEF IInv
<1>1. /\ Answered("insert", j)
      /\ db \subseteq db' /\ db' \subseteq db \cup {j}
      /\ inserted' \subseteq inserted \cup db'
      /\ adding' = [adding EXCEPT ![j] = "rejected"]
      /\ UNCHANGED <<created, streamVars, runVars, endVars>>
  BY DEF InsertRejected
<1>2. adding[j] = "inserting" /\ reader \notin {"off", "fetching"}
  BY <1>1, AnsweredCall DEF SqlInv, ReaderInv
<1>3. QueuedKept /\ StreamInv' /\ EndInv'
  BY <1>1, <1>2, AddMovesOn DEF Unadded, Over
<1> USE DEF streamVars, runVars, endVars
<1>4. TaskInv' /\ \A i \in Jobs : InTasks(i)' <=> InTasks(i)
  BY <1>1, <1>3, TasksUntouched
<1>5. SqlInv' /\ sqlQueue' \in Seq(Calls)
  <2>1. CallsKept
    BY <1>1, <1>3, <1>4 DEF CallsKept
  <2>2. \A i \in Jobs : adding[i] = "inserting" /\ i # j => adding'[i] = "inserting"
    BY <1>1 DEF DataType
  <2> QED
    BY <1>1, <1>2, <2>1, <2>2, OneAnswered
<1>6. DataType'
  BY <1>1, <1>5 DEF DataType, Over
<1>7. ReaderInv'
  BY <1>1, <1>2 DEF ReaderInv, DataType
<1> QED
  BY <1>3, <1>4, <1>5, <1>6, <1>7

LEMMA AddToAsyncQueueKeeps ==
  ASSUME IInv, NEW j \in Jobs, AddToAsyncQueue(j) PROVE IInv'
<1> USE DEF IInv
<1>1. /\ adding[j] \in {"queueing", "awaitFetch"} /\ fetched
      /\ adding' = [adding EXCEPT ![j] = "done"]
      /\ asyncQueue' = Append(asyncQueue, j)
      /\ \/ reader = "waiting" /\ reader' = "reading" /\ position' = 0
         \/ reader # "waiting" /\ UNCHANGED <<reader, position>>
      /\ UNCHANGED <<storeVars, created, inserted, started, fetched, backlog, runVars,
                     endVars>>
  BY DEF AddToAsyncQueue, ReadyToQueue, ReaderInv
<1>2. started /\ reader \in Iterating
  BY <1>1 DEF ReaderInv, DataType, Iterating
<1>3. /\ Unqueued(j) /\ j \notin Members(asyncQueue) /\ j \notin backlog
      /\ completion[j] = "no" /\ ~(j > created)
  BY <1>1 DEF StreamInv, EndInv, Unadded, Over
<1>4. /\ \A i \in Jobs : i # j => adding'[i] = adding[i]
      /\ adding'[j] = "done"
  BY <1>1 DEF DataType
<1> USE DEF storeVars, runVars, endVars
<1>5. QueuedKept
  BY <1>1, <1>4 DEF QueuedKept, Queued, Over
<1>6. TaskInv' /\ \A i \in Jobs : InTasks(i)' <=> InTasks(i)
  BY <1>1, <1>5, TasksUntouched
<1>7. SqlInv'
  <2>1. CallsKept
    BY <1>1, <1>5, <1>6 DEF CallsKept
  <2>2. Fetch \notin Members(sqlQueue) /\ reader' \in Iterating
    BY <1>1, <1>2 DEF SqlInv, Iterating
  <2>3. \A i \in Jobs : Call("delete", i) \in Members(sqlQueue) =>
          Queued(i)' /\ ~InTasks(i)' /\ i \in finished'
    BY <2>1 DEF SqlInv, CallsKept, QueuedKept
  <2> QED
    BY <1>1, <1>2, <1>4, <2>2, <2>3 DEF SqlInv, Iterating
<1>8. /\ asyncQueue' \in Seq(Jobs) /\ asyncQueue' # <<>>
      /\ position' \in 0 .. Len(asyncQueue')
      /\ Members(asyncQueue') = Members(asyncQueue) \cup {j}
      /\ Distinct(asyncQueue')
      /\ Unread' = Unread \cup {j}
  <2>1. position' = position
    BY <1>1 DEF ReaderInv
  <2>2. asyncQueue \in Seq(Jobs) /\ position \in 0 .. Len(asyncQueue)
    BY DEF DataType
  <2>3. Distinct(asyncQueue)
    BY DEF StreamInv
  <2>4. /\ asyncQueue' \in Seq(Jobs) /\ asyncQueue' # <<>>
        /\ Len(asyncQueue') = Len(asyncQueue) + 1
        /\ Members(asyncQueue') = Members(asyncQueue) \cup {j}
        /\ Distinct(asyncQueue')
        /\ Rest(asyncQueue', position) = Rest(asyncQueue, position) \cup {j}
    BY <1>1, <1>3, <2>2, <2>3, AppendMembers
  <2>5. position' \in 0 .. Len(asyncQueue')
    BY <2>1, <2>2, <2>4
  <2> QED
    BY <2>1, <2>4, <2>5 DEF Unread
<1>9. DataType'
  BY <1>1, <1>8 DEF DataType, Iterating, Over
<1>10. ReaderInv'
  BY <1>1, <1>2, <1>4 DEF ReaderInv, Iterating
<1>11. StreamInv'
  <2>1. \A i \in Jobs : i > created' => adding'[i] = "no"
    BY <1>1, <1>3, <1>4 DEF StreamInv
  <2>2. \A i \in Jobs : Unqueued(i)' <=> Unqueued(i)
    BY <1>1 DEF Unqueued
  <2>3. \A i \in Jobs : adding'[i] \in Unadded => Unqueued(i)'
    BY <1>3, <1>4, <2>2 DEF StreamInv
  <2>4. \A i \in Jobs : Unqueued(i)' \/ Queued(i)'
    BY <1>5, <2>2 DEF StreamInv, QueuedKept
  <2>5. \A i \in backlog' : Unqueued(i)' /\ adding'[i] \in Over
    BY <1>1, <1>3, <1>4, <2>2 DEF StreamInv, DataType
  <2>6. \A i \in Members(asyncQueue') : adding'[i] = "done" /\ i \notin backlog'
    BY <1>1, <1>3, <1>4, <1>8, MembersAreJobs DEF StreamInv
  <2>7. \A i \in Unread' : Unqueued(i)'
    BY <1>3, <1>8, <2>2, MembersAreJobs DEF StreamInv
  <2>8. \A i \in db' : adding'[i] # "no"
    BY <1>1, <1>4 DEF StreamInv, DataType
  <2>9. reader' \in Iterating
    BY <1>1, <1>2 DEF Iterating
  <2> QED
    BY <1>8, <2>1, <2>3, <2>4, <2>5, <2>6, <2>7, <2>8, <2>9 DEF StreamInv, Iterating
<1>12. EndInv'
  BY <1>1, <1>3, <1>4 DEF EndInv
<1> QED
  BY <1>6, <1>7, <1>9, <1>10, <1>11, <1>12

-----------------------------------------------------------------------------
(* streamJobs keeps the invariant *)

LEMMA StreamJobsKeeps == ASSUME IInv, StreamJobs PROVE IInv'
<1> USE DEF IInv
<1>1. /\ ~started /\ started' /\ reader' = "fetching" /\ started' \in BOOLEAN
      /\ sqlQueue' = Append(sqlQueue, Fetch)
      /\ UNCHANGED <<db, addVars, fetched, backlog, asyncQueue, position, runVars,
                     endVars>>
  BY DEF StreamJobs, Fetch
<1> USE DEF addVars, runVars, endVars
<1>2. /\ sqlQueue = <<>> /\ reader = "off" /\ ~fetched
      /\ backlog = {} /\ asyncQueue = <<>> /\ position = 0
  BY <1>1 DEF SqlInv, ReaderInv, Iterating
<1>3. QueuedKept
  BY <1>1 DEF QueuedKept, Queued
<1>4. TaskInv' /\ \A i \in Jobs : InTasks(i)' <=> InTasks(i)
  BY <1>1, <1>3, TasksUntouched
<1>5. /\ sqlQueue' \in Seq(Calls) /\ sqlQueue' # <<>>
      /\ Members(sqlQueue') = {Fetch} /\ Distinct(sqlQueue')
      /\ Head(sqlQueue') = Fetch
  <2>1. Fetch \in Calls /\ sqlQueue \in Seq(Calls)
    BY CallFacts DEF DataType
  <2>2. Members(sqlQueue) = {} /\ Distinct(sqlQueue)
    BY <1>2, EmptyMembers
  <2>3. /\ sqlQueue' \in Seq(Calls) /\ sqlQueue' # <<>>
        /\ Members(sqlQueue') = Members(sqlQueue) \cup {Fetch}
        /\ Head(sqlQueue') = IF sqlQueue = <<>> THEN Fetch ELSE Head(sqlQueue)
        /\ Distinct(sqlQueue')
    BY <1>1, <2>1, <2>2, AppendMembers
  <2> QED
    BY <1>2, <2>2, <2>3
<1>6. SqlInv'
  BY <1>1, <1>5, CallFacts DEF SqlInv
<1>7. DataType'
  BY <1>1, <1>5 DEF DataType
<1>8. ReaderInv'
  BY <1>1, <1>2 DEF ReaderInv, Iterating
<1>9. StreamInv'
  <2>1. \A j \in Jobs : Unqueued(j)'
    BY <1>1, <1>2 DEF StreamInv, Unqueued
  <2>2. \A j \in db' : adding'[j] \in Over
    BY <1>1, <1>2 DEF StreamInv
  <2>3. Members(asyncQueue') = {} /\ Distinct(asyncQueue') /\ Unread' = {}
    BY <1>1, <1>2, EmptyMembers, MembersAreJobs DEF Unread
  <2> QED
    BY <1>1, <1>2, <2>1, <2>2, <2>3 DEF StreamInv, Over
<1>10. EndInv'
  BY <1>1 DEF EndInv
<1> QED
  BY <1>4, <1>6, <1>7, <1>8, <1>9, <1>10

LEMMA FetchDoneKeeps == ASSUME IInv, FetchDone PROVE IInv'
<1> USE DEF IInv
<1>1. /\ Answered("getJobsInQueue", NoJob)
      /\ fetched' /\ fetched' \in BOOLEAN /\ backlog' = db /\ reader' = "backlog"
      /\ UNCHANGED <<db, addVars, started, asyncQueue, position, runVars, endVars>>
  BY DEF FetchDone
<1> USE DEF addVars, runVars, endVars
<1>2. reader = "fetching" /\ started
  BY <1>1, AnsweredCall
<1>3. ~fetched /\ asyncQueue = <<>> /\ position = 0
  BY <1>2 DEF ReaderInv, Iterating
<1>4. QueuedKept
  BY <1>1 DEF QueuedKept, Queued
<1>5. TaskInv' /\ \A i \in Jobs : InTasks(i)' <=> InTasks(i)
  BY <1>1, <1>4, TasksUntouched
<1>6. SqlInv' /\ sqlQueue' \in Seq(Calls)
  <2>1. CallsKept
    BY <1>1, <1>4, <1>5 DEF CallsKept
  <2> QED
    BY <1>1, <2>1, OneAnswered
<1>7. DataType'
  BY <1>1, <1>6 DEF DataType, Iterating
<1>8. ReaderInv'
  BY <1>1, <1>2, <1>3 DEF ReaderInv, Iterating
<1>9. StreamInv'
  <2>1. Members(asyncQueue') = {} /\ Distinct(asyncQueue') /\ Unread' = {}
    BY <1>1, <1>3, EmptyMembers, MembersAreJobs DEF Unread
  <2> QED
    BY <1>1, <1>2, <1>4, <2>1 DEF StreamInv, Unqueued, QueuedKept, DataType
<1>10. EndInv'
  BY <1>1 DEF EndInv
<1> QED
  BY <1>5, <1>6, <1>7, <1>8, <1>9, <1>10

LEMMA FetchRejectedKeeps == ASSUME IInv, FetchRejected PROVE IInv'
<1> USE DEF IInv
<1>1. /\ Answered("getJobsInQueue", NoJob)
      /\ reader' = "dead"
      /\ UNCHANGED <<db, addVars, started, fetched, backlog, asyncQueue, position,
                     runVars, endVars>>
  BY DEF FetchRejected
<1> USE DEF addVars, runVars, endVars
<1>2. reader = "fetching" /\ started
  BY <1>1, AnsweredCall
<1>3. QueuedKept
  BY <1>1 DEF QueuedKept, Queued
<1>4. TaskInv' /\ \A i \in Jobs : InTasks(i)' <=> InTasks(i)
  BY <1>1, <1>3, TasksUntouched
<1>5. SqlInv' /\ sqlQueue' \in Seq(Calls)
  <2>1. CallsKept
    BY <1>1, <1>3, <1>4 DEF CallsKept
  <2> QED
    BY <1>1, <2>1, OneAnswered
<1>6. DataType'
  BY <1>1, <1>5 DEF DataType
<1>7. ReaderInv'
  BY <1>1, <1>2 DEF ReaderInv, Iterating
<1>8. StreamInv'
  BY <1>1, <1>2, <1>3 DEF StreamInv, Unqueued, QueuedKept, Unread
<1>9. EndInv'
  BY <1>1 DEF EndInv
<1> QED
  BY <1>4, <1>5, <1>6, <1>7, <1>8, <1>9

\* The reader moves on, and nothing else does.
LEMMA ReaderMovesOn ==
  ASSUME IInv, reader \in Iterating, reader' \in Iterating,
         UNCHANGED <<storeVars, addVars, started, fetched, backlog, runVars, endVars>>
  PROVE  SqlInv' /\ TaskInv' /\ EndInv' /\ QueuedKept
<1> USE DEF IInv, storeVars, addVars, runVars, endVars
<1>1. QueuedKept
  BY DEF QueuedKept, Queued
<1>2. TaskInv' /\ \A i \in Jobs : InTasks(i)' <=> InTasks(i)
  BY <1>1, TasksUntouched
<1>3. SqlInv'
  <2>1. \A i \in Jobs : Call("delete", i) \in Members(sqlQueue) =>
          Queued(i)' /\ ~InTasks(i)' /\ i \in finished'
    BY <1>1, <1>2 DEF SqlInv, QueuedKept
  <2> QED
    BY <2>1 DEF SqlInv, Iterating
<1>4. EndInv'
  BY DEF EndInv
<1> QED
  BY <1>1, <1>2, <1>3, <1>4

LEMMA EndOfBacklogKeeps == ASSUME IInv, EndOfBacklog PROVE IInv'
<1> USE DEF IInv
<1>1. /\ reader = "backlog" /\ reader' = "reading" /\ position' = 0 /\ backlog = {}
      /\ UNCHANGED <<storeVars, addVars, started, fetched, backlog, asyncQueue, runVars,
                     endVars>>
  BY DEF EndOfBacklog
<1>2. SqlInv' /\ TaskInv' /\ EndInv' /\ QueuedKept
  BY <1>1, ReaderMovesOn DEF Iterating
<1> USE DEF storeVars, addVars, runVars, endVars
<1>3. position' = position
  BY <1>1 DEF ReaderInv
<1>4. DataType'
  BY <1>1, <1>3 DEF DataType, Iterating
<1>5. ReaderInv'
  BY <1>1 DEF ReaderInv, Iterating
<1>6. StreamInv'
  BY <1>1, <1>2, <1>3 DEF StreamInv, Unqueued, QueuedKept, Unread
<1> QED
  BY <1>2, <1>4, <1>5, <1>6

LEMMA ExhaustedKeeps == ASSUME IInv, Exhausted PROVE IInv'
<1> USE DEF IInv
<1>1. /\ reader = "reading" /\ reader' = "exhausted"
      /\ UNCHANGED <<storeVars, addVars, started, fetched, backlog, asyncQueue, position,
                     runVars, endVars>>
  BY DEF Exhausted
<1>2. SqlInv' /\ TaskInv' /\ EndInv' /\ QueuedKept
  BY <1>1, ReaderMovesOn DEF Iterating
<1> USE DEF storeVars, addVars, runVars, endVars
<1>3. DataType'
  BY <1>1 DEF DataType, Iterating
<1>4. ReaderInv'
  BY <1>1 DEF ReaderInv, Iterating
<1>5. StreamInv'
  BY <1>1, <1>2 DEF StreamInv, Unqueued, QueuedKept, Unread
<1> QED
  BY <1>2, <1>3, <1>4, <1>5

LEMMA EmptyAsyncQueueKeeps == ASSUME IInv, EmptyAsyncQueue PROVE IInv'
<1> USE DEF IInv
<1>1. /\ reader = "exhausted" /\ reader' = "waiting"
      /\ asyncQueue' = <<>> /\ position' = 0
      /\ UNCHANGED <<storeVars, addVars, started, fetched, backlog, runVars, endVars>>
  BY DEF EmptyAsyncQueue
<1>2. SqlInv' /\ TaskInv' /\ EndInv' /\ QueuedKept
  BY <1>1, ReaderMovesOn DEF Iterating
<1> USE DEF storeVars, addVars, runVars, endVars
<1>3. DataType'
  BY <1>1 DEF DataType, Iterating
<1>4. ReaderInv'
  BY <1>1 DEF ReaderInv, Iterating
<1>5. StreamInv'
  <2>1. Members(asyncQueue') = {} /\ Distinct(asyncQueue')
    BY <1>1, EmptyMembers
  <2>2. Unread' = {}
    BY <1>3, <2>1, RestMembers, <1>1 DEF DataType, Unread
  <2> QED
    BY <1>1, <1>2, <2>1, <2>2 DEF StreamInv, Unqueued, QueuedKept
<1> QED
  BY <1>2, <1>3, <1>4, <1>5

\* A job goes to its PQueue, or is deleted if it is malformed.
LEMMA EnqueueKeeps ==
  ASSUME IInv, NEW j \in Jobs, Unqueued(j), adding[j] \in Over, Enqueue(j), started,
         reader # "fetching",
         UNCHANGED <<addVars, started, fetched, asyncQueue, reader>>
  PROVE  /\ SqlInv' /\ TaskInv' /\ EndInv' /\ QueuedKept
         /\ sqlQueue' \in Seq(Calls) /\ db' = db
         /\ queueFor' \in [Keys -> Jobs \cup {NoJob}]
         /\ tasks' \in [Jobs -> Seq(Jobs)]
         /\ attempt' \in [Jobs -> 0 .. MaxAttempts]
         /\ deleting' \in [Jobs -> Outcomes \cup {"no"}]
         /\ completion' \in [Jobs -> {"no", "resolved", "rejected"}]
         /\ timesQueued' \in [Jobs -> Nat]
         /\ Queued(j)'
         /\ \A i \in Jobs : i # j /\ Unqueued(i) => Unqueued(i)'
<1> USE DEF IInv, addVars
<1>1. timesQueued' = [timesQueued EXCEPT ![j] = @ + 1] /\ db' = db
      /\ completion' = completion
  BY DEF Enqueue
<1>2. /\ timesQueued' \in [Jobs -> Nat]
      /\ timesQueued'[j] = 1
      /\ \A i \in Jobs : i # j => timesQueued'[i] = timesQueued[i]
  BY <1>1 DEF DataType, Unqueued
<1>3. Queued(j)' /\ \A i \in Jobs : i # j /\ Unqueued(i) => Unqueued(i)'
  BY <1>2 DEF Queued, Unqueued
<1>4. QueuedKept
  BY <1>2, <1>3 DEF QueuedKept, Queued
<1>5. ~Queued(j) /\ ~InTasks(j) /\ Call("delete", j) \notin Members(sqlQueue)
  <2>1. ~Queued(j)
    BY DEF Queued, Unqueued
  <2>2. ~InTasks(j)
    BY <2>1 DEF InTasks, TaskInv
  <2> QED
    BY <2>1, <2>2 DEF SqlInv
<1>6. CASE j \in Malformed
  <2>1. /\ sqlQueue' = Append(sqlQueue, Call("delete", j))
        /\ deleting' = [deleting EXCEPT ![j] = "malformed"]
        /\ finished' = finished \cup {j}
        /\ UNCHANGED <<queueFor, tasks, attempt>>
    BY <1>6 DEF Enqueue, Delete
  <2>2. TaskInv' /\ \A i \in Jobs : InTasks(i)' <=> InTasks(i)
    BY <1>4, <2>1, TasksUntouched
  <2>3. CallsKept
    BY <1>4, <2>1, <2>2 DEF CallsKept
  <2>4. SqlInv' /\ sqlQueue' \in Seq(Calls)
    <3>1. ~InTasks(j)' /\ j \in finished'
      BY <1>5, <2>1, <2>2
    <3>2. "delete" \in {"insert", "delete"} /\ "delete" # "insert"
      OBVIOUS
    <3> QED
      BY <1>3, <1>5, <2>1, <2>3, <3>1, <3>2, OneSent
  <2>5. EndInv'
    BY <1>1, <2>1 DEF EndInv
  <2> QED
    BY <1>1, <1>2, <1>3, <1>4, <2>1, <2>2, <2>4, <2>5 DEF DataType, Outcomes
<1>7. CASE j \notin Malformed
  <2> DEFINE key == KeyOf[j]
             q == IF queueFor[key] = NoJob THEN j ELSE queueFor[key]
  <2>1. /\ q \in Jobs /\ key \in Keys /\ KeyOf[q] = key
        /\ tasks[q] = <<>> <=> queueFor[key] = NoJob
    BY KeyOfType, JobsAreNumbers DEF DataType, TaskInv
  <2>2. /\ tasks' = [tasks EXCEPT ![q] = Append(tasks[q], j)]
        /\ queueFor' = [queueFor EXCEPT ![key] = q]
        /\ attempt' = IF tasks[q] = <<>> THEN [attempt EXCEPT ![j] = 1] ELSE attempt
        /\ UNCHANGED <<sqlQueue, deleting, finished>>
    <3>1. CASE queueFor[key] = NoJob
      BY <1>7, <2>1, <3>1 DEF Enqueue, StartOn, DataType
    <3>2. CASE queueFor[key] # NoJob
      <4>1. queueFor' = queueFor /\ queueFor[key] = q
        BY <1>7, <3>2 DEF Enqueue
      <4>2. queueFor' = [queueFor EXCEPT ![key] = q]
        BY <2>1, <4>1 DEF DataType
      <4> QED
        BY <1>7, <2>1, <3>2, <4>2 DEF Enqueue, StartOn
    <3> QED
      BY <3>1, <3>2
  <2> HIDE DEF q, key
  <2>3. /\ tasks[q] \in Seq(Jobs) /\ Distinct(tasks[q])
        /\ j \notin Members(tasks[q])
    BY <1>5, <2>1 DEF DataType, TaskInv, InTasks
  <2>4. /\ Append(tasks[q], j) \in Seq(Jobs) /\ Append(tasks[q], j) # <<>>
        /\ Members(Append(tasks[q], j)) = Members(tasks[q]) \cup {j}
        /\ Distinct(Append(tasks[q], j))
        /\ Head(Append(tasks[q], j)) = IF tasks[q] = <<>> THEN j ELSE Head(tasks[q])
    BY <2>3, AppendMembers
  <2>5. /\ tasks' \in [Jobs -> Seq(Jobs)]
        /\ tasks'[q] # <<>> /\ Distinct(tasks'[q])
        /\ Members(tasks'[q]) = Members(tasks[q]) \cup {j}
        /\ Head(tasks'[q]) = IF tasks[q] = <<>> THEN j ELSE Head(tasks[q])
        /\ \A p \in Jobs : p # q => tasks'[p] = tasks[p]
    BY <2>1, <2>2, <2>4 DEF DataType
  <2>6. /\ queueFor' \in [Keys -> Jobs \cup {NoJob}]
        /\ queueFor'[key] = q
        /\ \A k \in Keys : k # key => queueFor'[k] = queueFor[k]
    BY <2>1, <2>2 DEF DataType
  <2>7. /\ attempt' \in [Jobs -> 0 .. MaxAttempts]
        /\ tasks[q] = <<>> => attempt'[j] > 0
        /\ \A i \in Jobs : attempt[i] > 0 => attempt'[i] > 0
    BY <2>2, JobQueueAssumption DEF DataType
  <2>8. TaskInv'
    <3>1. ASSUME NEW p \in Jobs, NEW i \in Members(tasks'[p])
          PROVE  KeyOf[i] = KeyOf[p] /\ Queued(i)'
      <4>1. i \in Members(tasks[p]) \/ (p = q /\ i = j)
        <5>1. CASE p = q
          <6>1. i \in Members(tasks'[q])
            BY <3>1, <5>1
          <6> QED
            BY <2>5, <5>1, <6>1
        <5>2. CASE p # q
          <6>1. tasks'[p] = tasks[p]
            BY <2>5, <5>2
          <6> QED
            BY <3>1, <6>1
        <5> QED
          BY <5>1, <5>2
      <4>2. i \in Members(tasks[p]) => i \in Jobs /\ KeyOf[i] = KeyOf[p] /\ Queued(i)
        BY MembersAreJobs DEF TaskInv
      <4> QED
        BY <1>3, <1>4, <2>1, <4>1, <4>2 DEF QueuedKept, key
    <3>2. \A p \in Jobs : Distinct(tasks'[p])
      BY <2>5 DEF TaskInv
    <3>3. ASSUME NEW p \in Jobs, tasks'[p] # <<>>
          PROVE  queueFor'[KeyOf[p]] = p /\ attempt'[Head(tasks'[p])] > 0
      <4>1. CASE p = q
        <5>1. queueFor'[KeyOf[p]] = p
          BY <2>1, <2>6, <4>1
        <5>2. tasks[q] # <<>> =>
                 Head(tasks[q]) \in Jobs /\ attempt[Head(tasks[q])] > 0
          BY <2>1, MembersAreJobs DEF TaskInv
        <5> QED
          BY <2>5, <2>7, <4>1, <5>1, <5>2
      <4>2. CASE p # q
        <5>1. /\ tasks'[p] = tasks[p] /\ queueFor[KeyOf[p]] = p
              /\ attempt[Head(tasks[p])] > 0 /\ Head(tasks[p]) \in Jobs
          BY <2>5, <3>3, <4>2, MembersAreJobs DEF TaskInv
        <5>2. KeyOf[p] \in Keys /\ KeyOf[p] # key
          <6>1. queueFor[key] = NoJob \/ queueFor[key] = q
            BY DEF q
          <6> QED
            BY <4>2, <5>1, <6>1, KeyOfType, JobsAreNumbers
        <5> QED
          BY <2>6, <2>7, <5>1, <5>2
      <4> QED
        BY <4>1, <4>2
    <3>4. ASSUME NEW k \in Keys, queueFor'[k] # NoJob
          PROVE  KeyOf[queueFor'[k]] = k /\ tasks'[queueFor'[k]] # <<>>
      <4>1. CASE k = key
        BY <2>1, <2>5, <2>6, <4>1
      <4>2. CASE k # key
        <5>1. /\ queueFor'[k] = queueFor[k] /\ queueFor[k] \in Jobs
              /\ KeyOf[queueFor[k]] = k /\ tasks[queueFor[k]] # <<>>
          BY <2>6, <3>4, <4>2 DEF TaskInv, DataType
        <5> QED
          BY <2>5, <5>1
      <4> QED
        BY <4>1, <4>2
    <3> QED
      BY <3>1, <3>2, <3>3, <3>4 DEF TaskInv
  <2>9. SqlInv'
    <3>1. CallsKept
      BY <1>4, <1>5, <2>2, <2>5 DEF CallsKept, InTasks
    <3> QED
      BY <2>2, <3>1, NoneSent
  <2>10. EndInv'
    BY <1>1, <2>2 DEF EndInv
  <2> QED
    BY <1>1, <1>2, <1>3, <1>4, <2>2, <2>5, <2>6, <2>7, <2>8, <2>9, <2>10 DEF DataType
<1> QED
  BY <1>6, <1>7

LEMMA EnqueueFetchedKeeps == ASSUME IInv, NEW j \in Jobs, EnqueueFetched(j) PROVE IInv'
<1> USE DEF IInv
<1>1. /\ reader = "backlog" /\ j \in backlog /\ Enqueue(j)
      /\ backlog' = backlog \ {j}
      /\ UNCHANGED <<addVars, started, fetched, asyncQueue, reader, position>>
  BY DEF EnqueueFetched
<1>2. Unqueued(j) /\ adding[j] \in Over /\ started /\ j \notin Members(asyncQueue)
  BY <1>1 DEF StreamInv, ReaderInv
<1>3. /\ SqlInv' /\ TaskInv' /\ EndInv' /\ QueuedKept
      /\ sqlQueue' \in Seq(Calls) /\ db' = db
      /\ queueFor' \in [Keys -> Jobs \cup {NoJob}]
      /\ tasks' \in [Jobs -> Seq(Jobs)]
      /\ attempt' \in [Jobs -> 0 .. MaxAttempts]
      /\ deleting' \in [Jobs -> Outcomes \cup {"no"}]
      /\ completion' \in [Jobs -> {"no", "resolved", "rejected"}]
      /\ timesQueued' \in [Jobs -> Nat]
      /\ Queued(j)'
      /\ \A i \in Jobs : i # j /\ Unqueued(i) => Unqueued(i)'
  BY <1>1, <1>2, EnqueueKeeps
<1> USE DEF addVars
<1>4. DataType'
  BY <1>1, <1>3 DEF DataType
<1>5. ReaderInv'
  BY <1>1 DEF ReaderInv
<1>6. StreamInv'
  <2>1. \A i \in Jobs : adding'[i] \in Unadded => Unqueued(i)'
    BY <1>1, <1>2, <1>3 DEF StreamInv, Unadded, Over
  <2>2. \A i \in Jobs : Unqueued(i)' \/ Queued(i)'
    BY <1>3 DEF StreamInv, QueuedKept
  <2>3. \A i \in backlog' : Unqueued(i)' /\ adding'[i] \in Over
    BY <1>1, <1>3 DEF StreamInv, DataType
  <2>4. \A i \in Members(asyncQueue') : adding'[i] = "done" /\ i \notin backlog'
    BY <1>1 DEF StreamInv
  <2>5. Unread' = Unread
    BY <1>1 DEF Unread
  <2>6. \A i \in Unread' : Unqueued(i)'
    BY <1>2, <1>3, <2>5, MembersAreJobs DEF StreamInv
  <2> QED
    BY <1>1, <1>3, <2>1, <2>2, <2>3, <2>4, <2>6 DEF StreamInv
<1> QED
  BY <1>3, <1>4, <1>5, <1>6

LEMMA EnqueueAddedKeeps == ASSUME IInv, EnqueueAdded PROVE IInv'
<1> USE DEF IInv
<1>0. PICK j : j = asyncQueue[position + 1]
  OBVIOUS
<1>1. /\ reader = "reading" /\ position < Len(asyncQueue) /\ Enqueue(j)
      /\ position' = position + 1
      /\ UNCHANGED <<addVars, started, fetched, backlog, asyncQueue, reader>>
  BY <1>0 DEF EnqueueAdded
<1>2. /\ j \in Unread /\ Unread' = Unread \ {j}
      /\ position' \in 0 .. Len(asyncQueue)
  BY <1>0, <1>1, RestMembers DEF DataType, StreamInv, Unread
<1>3. j \in Jobs /\ j \in Members(asyncQueue)
  BY <1>2, MembersAreJobs
<1>4. Unqueued(j) /\ adding[j] \in Over /\ started /\ j \notin backlog
  BY <1>1, <1>2, <1>3 DEF StreamInv, ReaderInv, Over
<1>5. /\ SqlInv' /\ TaskInv' /\ EndInv' /\ QueuedKept
      /\ sqlQueue' \in Seq(Calls) /\ db' = db
      /\ queueFor' \in [Keys -> Jobs \cup {NoJob}]
      /\ tasks' \in [Jobs -> Seq(Jobs)]
      /\ attempt' \in [Jobs -> 0 .. MaxAttempts]
      /\ deleting' \in [Jobs -> Outcomes \cup {"no"}]
      /\ completion' \in [Jobs -> {"no", "resolved", "rejected"}]
      /\ timesQueued' \in [Jobs -> Nat]
      /\ Queued(j)'
      /\ \A i \in Jobs : i # j /\ Unqueued(i) => Unqueued(i)'
  BY <1>1, <1>3, <1>4, EnqueueKeeps
<1> USE DEF addVars
<1>6. DataType'
  BY <1>1, <1>2, <1>5 DEF DataType
<1>7. ReaderInv'
  BY <1>1 DEF ReaderInv
<1>8. StreamInv'
  <2>1. \A i \in Jobs : adding'[i] \in Unadded => Unqueued(i)'
    BY <1>1, <1>4, <1>5 DEF StreamInv, Unadded, Over
  <2>2. \A i \in Jobs : Unqueued(i)' \/ Queued(i)'
    BY <1>5 DEF StreamInv, QueuedKept
  <2>3. \A i \in backlog' : Unqueued(i)' /\ adding'[i] \in Over
    BY <1>1, <1>4, <1>5 DEF StreamInv, DataType
  <2>4. \A i \in Members(asyncQueue') : adding'[i] = "done" /\ i \notin backlog'
    BY <1>1 DEF StreamInv
  <2>5. \A i \in Unread' : Unqueued(i)'
    BY <1>2, <1>5, MembersAreJobs DEF StreamInv
  <2> QED
    BY <1>1, <1>5, <2>1, <2>2, <2>3, <2>4, <2>5 DEF StreamInv
<1> QED
  BY <1>5, <1>6, <1>7, <1>8

-----------------------------------------------------------------------------
(* The runs keep the invariant *)

\* The task at the head of a PQueue is the only task of its job.
LEMMA HeadTask ==
  ASSUME DataType, TaskInv, NEW q \in Jobs, tasks[q] # <<>>
  PROVE  /\ Head(tasks[q]) \in Jobs /\ KeyOf[Head(tasks[q])] = KeyOf[q]
         /\ Queued(Head(tasks[q])) /\ InTasks(Head(tasks[q]))
         /\ queueFor[KeyOf[q]] = q
         /\ \A p \in Jobs : p # q => Head(tasks[q]) \notin Members(tasks[p])
<1>1. Head(tasks[q]) \in Members(tasks[q]) /\ Head(tasks[q]) \in Jobs
  BY MembersAreJobs
<1>2. /\ KeyOf[Head(tasks[q])] = KeyOf[q]
      /\ Queued(Head(tasks[q])) /\ InTasks(Head(tasks[q]))
      /\ queueFor[KeyOf[q]] = q
  BY <1>1 DEF TaskInv, InTasks
<1>3. ASSUME NEW p \in Jobs, Head(tasks[q]) \in Members(tasks[p]) PROVE p = q
  <2>1. tasks[p] # <<>>
    BY <1>3, EmptyMembers
  <2>2. KeyOf[Head(tasks[q])] = KeyOf[p] /\ queueFor[KeyOf[p]] = p
    BY <1>3, <2>1 DEF TaskInv
  <2> QED
    BY <1>2, <2>2
<1> QED
  BY <1>1, <1>2, <1>3

LEMMA EndTaskKeeps ==
  ASSUME IInv, NEW q \in Jobs, tasks[q] # <<>>, NEW outcome \in {"success", "failure"},
         EndTask(q, outcome),
         UNCHANGED <<db, addVars, streamVars, timesQueued, completion>>
  PROVE  IInv'
<1> USE DEF IInv, addVars, streamVars
<1>0. PICK j, rest : j = Head(tasks[q]) /\ rest = Tail(tasks[q])
  OBVIOUS
<1>1. /\ tasks' = [tasks EXCEPT ![q] = rest]
      /\ queueFor' = [k \in Keys |->
                         IF queueFor[k] = q /\ Len(tasks[q]) = 1 THEN NoJob
                         ELSE queueFor[k]]
      /\ sqlQueue' = Append(sqlQueue, Call("delete", j))
      /\ deleting' = [deleting EXCEPT ![j] = outcome]
      /\ finished' = finished \cup {j}
      /\ attempt' = IF rest = <<>> THEN [attempt EXCEPT ![j] = 0]
                    ELSE [attempt EXCEPT ![j] = 0, ![Head(rest)] = 1]
  BY <1>0 DEF EndTask, ForgetIfIdle, Delete
<1>2. /\ j \in Jobs /\ KeyOf[j] = KeyOf[q] /\ Queued(j) /\ InTasks(j)
      /\ queueFor[KeyOf[q]] = q
      /\ \A p \in Jobs : p # q => j \notin Members(tasks[p])
  BY <1>0, HeadTask
<1>3. tasks[q] \in Seq(Jobs) /\ Distinct(tasks[q])
  BY DEF DataType, TaskInv
<1>4. /\ rest \in Seq(Jobs) /\ Members(rest) = Members(tasks[q]) \ {j}
      /\ Distinct(rest) /\ Len(rest) = Len(tasks[q]) - 1
  BY <1>0, <1>3, TailMembers
<1>5. rest = <<>> <=> Len(tasks[q]) = 1
  <2>1. rest = <<>> <=> Len(rest) = 0
    BY <1>4, MembersType
  <2>2. Len(tasks[q]) \in Nat
    BY <1>3
  <2> QED
    BY <1>4, <2>1, <2>2
<1>6. rest # <<>> => Head(rest) \in Members(rest) /\ Head(rest) \in Jobs
  BY <1>4, MembersType
<1>7. /\ tasks' \in [Jobs -> Seq(Jobs)] /\ tasks'[q] = rest
      /\ \A p \in Jobs : p # q => tasks'[p] = tasks[p]
  BY <1>1, <1>4 DEF DataType
<1>8. /\ queueFor' \in [Keys -> Jobs \cup {NoJob}]
      /\ \A k \in Keys : queueFor'[k] =
            IF queueFor[k] = q /\ rest = <<>> THEN NoJob ELSE queueFor[k]
  BY <1>1, <1>5 DEF DataType
<1>9. /\ attempt' \in [Jobs -> 0 .. MaxAttempts]
      /\ rest # <<>> => attempt'[Head(rest)] > 0
      /\ \A i \in Jobs : i # j /\ attempt[i] > 0 => attempt'[i] > 0
  <2>1. /\ attempt \in [Jobs -> 0 .. MaxAttempts]
        /\ 0 \in 0 .. MaxAttempts /\ 1 \in 0 .. MaxAttempts /\ 1 > 0
    BY JobQueueAssumption DEF DataType
  <2>2. CASE rest = <<>>
    <3>1. attempt' = [attempt EXCEPT ![j] = 0]
      BY <1>1, <2>2
    <3> QED
      BY <1>2, <2>1, <2>2, <3>1
  <2>3. CASE rest # <<>>
    <3>1. PICK i : i = Head(rest)
      OBVIOUS
    <3>2. attempt' = [attempt EXCEPT ![j] = 0, ![i] = 1] /\ i \in Jobs
      BY <1>1, <1>6, <2>3, <3>1
    <3>3. /\ attempt' \in [Jobs -> 0 .. MaxAttempts] /\ attempt'[i] = 1
          /\ \A k \in Jobs : k # i /\ k # j => attempt'[k] = attempt[k]
      BY <1>2, <2>1, <3>2
    <3> QED
      BY <2>1, <3>1, <3>3
  <2> QED
    BY <2>2, <2>3
<1>10. QueuedKept
  BY DEF QueuedKept, Queued
<1>11. /\ ~InTasks(j)'
       /\ \A i \in Jobs : InTasks(i)' => InTasks(i)
  BY <1>2, <1>4, <1>7 DEF InTasks
<1>12. SqlInv' /\ sqlQueue' \in Seq(Calls)
  <2>1. CallsKept
    BY <1>1, <1>10, <1>11 DEF CallsKept
  <2>2. Call("delete", j) \notin Members(sqlQueue)
    BY <1>2 DEF SqlInv
  <2>3. started
    BY <1>2, JobsAreNumbers DEF ReaderInv, StreamInv, Queued, Unqueued
  <2>4. Queued(j)' /\ j \in finished'
    BY <1>1, <1>2, <1>10 DEF QueuedKept
  <2>5. "delete" \in {"insert", "delete"} /\ "delete" # "insert"
    OBVIOUS
  <2> QED
    BY <1>1, <1>2, <1>11, <2>1, <2>2, <2>3, <2>4, <2>5, OneSent
<1>13. TaskInv'
  <2>1. ASSUME NEW p \in Jobs, NEW i \in Members(tasks'[p])
        PROVE  KeyOf[i] = KeyOf[p] /\ Queued(i)'
    <3>1. i \in Members(tasks[p])
      BY <1>4, <1>7, <2>1
    <3>2. i \in Jobs /\ KeyOf[i] = KeyOf[p] /\ Queued(i)
      BY <3>1, MembersAreJobs DEF TaskInv
    <3> QED
      BY <1>10, <3>2 DEF QueuedKept
  <2>2. \A p \in Jobs : Distinct(tasks'[p])
    BY <1>4, <1>7 DEF TaskInv
  <2>3. ASSUME NEW p \in Jobs, tasks'[p] # <<>>
        PROVE  queueFor'[KeyOf[p]] = p /\ attempt'[Head(tasks'[p])] > 0
    <3>1. KeyOf[p] \in Keys
      BY KeyOfType
    <3>2. CASE p = q
      BY <1>2, <1>7, <1>8, <1>9, <2>3, <3>1, <3>2
    <3>3. CASE p # q
      <4>1. /\ tasks'[p] = tasks[p] /\ queueFor[KeyOf[p]] = p
            /\ attempt[Head(tasks[p])] > 0
            /\ Head(tasks[p]) \in Members(tasks[p]) /\ Head(tasks[p]) \in Jobs
        BY <1>7, <2>3, <3>3, MembersAreJobs DEF TaskInv
      <4> QED
        BY <1>2, <1>8, <1>9, <3>1, <3>3, <4>1
    <3> QED
      BY <3>2, <3>3
  <2>4. ASSUME NEW k \in Keys, queueFor'[k] # NoJob
        PROVE  KeyOf[queueFor'[k]] = k /\ tasks'[queueFor'[k]] # <<>>
    <3>1. queueFor'[k] = queueFor[k] /\ (queueFor[k] = q => rest # <<>>)
      BY <1>8, <2>4
    <3>2. /\ queueFor[k] \in Jobs
          /\ KeyOf[queueFor[k]] = k /\ tasks[queueFor[k]] # <<>>
      BY <2>4, <3>1 DEF TaskInv, DataType
    <3> QED
      BY <1>7, <3>1, <3>2
  <2> QED
    BY <2>1, <2>2, <2>3, <2>4 DEF TaskInv
<1>14. DataType'
  <2>1. deleting' \in [Jobs -> Outcomes \cup {"no"}]
    BY <1>1 DEF DataType, Outcomes
  <2> QED
    BY <1>7, <1>8, <1>9, <1>12, <2>1 DEF DataType
<1>15. ReaderInv' /\ EndInv'
  BY <1>1 DEF ReaderInv, EndInv
<1>16. StreamInv'
  BY <1>10 DEF StreamInv, QueuedKept, Unqueued, Unread
<1> QED
  BY <1>12, <1>13, <1>14, <1>15, <1>16

LEMMA RunSucceedsKeeps == ASSUME IInv, NEW q \in Jobs, RunSucceeds(q) PROVE IInv'
  BY EndTaskKeeps DEF RunSucceeds

LEMMA LastRunFailsKeeps == ASSUME IInv, NEW q \in Jobs, LastRunFails(q) PROVE IInv'
  BY EndTaskKeeps DEF LastRunFails

LEMMA RunFailsKeeps == ASSUME IInv, NEW q \in Jobs, RunFails(q) PROVE IInv'
<1> USE DEF IInv
<1>0. PICK j : j = Head(tasks[q])
  OBVIOUS
<1>1. /\ tasks[q] # <<>> /\ attempt[j] < MaxAttempts
      /\ attempt' = [attempt EXCEPT ![j] = @ + 1]
      /\ UNCHANGED <<storeVars, addVars, streamVars, queueFor, tasks, timesQueued,
                     endVars>>
  BY <1>0 DEF RunFails
<1> USE DEF storeVars, addVars, streamVars, endVars
<1>2. j \in Jobs
  BY <1>0, <1>1, MembersAreJobs
<1>3. /\ attempt' \in [Jobs -> 0 .. MaxAttempts]
      /\ \A i \in Jobs : attempt[i] > 0 => attempt'[i] > 0
  <2>1. attempt \in [Jobs -> 0 .. MaxAttempts] /\ MaxAttempts \in Nat
    BY JobQueueAssumption DEF DataType
  <2> QED
    BY <1>1, <1>2, <2>1
<1>4. QueuedKept
  BY <1>1 DEF QueuedKept, Queued
<1>5. \A i \in Jobs : InTasks(i)' <=> InTasks(i)
  BY <1>1 DEF InTasks
<1>6. TaskInv'
  <2>1. \A p \in Jobs : \A i \in Members(tasks[p]) :
           KeyOf[i] = KeyOf[p] /\ Queued(i)'
    BY <1>4, MembersAreJobs DEF TaskInv, QueuedKept
  <2>2. \A p \in Jobs : tasks[p] # <<>> =>
           queueFor[KeyOf[p]] = p /\ attempt'[Head(tasks[p])] > 0
    BY <1>3, MembersAreJobs DEF TaskInv
  <2> QED
    BY <1>1, <2>1, <2>2 DEF TaskInv
<1>7. SqlInv'
  <2>1. CallsKept
    BY <1>1, <1>4, <1>5 DEF CallsKept
  <2> QED
    BY <1>1, <2>1, NoneSent
<1>8. DataType'
  BY <1>1, <1>3 DEF DataType
<1>9. ReaderInv' /\ EndInv'
  BY <1>1 DEF ReaderInv, EndInv
<1>10. StreamInv'
  BY <1>1, <1>4 DEF StreamInv, QueuedKept, Unqueued, Unread
<1> QED
  BY <1>6, <1>7, <1>8, <1>9, <1>10

LEMMA DeleteAnswered ==
  ASSUME IInv, NEW j \in Jobs, Answered("delete", j),
         db \ {j} \subseteq db', db' \subseteq db,
         NEW settled \in {"no", "resolved", "rejected"},
         completion' = [completion EXCEPT ![j] = settled],
         settled # "no" => completion[j] # "no" \/ j \notin db',
         deleting' = [deleting EXCEPT ![j] = "no"],
         UNCHANGED <<addVars, streamVars, runVars, finished>>
  PROVE  IInv'
<1> USE DEF IInv, addVars, streamVars, runVars
<1>1. /\ Queued(j) /\ j \in finished /\ reader # "fetching"
      /\ started /\ reader # "off"
  BY AnsweredCall DEF SqlInv, ReaderInv
<1>2. QueuedKept
  BY DEF QueuedKept, Queued
<1>3. TaskInv' /\ \A i \in Jobs : InTasks(i)' <=> InTasks(i)
  BY <1>2, TasksUntouched
<1>4. SqlInv' /\ sqlQueue' \in Seq(Calls)
  <2>1. CallsKept
    BY <1>2, <1>3 DEF CallsKept
  <2> QED
    BY <1>1, <2>1, OneAnswered
<1>5. DataType'
  BY <1>4 DEF DataType
<1>6. ReaderInv'
  BY DEF ReaderInv
<1>7. StreamInv'
  BY <1>1, <1>2 DEF StreamInv, QueuedKept, Unqueued, Unread
<1>8. EndInv'
  <2>1. inserted' \ finished' \subseteq db'
    BY <1>1 DEF EndInv
  <2>2. ASSUME NEW i \in Jobs, completion'[i] # "no"
        PROVE  i \notin db' /\ adding'[i] \in Over
    <3>1. CASE i = j
      BY <1>1, <2>2, <3>1 DEF EndInv, DataType, Queued
    <3>2. CASE i # j
      BY <2>2, <3>2 DEF EndInv, DataType
    <3> QED
      BY <3>1, <3>2
  <2> QED
    BY <2>1, <2>2 DEF EndInv
<1> QED
  BY <1>3, <1>4, <1>5, <1>6, <1>7, <1>8

LEMMA DeleteDoneKeeps == ASSUME IInv, NEW j \in Jobs, DeleteDone(j) PROVE IInv'
<1>1. PICK settled \in {"no", "resolved", "rejected"} :
         settled = IF deleting[j] = "success" THEN "resolved" ELSE "rejected"
  OBVIOUS
<1>2. /\ Answered("delete", j) /\ db' = db \ {j}
      /\ completion' = [completion EXCEPT ![j] = settled]
      /\ deleting' = [deleting EXCEPT ![j] = "no"]
      /\ UNCHANGED <<addVars, streamVars, runVars, finished>>
  BY <1>1 DEF DeleteDone
<1> QED
  BY <1>2, DeleteAnswered

LEMMA DeleteRejectedKeeps == ASSUME IInv, NEW j \in Jobs, DeleteRejected(j) PROVE IInv'
<1>1. PICK settled \in {"no", "resolved", "rejected"} : settled = completion[j]
  BY DEF IInv, DataType
<1>2. /\ Answered("delete", j) /\ db \ {j} \subseteq db' /\ db' \subseteq db
      /\ deleting' = [deleting EXCEPT ![j] = "no"]
      /\ UNCHANGED <<addVars, streamVars, runVars, completion, finished>>
  BY DEF DeleteRejected
<1>3. completion' = [completion EXCEPT ![j] = settled]
  BY <1>1, <1>2 DEF IInv, DataType
<1> QED
  BY <1>1, <1>2, <1>3, DeleteAnswered

-----------------------------------------------------------------------------
(* Crashes, and the theorems *)

LEMMA CrashKeeps == ASSUME IInv, Crash PROVE IInv'
<1> USE DEF IInv
<1>1. /\ sqlQueue' = <<>>
      /\ adding' = [j \in Jobs |-> IF adding[j] \in {"no", "done"} THEN adding[j]
                                   ELSE "rejected"]
      /\ ~started' /\ ~fetched' /\ started' \in BOOLEAN /\ fetched' \in BOOLEAN
      /\ backlog' = {} /\ asyncQueue' = <<>> /\ reader' = "off" /\ position' = 0
      /\ queueFor' = [k \in Keys |-> NoJob]
      /\ tasks' = [j \in Jobs |-> <<>>] /\ attempt' = [j \in Jobs |-> 0]
      /\ deleting' = [j \in Jobs |-> "no"]
      /\ completion' = [j \in Jobs |-> "no"]
      /\ timesQueued' = [j \in Jobs |-> 0]
      /\ UNCHANGED <<db, created, inserted, finished>>
  BY DEF Crash
<1>2. DataType'
  BY <1>1, JobQueueAssumption DEF DataType, Over, Unadded
<1>3. Members(asyncQueue') = {} /\ Distinct(asyncQueue') /\ Unread' = {}
  <2>1. Members(asyncQueue') = {} /\ Distinct(asyncQueue')
    BY <1>1, EmptyMembers
  <2>2. asyncQueue' \in Seq(Jobs)
    BY <1>2 DEF DataType
  <2>3. Rest(asyncQueue', 0) = {}
    BY <2>1, <2>2, RestMembers
  <2> QED
    BY <1>1, <2>1, <2>3 DEF Unread
<1>4. SqlInv'
  BY <1>1, EmptyMembers DEF SqlInv
<1>5. ReaderInv'
  BY <1>1 DEF ReaderInv, Iterating, DataType
<1>6. TaskInv'
  BY <1>1, EmptyMembers DEF TaskInv
<1>7. StreamInv'
  <2>1. \A j \in Jobs : Unqueued(j)'
    BY <1>1 DEF Unqueued
  <2>2. \A j \in Jobs : j > created' => adding'[j] = "no"
    BY <1>1 DEF StreamInv
  <2>3. \A j \in db' : adding'[j] \in Over
    BY <1>1 DEF StreamInv, DataType, Over
  <2> QED
    BY <1>1, <1>3, <2>1, <2>2, <2>3 DEF StreamInv, Over
<1>8. EndInv'
  BY <1>1 DEF EndInv
<1> QED
  BY <1>2, <1>4, <1>5, <1>6, <1>7, <1>8

LEMMA InitIInv == Init => IInv
<1> SUFFICES ASSUME Init PROVE IInv
  OBVIOUS
<1> USE DEF Init
<1>1. DataType
  <2>1. <<>> \in Seq(Jobs) /\ <<>> \in Seq(Calls) /\ 0 \in 0 .. MaxAttempts
    BY JobQueueAssumption
  <2>2. position \in 0 .. Len(asyncQueue)
    OBVIOUS
  <2>3. started \in BOOLEAN /\ fetched \in BOOLEAN
    OBVIOUS
  <2> QED
    BY <2>1, <2>2, <2>3 DEF DataType, Unadded
<1>2. Members(asyncQueue) = {} /\ Distinct(asyncQueue) /\ Unread = {}
  BY <1>1, EmptyMembers, MembersAreJobs
<1>3. SqlInv
  BY EmptyMembers DEF SqlInv
<1>4. ReaderInv
  BY DEF ReaderInv, Iterating
<1>5. StreamInv
  BY <1>2 DEF StreamInv, Unqueued
<1>6. TaskInv
  BY EmptyMembers DEF TaskInv
<1>7. EndInv
  BY DEF EndInv
<1> QED
  BY <1>1, <1>3, <1>4, <1>5, <1>6, <1>7 DEF IInv

LEMMA StutterKeeps == ASSUME IInv, UNCHANGED vars PROVE IInv'
<1> USE DEF vars, storeVars, addVars, streamVars, runVars, endVars, IInv
<1>1. QueuedKept
  BY DEF QueuedKept, Queued
<1>2. TaskInv' /\ \A i \in Jobs : InTasks(i)' <=> InTasks(i)
  BY <1>1, TasksUntouched
<1>3. SqlInv'
  <2>1. CallsKept
    BY <1>1, <1>2 DEF CallsKept
  <2> QED
    BY <2>1, NoneSent
<1>4. DataType' /\ ReaderInv' /\ EndInv'
  BY DEF DataType, ReaderInv, EndInv
<1>5. StreamInv'
  BY <1>1 DEF StreamInv, QueuedKept, Unqueued, Unread
<1> QED
  BY <1>2, <1>3, <1>4, <1>5

LEMMA NextIInv == IInv /\ [Next]_vars => IInv'
<1> SUFFICES ASSUME IInv, [Next]_vars PROVE IInv'
  OBVIOUS
<1>1. CASE StreamJobs
  BY <1>1, StreamJobsKeeps
<1>2. CASE Create
  BY <1>2, CreateKeeps
<1>3. CASE StreamProgress
  BY <1>3, FetchDoneKeeps, EnqueueFetchedKeeps, EndOfBacklogKeeps, EnqueueAddedKeeps,
     ExhaustedKeeps, EmptyAsyncQueueKeeps DEF StreamProgress
<1>4. CASE FetchRejected
  BY <1>4, FetchRejectedKeeps
<1>5. ASSUME NEW j \in Jobs, Progress(j) PROVE IInv'
  BY <1>5, InsertDoneKeeps, SendInsertKeeps, AddToAsyncQueueKeeps, DeleteDoneKeeps
  DEF Progress
<1>6. ASSUME NEW q \in Jobs, RunProgress(q) PROVE IInv'
  BY <1>6, RunSucceedsKeeps, RunFailsKeeps, LastRunFailsKeeps DEF RunProgress
<1>7. ASSUME NEW j \in Jobs, InsertRejected(j) \/ DeleteRejected(j) PROVE IInv'
  BY <1>7, InsertRejectedKeeps, DeleteRejectedKeeps
<1>8. CASE Crash
  BY <1>8, CrashKeeps
<1>9. CASE UNCHANGED vars
  BY <1>9, StutterKeeps
<1> QED
  BY <1>1, <1>2, <1>3, <1>4, <1>5, <1>6, <1>7, <1>8, <1>9 DEF Next

LEMMA Invariance == Spec => []IInv
  BY InitIInv, NextIInv, PTL DEF Spec

\* The values of the variables, and that the running jobs are the ones that
\* have an attempt under way.
THEOREM TypeCorrect == Spec => []TypeOK
<1>1. IInv => TypeOK
  <2> SUFFICES ASSUME IInv PROVE TypeOK
    OBVIOUS
  <2>1. \A j \in Running : attempt[j] > 0
    BY DEF Running, IInv, TaskInv
  <2>2. {started, fetched} \subseteq BOOLEAN
    BY DEF IInv, DataType
  <2> QED
    BY <2>1, <2>2
    DEF TypeOK, IInv, DataType, Calls, Fetch, Unadded, Over, Iterating
<1> QED
  BY <1>1, Invariance, PTL

\* The fetch of streamJobs and the calls of add never give a process one job
\* twice: the fetch precedes every insert of its process.
THEOREM NoJobTwice == Spec => []QueuedOnce
<1>1. IInv => QueuedOnce
  BY DEF IInv, StreamInv, Unqueued, Queued, QueuedOnce
<1> QED
  BY <1>1, Invariance, PTL

\* InMemoryQueues never has two PQueues at work for one conversation.
THEOREM OneRunPerConversation == Spec => []OneAtATime
<1>1. IInv => OneAtATime
  <2> SUFFICES ASSUME IInv, NEW p \in Jobs, NEW q \in Jobs,
                      tasks[p] # <<>>, tasks[q] # <<>>,
                      KeyOf[Head(tasks[p])] = KeyOf[Head(tasks[q])]
               PROVE  Head(tasks[p]) = Head(tasks[q])
    BY DEF OneAtATime, Running
  <2>1. KeyOf[p] = KeyOf[q]
    BY HeadTask DEF IInv
  <2> QED
    BY <2>1, HeadTask DEF IInv
<1> QED
  BY <1>1, Invariance, PTL

\* No crash and no rejected SQL call loses the row of a job with runs to come.
THEOREM NoJobForgotten == Spec => []KeptUntilFinished
<1>1. IInv => KeptUntilFinished
  BY DEF IInv, EndInv, KeptUntilFinished
<1> QED
  BY <1>1, Invariance, PTL

\* A caller that sees job.completion settle will not see the job run again.
THEOREM NoSettledJobStays == Spec => []SettledIsGone
<1>1. IInv => SettledIsGone
  BY DEF IInv, EndInv, SettledIsGone
<1> QED
  BY <1>1, Invariance, PTL

-----------------------------------------------------------------------------
(***************************************************************************)
(* The jobs of a conversation start in the order they were added in,        *)
(* through the fetch, the AsyncQueue, the PQueue and any number of crashes. *)
(*                                                                          *)
(* Each of the three places keeps the order, but a job and one added before *)
(* it may be in different places.  That the earlier place is emptied first  *)
(* is what is to be shown: the backlog before the AsyncQueue is read, and   *)
(* whatever the reader passes into the PQueue of its conversation.          *)
(***************************************************************************)

\* There is nothing more to wait for: a run was started, none is to come, or the
\* AsyncQueue lost the job.
Settled(i) == i \in ran \cup finished \cup dropped

\* A job whose add has returned is older, was inserted, and stays so; what runs has been
\* added, or its add has failed.
History ==
    /\ addedBefore \in [Jobs -> SUBSET Jobs]
    /\ \A j \in Jobs : \A i \in addedBefore[j] : i < j /\ adding[i] = "done"
    /\ \A j \in Jobs :
          adding[j] \in {"queueing", "done"} \/ (adding[j] = "awaitFetch" /\ j \in OwnInsert)
             => j \in inserted
    /\ \A j \in ran : j \in Jobs /\ adding[j] \in Over

\* Once the rows are fetched, a job that was added is somewhere on its way.
Placed ==
    fetched =>
        \A i \in Jobs :
            adding[i] = "done" => Settled(i) \/ i \in backlog \/ i \in Unread \/ InTasks(i)

\* Behind a job in the AsyncQueue, and in the AsyncQueue while it is in the backlog, is
\* none that was added before it.
ReadOrder ==
    /\ \A n \in 1 .. Len(asyncQueue) : \A m \in n .. Len(asyncQueue) :
          asyncQueue[m] \notin addedBefore[asyncQueue[n]]
    /\ \A j \in backlog : \A i \in Members(asyncQueue) : i \notin addedBefore[j]

\* What was added before a task, and is not settled, is a task before it.
Ordered(q, s) ==
    \A n \in 1 .. Len(s) : \A i \in addedBefore[s[n]] :
        KeyOf[i] = KeyOf[q] => Settled(i) \/ \E m \in 1 .. (n - 1) : s[m] = i

TaskOrder ==
    \A q \in Jobs : Ordered(q, tasks[q]) /\ (tasks[q] # <<>> => Head(tasks[q]) \in ran)

OInv == History /\ Placed /\ ReadOrder /\ TaskOrder /\ StartedInOrder

-----------------------------------------------------------------------------
(* Steps that start no run *)

\* Nothing that has been settled, or has been added, is taken back.
HistoryKept ==
    /\ ran \subseteq ran' /\ finished \subseteq finished' /\ dropped \subseteq dropped'
    /\ \A j \in Jobs : adding[j] \in Over => addedBefore'[j] = addedBefore[j]

LEMMA OrderStays ==
  ASSUME HistoryKept, NEW q \in Jobs, NEW s \in Seq(Jobs), Ordered(q, s),
         \A j \in Members(s) : adding[j] \in Over
  PROVE  Ordered(q, s)'
<1>1. \A n \in 1 .. Len(s) : s[n] \in Jobs /\ s[n] \in Members(s)
  BY DEF Members
<1> QED
  BY <1>1 DEF Ordered, HistoryKept, Settled

LEMMA TasksStay ==
  ASSUME IInv, OInv, HistoryKept, UNCHANGED <<tasks, ran>>
  PROVE  TaskOrder' /\ StartedInOrder'
<1>1. ASSUME NEW q \in Jobs
      PROVE  Ordered(q, tasks[q])' /\ (tasks'[q] # <<>> => Head(tasks'[q]) \in ran')
  <2>1. tasks[q] \in Seq(Jobs) /\ tasks'[q] = tasks[q]
    BY DEF IInv, DataType
  <2>2. \A j \in Members(tasks[q]) : adding[j] \in Over
    BY DEF IInv, TaskInv, Queued
  <2>3. Ordered(q, tasks[q])
    BY DEF OInv, TaskOrder
  <2> HIDE DEF Ordered
  <2>4. Ordered(q, tasks[q])'
    BY <2>1, <2>2, <2>3, OrderStays, SMTT(30) DEF Ordered, Settled
  <2> QED
    BY <2>1, <2>4 DEF OInv, TaskOrder
<1>2. StartedInOrder'
  BY DEF OInv, History, StartedInOrder, HistoryKept
<1> QED
  BY <1>1, <1>2 DEF TaskOrder

\* add before its last step, and all that reads no job and ends none
LEMMA QuietKeeps ==
  ASSUME IInv, OInv, IInv',
         UNCHANGED <<tasks, ran, finished, dropped, addedBefore>>,
         UNCHANGED <<fetched, backlog, asyncQueue, position>>,
         \A j \in Jobs : /\ adding'[j] = "done" <=> adding[j] = "done"
                         /\ adding[j] \in Over => adding'[j] \in Over
                         /\ adding'[j] \in {"queueing", "done"}
                            \/ (adding'[j] = "awaitFetch" /\ j \in OwnInsert)
                              => j \in inserted'
  PROVE  OInv'
<1>1. HistoryKept
  BY DEF HistoryKept
<1>2. TaskOrder' /\ StartedInOrder'
  BY <1>1, TasksStay
<1>3. History'
  BY DEF OInv, History
<1>4. Placed'
  BY DEF OInv, Placed, Settled, InTasks, Unread
<1>5. ReadOrder'
  BY DEF OInv, ReadOrder, Members
<1> QED
  BY <1>2, <1>3, <1>4, <1>5 DEF OInv

LEMMA CreateOrder ==
  ASSUME IInv, OInv, IInv', Create
  PROVE  OInv'
<1> DEFINE k == created + 1
<1>1. /\ k \in Jobs /\ adding[k] = "no" /\ created \in Nat
      /\ UNCHANGED <<tasks, ran, finished, dropped, inserted, fetched, backlog,
                     asyncQueue, position>>
      /\ addedBefore' = [addedBefore EXCEPT ![k] = {i \in Jobs : adding[i] = "done"}]
  <2>1. k \in Jobs /\ created \in Nat
    BY JobsAreNumbers DEF Create, IInv, DataType
  <2>2. adding[k] = "no"
    BY <2>1 DEF IInv, StreamInv
  <2> QED
    BY <2>1, <2>2 DEF Create, streamVars, runVars, endVars
<1>2. /\ \A j \in Jobs : j # k => adding'[j] = adding[j]
      /\ adding'[k] = (IF k \in OwnInsert THEN "inserting" ELSE "awaitFetch")
  BY <1>1 DEF Create, IInv, DataType
<1>3. /\ addedBefore' \in [Jobs -> SUBSET Jobs]
      /\ addedBefore'[k] = {i \in Jobs : adding[i] = "done"}
      /\ \A j \in Jobs : j # k => addedBefore'[j] = addedBefore[j]
  BY <1>1 DEF OInv, History
<1> HIDE DEF k
<1>4. HistoryKept
  BY <1>1, <1>3 DEF HistoryKept, Over
<1>5. TaskOrder' /\ StartedInOrder'
  BY <1>1, <1>4, TasksStay
<1>6. History'
  <2>1. ASSUME NEW j \in Jobs, NEW i \in addedBefore'[j]
        PROVE  i < j /\ adding'[i] = "done"
    <3>1. CASE j = k
      <4>1. i \in Jobs /\ adding[i] = "done" /\ i # k
        BY <1>1, <1>3, <2>1, <3>1
      <4>2. ~(i > created) /\ i \in Nat
        BY <4>1, JobsAreNumbers DEF IInv, StreamInv
      <4> QED
        BY <1>1, <1>2, <3>1, <4>1, <4>2 DEF k
    <3>2. CASE j # k
      <4>1. i \in addedBefore[j] /\ i \in Jobs
        BY <1>3, <2>1, <3>2 DEF OInv, History
      <4> QED
        BY <1>1, <1>2, <4>1 DEF OInv, History
    <3> QED
      BY <3>1, <3>2
  <2>2. \A j \in Jobs :
          adding'[j] \in {"queueing", "done"} \/ (adding'[j] = "awaitFetch" /\ j \in OwnInsert)
             => j \in inserted'
    BY <1>1, <1>2 DEF OInv, History
  <2>3. \A j \in ran' : j \in Jobs /\ adding'[j] \in Over
    BY <1>1, <1>2 DEF OInv, History, Over
  <2> QED
    BY <1>3, <2>1, <2>2, <2>3 DEF History
<1>7. Placed'
  BY <1>1, <1>2 DEF OInv, Placed, Settled, InTasks, Unread
<1>8. ReadOrder'
  <2>1. \A j \in Members(asyncQueue) : j \in Jobs /\ j # k
    BY <1>1, MembersAreJobs DEF IInv, StreamInv
  <2>2. \A j \in backlog : j \in Jobs /\ j # k
    BY <1>1 DEF IInv, StreamInv, DataType, Over
  <2>3. \A n \in 1 .. Len(asyncQueue) : asyncQueue[n] \in Members(asyncQueue)
    BY DEF Members
  <2> QED
    BY <1>1, <1>3, <2>1, <2>2, <2>3 DEF OInv, ReadOrder
<1> QED
  BY <1>5, <1>6, <1>7, <1>8 DEF OInv

\* The call of add returns: nothing was created after that, so far.
LEMMA AddOrder ==
  ASSUME IInv, OInv, IInv', NEW x \in Jobs, AddToAsyncQueue(x)
  PROVE  OInv'
<1>1. /\ adding[x] \in {"queueing", "awaitFetch"} /\ x \in inserted
      /\ adding' = [adding EXCEPT ![x] = "done"]
      /\ asyncQueue' = Append(asyncQueue, x)
      /\ UNCHANGED <<tasks, ran, finished, dropped, inserted, fetched, backlog,
                     addedBefore>>
      /\ fetched
  BY DEF AddToAsyncQueue, ReadyToQueue, OInv, History, IInv, ReaderInv, runVars, endVars
<1>2. adding'[x] = "done" /\ \A j \in Jobs : j # x => adding'[j] = adding[j]
  BY <1>1 DEF IInv, DataType
<1>3. position' = position
  BY <1>1 DEF AddToAsyncQueue, IInv, ReaderInv
<1>4. /\ asyncQueue \in Seq(Jobs) /\ position \in 0 .. Len(asyncQueue)
      /\ Members(asyncQueue') = Members(asyncQueue) \cup {x}
      /\ Unread' = Unread \cup {x}
  <2>1. asyncQueue \in Seq(Jobs) /\ position \in 0 .. Len(asyncQueue)
    BY DEF IInv, DataType
  <2>2. /\ Members(asyncQueue') = Members(asyncQueue) \cup {x}
        /\ Rest(asyncQueue', position) = Rest(asyncQueue, position) \cup {x}
    BY <1>1, <2>1, AppendMembers
  <2> QED
    BY <1>3, <2>1, <2>2 DEF Unread
<1>5. \A j \in Jobs : x \notin addedBefore[j]
  BY <1>1 DEF OInv, History
<1>6. HistoryKept
  BY <1>1 DEF HistoryKept
<1>7. TaskOrder' /\ StartedInOrder'
  BY <1>1, <1>6, TasksStay
<1>8. History'
  <2>1. ASSUME NEW j \in Jobs, NEW i \in addedBefore'[j]
        PROVE  i < j /\ adding'[i] = "done"
    BY <1>1, <1>2 DEF OInv, History
  <2>2. \A j \in Jobs :
          adding'[j] \in {"queueing", "done"} \/ (adding'[j] = "awaitFetch" /\ j \in OwnInsert)
             => j \in inserted'
    BY <1>1, <1>2 DEF OInv, History
  <2>3. \A j \in ran' : j \in Jobs /\ adding'[j] \in Over
    BY <1>1, <1>2 DEF OInv, History, Over
  <2> QED
    BY <1>1, <2>1, <2>2, <2>3 DEF OInv, History
<1>9. Placed'
  BY <1>1, <1>2, <1>4 DEF OInv, Placed, Settled, InTasks
<1>10. ReadOrder'
  <2>1. /\ Len(asyncQueue') = Len(asyncQueue) + 1 /\ asyncQueue'[Len(asyncQueue) + 1] = x
        /\ \A n \in 1 .. Len(asyncQueue) :
              asyncQueue'[n] = asyncQueue[n] /\ asyncQueue[n] \in Jobs
    BY <1>1, <1>4
  <2>2. ASSUME NEW n \in 1 .. Len(asyncQueue'), NEW m \in n .. Len(asyncQueue')
        PROVE  asyncQueue'[m] \notin addedBefore'[asyncQueue'[n]]
    <3>1. Len(asyncQueue) \in Nat
      BY <1>4
    <3>2. CASE m = Len(asyncQueue) + 1
      <4>1. asyncQueue'[n] \in Jobs
        BY <2>1, <3>1
      <4> QED
        BY <1>1, <1>5, <2>1, <3>2, <4>1
    <3>3. CASE m \in 1 .. Len(asyncQueue)
      <4>1. n \in 1 .. Len(asyncQueue) /\ m \in n .. Len(asyncQueue)
        BY <3>1, <3>3
      <4> QED
        BY <1>1, <2>1, <3>3, <4>1 DEF OInv, ReadOrder
    <3> QED
      BY <2>1, <3>1, <3>2, <3>3
  <2>3. \A j \in backlog' : \A i \in Members(asyncQueue') : i \notin addedBefore'[j]
    BY <1>1, <1>4, <1>5, SMTT(30) DEF OInv, ReadOrder, IInv, DataType
  <2> QED
    BY <2>2, <2>3 DEF ReadOrder
<1> QED
  BY <1>7, <1>8, <1>9, <1>10 DEF OInv

-----------------------------------------------------------------------------
(* The reader *)

\* The rows are all that was added by earlier processes and is not over.
LEMMA FetchOrder ==
  ASSUME IInv, OInv, IInv', FetchDone
  PROVE  OInv'
<1>1. /\ backlog' = db
      /\ UNCHANGED <<db, adding, addedBefore, inserted, asyncQueue, position, dropped,
                     tasks, ran, finished>>
  BY DEF FetchDone, addVars, runVars, endVars
<1>2. HistoryKept
  BY <1>1 DEF HistoryKept
<1>3. TaskOrder' /\ StartedInOrder'
  BY <1>1, <1>2, TasksStay
<1>4. History'
  BY <1>1 DEF OInv, History
<1>5. Placed'
  <2>1. \A i \in Jobs : adding[i] = "done" => i \in inserted
    BY DEF OInv, History
  <2>2. inserted \ finished \subseteq db
    BY DEF IInv, EndInv
  <2> QED
    BY <1>1, <2>1, <2>2 DEF Placed, Settled
<1>6. asyncQueue = <<>> /\ Members(asyncQueue) = {}
  <2>1. ~fetched
    <3>1. reader = "fetching"
      BY AnsweredCall DEF FetchDone, IInv
    <3> QED
      BY <3>1 DEF IInv, ReaderInv, Iterating
  <2> QED
    BY <2>1, EmptyMembers DEF IInv, ReaderInv
<1>7. ReadOrder'
  BY <1>1, <1>6 DEF ReadOrder
<1> QED
  BY <1>3, <1>4, <1>5, <1>7 DEF OInv

\* What was in the array is lost with it.
LEMMA EmptyOrder ==
  ASSUME IInv, OInv, IInv', EmptyAsyncQueue
  PROVE  OInv'
<1>1. /\ dropped' = dropped \cup Unread
      /\ asyncQueue' = <<>> /\ position' = 0
      /\ UNCHANGED <<adding, addedBefore, inserted, fetched, backlog, tasks, ran,
                     finished>>
  BY DEF EmptyAsyncQueue, addVars, runVars, endVars, Unread, Rest
<1>2. HistoryKept
  BY <1>1 DEF HistoryKept
<1>3. TaskOrder' /\ StartedInOrder'
  BY <1>1, <1>2, TasksStay
<1>4. History'
  BY <1>1 DEF OInv, History
<1>5. Placed'
  BY <1>1 DEF OInv, Placed, Settled, InTasks
<1>6. ReadOrder'
  BY <1>1, EmptyMembers DEF ReadOrder
<1> QED
  BY <1>3, <1>4, <1>5, <1>6 DEF OInv

\* A job that the reader passes, when those added before it are settled or tasks.
LEMMA EnqueueOrder ==
  ASSUME IInv, OInv, IInv', NEW j \in Jobs, Unqueued(j), adding[j] \in Over, Enqueue(j),
         UNCHANGED <<addVars, dropped>>,
         \A i \in addedBefore[j] : KeyOf[i] = KeyOf[j] => Settled(i) \/ InTasks(i)
  PROVE  /\ TaskOrder' /\ StartedInOrder' /\ History'
         /\ \A i \in Jobs : Settled(i) \/ InTasks(i) \/ i = j => (Settled(i) \/ InTasks(i))'
<1> USE DEF addVars
<1>1. CASE j \in Malformed
  <2>1. finished' = finished \cup {j} /\ UNCHANGED <<tasks, ran>>
    BY <1>1 DEF Enqueue, Delete
  <2>2. HistoryKept
    BY <2>1 DEF HistoryKept
  <2>3. TaskOrder' /\ StartedInOrder'
    BY <2>1, <2>2, TasksStay
  <2>4. History'
    BY <2>1 DEF OInv, History
  <2> QED
    BY <2>1, <2>3, <2>4 DEF Settled, InTasks
<1>2. CASE j \notin Malformed
  <2> DEFINE key == KeyOf[j]
             q == IF queueFor[key] = NoJob THEN j ELSE queueFor[key]
             s == Append(tasks[q], j)
  <2>1. /\ q \in Jobs /\ key \in Keys /\ KeyOf[q] = key
        /\ tasks[q] = <<>> <=> queueFor[key] = NoJob
    BY KeyOfType, JobsAreNumbers DEF IInv, DataType, TaskInv
  <2>2. /\ tasks' = [tasks EXCEPT ![q] = s]
        /\ ran' = IF tasks[q] = <<>> THEN ran \cup {j} ELSE ran
        /\ finished' = finished
    <3>1. CASE queueFor[key] = NoJob
      BY <1>2, <2>1, <3>1 DEF Enqueue, StartOn, IInv, DataType
    <3>2. CASE queueFor[key] # NoJob
      BY <1>2, <2>1, <3>2 DEF Enqueue, StartOn
    <3> QED
      BY <3>1, <3>2
  <2>3. \* who waits is in the PQueue of the conversation
        ASSUME NEW i \in addedBefore[j], KeyOf[i] = key, ~Settled(i)
        PROVE  i \in Members(tasks[q])
    <3>1. PICK p \in Jobs : i \in Members(tasks[p])
      BY <2>3 DEF InTasks
    <3>2. KeyOf[p] = key /\ tasks[p] # <<>>
      BY <2>3, <3>1, EmptyMembers DEF IInv, TaskInv
    <3>3. queueFor[key] = p /\ p # NoJob
      BY <3>2, JobsAreNumbers DEF IInv, TaskInv
    <3> QED
      BY <3>1, <3>3
  <2> HIDE DEF q, key
  <2>4. tasks[q] \in Seq(Jobs) /\ tasks \in [Jobs -> Seq(Jobs)]
    BY <2>1 DEF IInv, DataType
  <2>5. /\ s \in Seq(Jobs) /\ s # <<>> /\ Len(s) = Len(tasks[q]) + 1
        /\ Members(s) = Members(tasks[q]) \cup {j}
        /\ Head(s) = IF tasks[q] = <<>> THEN j ELSE Head(tasks[q])
    <3>1. s \in Seq(Jobs)
      BY <2>4
    <3>2. Len(s) = Len(tasks[q]) + 1
      BY <2>4
    <3>3. s # <<>>
      <4>1. Len(s) # 0
        BY <2>4, <3>2
      <4> QED
        BY <4>1
    <3>4. Members(s) = Members(tasks[q]) \cup {j}
      BY <2>4, AppendMembers
    <3>5. Head(s) = IF tasks[q] = <<>> THEN j ELSE Head(tasks[q])
      BY <2>4
    <3> QED
      BY <3>1, <3>2, <3>3, <3>4, <3>5
  <2>6. /\ Len(tasks[q]) \in Nat /\ s[Len(tasks[q]) + 1] = j
        /\ \A n \in 1 .. Len(tasks[q]) : s[n] = tasks[q][n]
    BY <2>4
  <2> HIDE DEF s
  <2>7. tasks'[q] = s /\ \A p \in Jobs : p # q => tasks'[p] = tasks[p]
    BY <2>1, <2>2, <2>4
  <2>8. HistoryKept
    BY <2>2 DEF HistoryKept
  <2>9. Ordered(q, s)
    <3>1. ASSUME NEW n \in 1 .. Len(s), NEW i \in addedBefore[s[n]], KeyOf[i] = KeyOf[q],
                 ~Settled(i)
          PROVE  \E m \in 1 .. (n - 1) : s[m] = i
      <4>1. CASE n = Len(tasks[q]) + 1
        <5>1. i \in Members(tasks[q])
          BY <2>1, <2>3, <2>6, <3>1, <4>1
        <5>2. PICK m \in 1 .. Len(tasks[q]) : tasks[q][m] = i
          BY <5>1 DEF Members
        <5>3. m \in 1 .. (n - 1) /\ s[m] = i
          BY <2>6, <4>1, <5>2
        <5> QED
          BY <5>3
      <4>2. CASE n \in 1 .. Len(tasks[q])
        <5>1. i \in addedBefore[tasks[q][n]]
          BY <2>6, <3>1, <4>2
        <5>2. PICK m \in 1 .. (n - 1) : tasks[q][m] = i
          BY <2>1, <3>1, <4>2, <5>1 DEF OInv, TaskOrder, Ordered
        <5>3. m \in 1 .. Len(tasks[q])
          BY <2>6, <4>2, <5>2
        <5> QED
          BY <2>6, <5>2, <5>3
      <4> QED
        BY <2>5, <2>6, <4>1, <4>2
    <3> QED
      BY <3>1 DEF Ordered
  <2>10. TaskOrder'
    <3>1. ASSUME NEW p \in Jobs
          PROVE  Ordered(p, tasks[p])'
      <4>1. /\ tasks'[p] \in Seq(Jobs) /\ Ordered(p, tasks'[p])
            /\ \A i \in Members(tasks'[p]) : adding[i] \in Over
        <5>1. CASE p = q
          <6>1. \A i \in Members(tasks[q]) : adding[i] \in Over
            BY <2>1 DEF IInv, TaskInv, Queued
          <6> QED
            BY <2>5, <2>7, <2>9, <5>1, <6>1
        <5>2. CASE p # q
          BY <2>4, <2>7, <5>2 DEF OInv, TaskOrder, IInv, TaskInv, Queued
        <5> QED
          BY <5>1, <5>2
      <4> DEFINE t == tasks'[p]
      <4> HIDE DEF t
      <4>2. t \in Seq(Jobs) /\ Ordered(p, t) /\ \A i \in Members(t) : adding[i] \in Over
        BY <4>1 DEF t
      <4>3. \A n \in 1 .. Len(t) : t[n] \in Jobs /\ t[n] \in Members(t)
        BY <4>2 DEF Members
      <4>4. \A n \in 1 .. Len(t) : \A i \in addedBefore'[t[n]] :
               KeyOf[i] = KeyOf[p] => Settled(i)' \/ \E m \in 1 .. (n - 1) : t[m] = i
        BY <2>8, <4>2, <4>3 DEF Ordered, HistoryKept, Settled
      <4> QED
        BY <4>4 DEF Ordered, t
    <3>2. ASSUME NEW p \in Jobs, tasks'[p] # <<>>
          PROVE  Head(tasks'[p]) \in ran'
      BY <2>2, <2>5, <2>7, <3>2 DEF OInv, TaskOrder
    <3> QED
      BY <3>1, <3>2 DEF TaskOrder
  <2>11. StartedInOrder'
    <3>1. tasks[q] = <<>> => \A i \in addedBefore[j] : KeyOf[i] = key => Settled(i)
      BY <2>3, EmptyMembers
    <3> QED
      BY <2>2, <3>1 DEF OInv, History, StartedInOrder, Settled, key
  <2>12. History'
    BY <2>2 DEF OInv, History
  <2>13. InTasks(j)' /\ \A i \in Jobs : InTasks(i) => InTasks(i)'
    <3>1. \A p \in Jobs : Members(tasks[p]) \subseteq Members(tasks'[p])
      BY <2>5, <2>7
    <3>2. j \in Members(tasks'[q])
      BY <2>5, <2>7
    <3> QED
      BY <2>1, <3>1, <3>2 DEF InTasks
  <2>14. \A i \in Jobs : Settled(i) => Settled(i)'
    BY <2>8 DEF Settled, HistoryKept
  <2> QED
    BY <2>10, <2>11, <2>12, <2>13, <2>14
<1> QED
  BY <1>1, <1>2

\* The backlog is read by timestamp, and the AsyncQueue has none added before.
LEMMA EnqueueFetchedOrder ==
  ASSUME IInv, OInv, IInv', NEW j \in Jobs, EnqueueFetched(j)
  PROVE  OInv'
<1>1. /\ reader = "backlog" /\ j \in backlog /\ NextFetched(j) /\ Enqueue(j)
      /\ backlog' = backlog \ {j}
      /\ UNCHANGED <<addVars, fetched, asyncQueue, position, dropped>>
  BY DEF EnqueueFetched
<1>2. Unqueued(j) /\ adding[j] \in Over /\ fetched
  BY <1>1 DEF IInv, StreamInv, ReaderInv, Iterating
<1>3. ASSUME NEW i \in addedBefore[j]
      PROVE  Settled(i) \/ InTasks(i)
  <2>1. i \in Jobs /\ i < j /\ adding[i] = "done"
    BY DEF OInv, History
  <2>2. i \notin backlog
    BY <1>1, <2>1, JobsAreNumbers DEF NextFetched
  <2>3. i \notin Unread
    BY <1>1, MembersAreJobs DEF OInv, ReadOrder, IInv
  <2> QED
    BY <1>2, <2>1, <2>2, <2>3 DEF OInv, Placed
<1>4. /\ TaskOrder' /\ StartedInOrder' /\ History'
      /\ \A i \in Jobs : Settled(i) \/ InTasks(i) \/ i = j => (Settled(i) \/ InTasks(i))'
  BY <1>1, <1>2, <1>3, EnqueueOrder
<1>5. Placed'
  BY <1>1, <1>4 DEF OInv, Placed, addVars, Unread
<1>6. ReadOrder'
  BY <1>1 DEF OInv, ReadOrder, addVars, Members
<1> QED
  BY <1>4, <1>5, <1>6 DEF OInv

\* The backlog is empty by then, and what is unread is behind.
LEMMA EnqueueAddedOrder ==
  ASSUME IInv, OInv, IInv', EnqueueAdded
  PROVE  OInv'
<1>0. PICK j : j = asyncQueue[position + 1]
  OBVIOUS
<1>1. /\ reader = "reading" /\ position < Len(asyncQueue) /\ Enqueue(j)
      /\ position' = position + 1
      /\ UNCHANGED <<addVars, fetched, backlog, asyncQueue, dropped>>
  BY <1>0 DEF EnqueueAdded
<1>2. j \in Unread /\ Unread' = Unread \ {j} /\ position \in 0 .. Len(asyncQueue)
  BY <1>0, <1>1, RestMembers DEF IInv, DataType, StreamInv, Unread
<1>3. j \in Jobs /\ j \in Members(asyncQueue)
  BY <1>2, MembersAreJobs DEF IInv
<1>4. Unqueued(j) /\ adding[j] \in Over /\ fetched /\ backlog = {}
  BY <1>1, <1>2, <1>3 DEF IInv, StreamInv, ReaderInv, Iterating, Over
<1>5. ASSUME NEW i \in addedBefore[j]
      PROVE  Settled(i) \/ InTasks(i)
  <2>1. i \in Jobs /\ adding[i] = "done"
    BY <1>3 DEF OInv, History
  <2>2. i \notin Unread
    <3>1. SUFFICES ASSUME NEW m \in (position + 1) .. Len(asyncQueue), asyncQueue[m] = i
                   PROVE  FALSE
      BY DEF Unread, Rest
    <3>2. position + 1 \in 1 .. Len(asyncQueue)
      BY <1>1, <1>2
    <3> QED
      BY <1>0, <3>1, <3>2 DEF OInv, ReadOrder
  <2> QED
    BY <1>4, <2>1, <2>2 DEF OInv, Placed
<1>6. /\ TaskOrder' /\ StartedInOrder' /\ History'
      /\ \A i \in Jobs : Settled(i) \/ InTasks(i) \/ i = j => (Settled(i) \/ InTasks(i))'
  BY <1>1, <1>3, <1>4, <1>5, EnqueueOrder
<1>7. Placed'
  BY <1>1, <1>2, <1>6 DEF OInv, Placed, addVars
<1>8. ReadOrder'
  BY <1>1 DEF OInv, ReadOrder, addVars, Members
<1> QED
  BY <1>6, <1>7, <1>8 DEF OInv

-----------------------------------------------------------------------------
(* The end of a task, and of the process *)

\* The next task starts: what was before it was the one that ends.
LEMMA EndTaskOrder ==
  ASSUME IInv, OInv, IInv', NEW q \in Jobs, tasks[q] # <<>>, NEW outcome,
         EndTask(q, outcome), UNCHANGED <<addVars, streamVars>>
  PROVE  OInv'
<1> USE DEF addVars, streamVars
<1>0. PICK j, rest : j = Head(tasks[q]) /\ rest = Tail(tasks[q])
  OBVIOUS
<1>1. /\ tasks' = [tasks EXCEPT ![q] = rest] /\ finished' = finished \cup {j}
      /\ ran' = IF rest = <<>> THEN ran ELSE ran \cup {Head(rest)}
  BY <1>0 DEF EndTask, Delete
<1>2. tasks[q] \in Seq(Jobs) /\ tasks \in [Jobs -> Seq(Jobs)] /\ Distinct(tasks[q])
  BY DEF IInv, DataType, TaskInv
<1>3. /\ rest \in Seq(Jobs) /\ Len(rest) = Len(tasks[q]) - 1 /\ Len(tasks[q]) \in Nat
      /\ tasks[q][1] = j /\ j \in Jobs
      /\ \A n \in 1 .. Len(rest) :
            /\ n + 1 \in 1 .. Len(tasks[q]) /\ rest[n] = tasks[q][n + 1]
            /\ rest[n] \in Jobs
      /\ rest # <<>> => 1 \in 1 .. Len(rest) /\ Head(rest) = rest[1]
  BY <1>0, <1>2
<1>4. Members(rest) = Members(tasks[q]) \ {j}
  BY <1>0, <1>2, TailMembers
<1> DEFINE new == IF rest = <<>> THEN {} ELSE {Head(rest)}
<1>5. /\ tasks'[q] = rest /\ \A p \in Jobs : p # q => tasks'[p] = tasks[p]
      /\ j \in finished'
  BY <1>1, <1>2
<1>6. HistoryKept
  BY <1>1 DEF HistoryKept
<1>7. \A p \in Jobs : \A i \in Members(tasks[p]) :
         i \in Jobs /\ adding[i] \in Over /\ KeyOf[i] = KeyOf[p]
  BY MembersAreJobs DEF IInv, TaskInv, Queued
<1>8. rest # <<>> => Head(rest) \in Jobs /\ adding[Head(rest)] \in Over
                     /\ KeyOf[Head(rest)] = KeyOf[q]
  BY <1>3, <1>4, <1>7, MembersType
<1>9. \* order among what is left
      ASSUME NEW n \in 1 .. Len(rest), NEW i \in addedBefore[rest[n]], KeyOf[i] = KeyOf[q],
             ~Settled(i), i # j
      PROVE  \E m \in 1 .. (n - 1) : rest[m] = i
  <2>1. PICK m \in 1 .. n : tasks[q][m] = i
    <3>1. n + 1 \in 1 .. Len(tasks[q]) /\ i \in addedBefore[tasks[q][n + 1]]
      BY <1>3, <1>9
    <3>2. \E m \in 1 .. ((n + 1) - 1) : tasks[q][m] = i
      BY <1>9, <3>1 DEF OInv, TaskOrder, Ordered
    <3> QED
      BY <1>3, <3>2
  <2>2. m # 1
    BY <1>3, <1>9, <2>1
  <2>3. m - 1 \in 1 .. (n - 1) /\ m - 1 \in 1 .. Len(rest) /\ (m - 1) + 1 = m
    BY <1>3, <2>1, <2>2
  <2>4. rest[m - 1] = i
    BY <1>3, <2>1, <2>3
  <2> QED
    BY <2>3, <2>4
<1>10. TaskOrder'
  <2>1. ASSUME NEW p \in Jobs
        PROVE  Ordered(p, tasks[p])'
    <3>1. CASE p = q
      <4>1. ASSUME NEW n \in 1 .. Len(rest), NEW i \in addedBefore'[rest[n]],
                   KeyOf[i] = KeyOf[q]
            PROVE  Settled(i)' \/ \E m \in 1 .. (n - 1) : rest[m] = i
        <5>1. Settled(i) \/ i = j => Settled(i)'
          BY <1>5, <1>6 DEF Settled, HistoryKept
        <5> QED
          BY <1>9, <4>1, <5>1
      <4> QED
        BY <1>5, <3>1, <4>1 DEF Ordered
    <3>2. CASE p # q
      <4>1. tasks'[p] = tasks[p] /\ tasks[p] \in Seq(Jobs) /\ Ordered(p, tasks[p])
        BY <1>2, <1>5, <3>2 DEF OInv, TaskOrder
      <4>2. Ordered(p, tasks[p])'
        <5>1. \A n \in 1 .. Len(tasks[p]) : tasks[p][n] \in Jobs
          BY <4>1
        <5> QED
          BY <1>6, <4>1, <5>1 DEF Ordered, Settled, HistoryKept
      <4> QED
        BY <4>2
    <3> QED
      BY <3>1, <3>2
  <2>2. ASSUME NEW p \in Jobs, tasks'[p] # <<>>
        PROVE  Head(tasks'[p]) \in ran'
    BY <1>1, <1>5, <2>2 DEF OInv, TaskOrder
  <2> QED
    BY <2>1, <2>2 DEF TaskOrder
<1>11. StartedInOrder'
  <2>1. ASSUME rest # <<>>, NEW i \in addedBefore[Head(rest)],
               KeyOf[i] = KeyOf[Head(rest)]
        PROVE  Settled(i)'
    <3>1. KeyOf[i] = KeyOf[q] /\ 1 \in 1 .. Len(rest) /\ i \in addedBefore[rest[1]]
      BY <1>3, <1>8, <2>1
    <3>2. Settled(i) \/ i = j
      BY <1>9, <3>1
    <3> QED
      BY <1>5, <1>6, <3>2 DEF Settled, HistoryKept
  <2>2. ASSUME NEW k \in ran, NEW i \in addedBefore[k], KeyOf[i] = KeyOf[k]
        PROVE  Settled(i)'
    BY <1>6, <2>2 DEF OInv, StartedInOrder, Settled, HistoryKept
  <2> QED
    BY <1>1, <2>1, <2>2 DEF StartedInOrder, Settled
<1>12. History'
  BY <1>1, <1>8 DEF OInv, History
<1>13. Placed'
  <2>1. ASSUME NEW i \in Jobs, Settled(i) \/ InTasks(i)
        PROVE  (Settled(i) \/ InTasks(i))'
    <3>1. CASE Settled(i)
      BY <1>6, <3>1 DEF Settled, HistoryKept
    <3>2. CASE InTasks(i)
      <4>1. PICK p \in Jobs : i \in Members(tasks[p])
        BY <3>2 DEF InTasks
      <4>2. i = j \/ i \in Members(tasks'[p])
        BY <1>4, <1>5, <4>1
      <4> QED
        BY <1>5, <4>2 DEF InTasks, Settled
    <3> QED
      BY <2>1, <3>1, <3>2
  <2> QED
    BY <2>1 DEF OInv, Placed, Unread
<1>14. ReadOrder'
  BY DEF OInv, ReadOrder, Members
<1> QED
  BY <1>10, <1>11, <1>12, <1>13, <1>14 DEF OInv

\* What the process had is gone, and the rows and what has run are not.
LEMMA CrashOrder ==
  ASSUME IInv, OInv, Crash
  PROVE  OInv'
<1>1. /\ adding' = [j \in Jobs |-> IF adding[j] \in {"no", "done"} THEN adding[j]
                                   ELSE "rejected"]
      /\ ~fetched' /\ backlog' = {} /\ asyncQueue' = <<>>
      /\ tasks' = [j \in Jobs |-> <<>>]
      /\ UNCHANGED <<addedBefore, inserted, ran, finished, dropped>>
  BY DEF Crash
<1>2. History'
  BY <1>1 DEF OInv, History, Over
<1>3. Placed'
  BY <1>1 DEF Placed
<1>4. ReadOrder'
  BY <1>1 DEF ReadOrder
<1>5. TaskOrder'
  BY <1>1 DEF TaskOrder, Ordered
<1>6. StartedInOrder'
  BY <1>1 DEF OInv, StartedInOrder
<1> QED
  BY <1>2, <1>3, <1>4, <1>5, <1>6 DEF OInv

-----------------------------------------------------------------------------
(* The theorem *)

LEMMA InitOrder == Init => OInv
<1> SUFFICES ASSUME Init PROVE OInv
  OBVIOUS
<1>1. History /\ Placed /\ StartedInOrder
  BY DEF Init, History, Placed, StartedInOrder
<1>2. ReadOrder /\ TaskOrder
  BY DEF Init, ReadOrder, TaskOrder, Ordered
<1> QED
  BY <1>1, <1>2 DEF OInv

\* The calls of add on their way to the AsyncQueue
LEMMA InsertsOrder ==
  ASSUME IInv, OInv, IInv', NEW j \in Jobs,
         InsertDone(j) \/ SendInsert(j) \/ InsertRejected(j)
  PROVE  OInv'
<1>1. /\ UNCHANGED <<tasks, ran, finished, dropped, addedBefore>>
      /\ UNCHANGED <<fetched, backlog, asyncQueue, position>>
      /\ inserted \subseteq inserted'
  BY DEF InsertDone, SendInsert, InsertRejected, streamVars, runVars, endVars
<1>2. adding[j] \in {"inserting", "awaitFetch"}
  <2>1. CASE SendInsert(j)
    BY <2>1 DEF SendInsert
  <2>2. CASE InsertDone(j) \/ InsertRejected(j)
    <3>1. Call("insert", j) \in Members(sqlQueue)
      BY <2>2, AnsweredCall DEF InsertDone, InsertRejected, IInv
    <3> QED
      BY <3>1 DEF IInv, SqlInv
  <2> QED
    BY <2>1, <2>2
<1>3. /\ \A i \in Jobs : i # j => adding'[i] = adding[i]
      /\ adding'[j] \in {"awaitFetch", "queueing", "inserting", "rejected"}
      /\ adding'[j] \in {"awaitFetch", "queueing"} => j \in inserted'
  BY ZenonT(40) DEF InsertDone, SendInsert, InsertRejected, IInv, DataType
<1>4. \A i \in Jobs :
         /\ adding'[i] = "done" <=> adding[i] = "done"
         /\ adding[i] \in Over => adding'[i] \in Over
         /\ adding'[i] \in {"queueing", "done"}
            \/ (adding'[i] = "awaitFetch" /\ i \in OwnInsert)
              => i \in inserted'
  BY <1>1, <1>2, <1>3 DEF OInv, History, Over
<1> QED
  BY <1>1, <1>4, QuietKeeps

\* Steps that say nothing of the order
LEMMA OthersOrder ==
  ASSUME IInv, OInv, IInv',
         \/ StreamJobs \/ FetchRejected \/ EndOfBacklog \/ Exhausted \/ UNCHANGED vars
         \/ \E j \in Jobs : RunFails(j) \/ DeleteDone(j) \/ DeleteRejected(j)
  PROVE  OInv'
<1>1. UNCHANGED <<tasks, ran, finished, dropped, addedBefore, inserted, adding>>
  BY DEF StreamJobs, FetchRejected, EndOfBacklog, Exhausted, RunFails, DeleteDone,
         DeleteRejected, vars, addVars, streamVars, runVars, endVars
<1>2. UNCHANGED <<fetched, backlog, asyncQueue, position>>
  <2>1. CASE EndOfBacklog
    BY <2>1 DEF EndOfBacklog, IInv, ReaderInv
  <2>2. CASE ~EndOfBacklog
    BY <2>2 DEF StreamJobs, FetchRejected, EndOfBacklog, Exhausted, RunFails, DeleteDone,
         DeleteRejected, vars, streamVars
  <2> QED
    BY <2>1, <2>2
<1> QED
  BY <1>1, <1>2, QuietKeeps DEF OInv, History

LEMMA NextOrder == IInv /\ OInv /\ IInv' /\ [Next]_vars => OInv'
<1> SUFFICES ASSUME IInv, OInv, IInv', [Next]_vars PROVE OInv'
  OBVIOUS
<1>1. CASE StreamJobs \/ FetchRejected \/ UNCHANGED vars
  BY <1>1, OthersOrder
<1>2. CASE Create
  BY <1>2, CreateOrder
<1>3. CASE StreamProgress
  BY <1>3, FetchOrder, EnqueueFetchedOrder, EnqueueAddedOrder, EmptyOrder, OthersOrder
  DEF StreamProgress
<1>4. ASSUME NEW j \in Jobs, Progress(j) PROVE OInv'
  BY <1>4, InsertsOrder, AddOrder, OthersOrder DEF Progress
<1>5. ASSUME NEW q \in Jobs, RunProgress(q) PROVE OInv'
  <2>1. CASE RunFails(q)
    BY <2>1, OthersOrder
  <2>2. CASE RunSucceeds(q)
    BY <2>2, EndTaskOrder DEF RunSucceeds
  <2>3. CASE LastRunFails(q)
    BY <2>3, EndTaskOrder DEF LastRunFails
  <2> QED
    BY <1>5, <2>1, <2>2, <2>3 DEF RunProgress
<1>6. ASSUME NEW j \in Jobs, InsertRejected(j) \/ DeleteRejected(j) PROVE OInv'
  BY <1>6, InsertsOrder, OthersOrder
<1>7. CASE Crash
  BY <1>7, CrashOrder
<1> QED
  BY <1>1, <1>2, <1>3, <1>4, <1>5, <1>6, <1>7 DEF Next

\* No job of a conversation starts before one that was added before it was created, in
\* whichever process, unless that one is over or was lost by the AsyncQueue; for any
\* jobs, conversations and crashes.
THEOREM JobsStartInOrder == Spec => []StartedInOrder
<1>1. OInv => StartedInOrder
  BY DEF OInv
<1> QED
  BY <1>1, InitOrder, NextOrder, Invariance, PTL DEF Spec

=============================================================================
