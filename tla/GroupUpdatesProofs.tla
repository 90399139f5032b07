------------------------- MODULE GroupUpdatesProofs -------------------------
(***************************************************************************)
(* Proofs about GroupUpdates: it is type correct, and what a device has of  *)
(* a group is what its revision says (UpToDate), for every group, log and   *)
(* mix of messages, pages, states, uploads and failures; and a message that *)
(* is handled has brought the group to the revision it names                *)
(* (HandledIsIncluded), by a change of its own, any number of pages of the  *)
(* log, or the state, while others change the group.                        *)
(*                                                                          *)
(* The step that matters is one change on the lists before it.  That        *)
(* applyGroupChange then makes the lists the server made is a lemma about   *)
(* sets, ChangeIsExact; it needs that nobody is on two lists, and that      *)
(* applyGroupChange did not throw.                                          *)
(*                                                                          *)
(* integrateGroupChanges logs what throws and goes on: a change that threw  *)
(* would leave all after it without the one before, up to the next state.   *)
(* None does, since the changes that devices build and the server takes can *)
(* be applied to the lists before them (BuiltChangesApply).                 *)
(***************************************************************************)
EXTENDS GroupUpdates, TLAPS

-----------------------------------------------------------------------------
(* The invariant *)

\* UpToDate of any attributes
Sound(g) ==
    g.revision # None /\ ~g.presumed =>
        /\ g.revision <= Latest
        /\ g.lists = At(g.revision)
        /\ g.left <=> Us \notin g.lists.members

\* Each revision was made from the one before it by a change the server took.
LogSound ==
    /\ Len(log) > 0
    /\ \A v \in 0..Latest : OnOneList(At(v))
    /\ \A v \in 1..Latest :
          /\ ServerTakes(At(v - 1), log[v + 1].actions)
          /\ At(v) = AfterOnServer(At(v - 1), log[v + 1].actions)

\* What a job works on is in the log, and what it has computed is sound.
TaskSound ==
    /\ task.todo \subseteq 0..Latest
    /\ task.at \in {"integrate", "update"} => Sound(task.attributes)
    /\ task.at = "upload" =>
          /\ task.change = task.newRevision
          /\ mod.attempt < MaxAttempts
    /\ task.at = "apply" => task.change \in 1..Latest

Attempts == mod.at = "queued" => mod.attempt < MaxAttempts

IInv == TypeOK /\ LogSound /\ Sound(group) /\ TaskSound /\ Attempts

-----------------------------------------------------------------------------
(* Lists and changes *)

\* Every change a command builds is a change.
LEMMA ActionsType_ ==
  ASSUME NEW g \in ListsType, NEW kind \in Kinds, NEW actor, NEW p \in People
  PROVE  ActionsFor(g, kind, actor, p) \in ActionsType
<1>1. CASE kind \in {"addMember", "join"}
  BY <1>1 DEF ActionsFor, ActionsType, NoActions, buildAddMember
<1>2. CASE kind = "addPendingMember"
  BY <1>2 DEF ActionsFor, ActionsType, NoActions, buildAddPendingMember
<1>3. CASE kind = "removeMember"
  BY <1>3 DEF ActionsFor, ActionsType, NoActions, buildDeleteMember,
              maybeBuildAddBannedMember
<1>4. CASE kind = "toggleAdmin"
  BY <1>4 DEF ActionsFor, ActionsType, NoActions, buildModifyMemberRole
<1>5. CASE kind \in {"promotePendingMember", "removePendingMember"}
  BY <1>5 DEF ActionsFor, ActionsType, NoActions, buildPromoteMember,
              buildDeletePendingMember
<1>6. CASE kind = "addPendingApprovalRequest"
  BY <1>6 DEF ActionsFor, ActionsType, NoActions, buildAddPendingAdminApprovalMember
<1>7. CASE kind = "denyPendingApprovalRequest"
  BY <1>7 DEF ActionsFor, ActionsType, NoActions, maybeBuildAddBannedMember,
              buildDeletePendingAdminApprovalMember
<1>8. CASE kind = "approvePendingApprovalRequest"
  BY <1>8 DEF ActionsFor, ActionsType, NoActions, buildPromotePendingAdminApprovalMember
<1>9. CASE kind = "addBannedMember"
  BY <1>9 DEF ActionsFor, ActionsType, NoActions, buildAddBannedMember
<1>10. CASE kind = "modifyTitle"
  BY <1>10 DEF ActionsFor, ActionsType, NoActions
<1> QED
  BY <1>1, <1>2, <1>3, <1>4, <1>5, <1>6, <1>7, <1>8, <1>9, <1>10
  DEF Kinds, OwnKinds, EitherKinds, MemberKinds

LEMMA ListsTypes ==
  ASSUME NEW g \in ListsType, NEW a \in ActionsType
  PROVE  /\ AfterOnServer(g, a) \in ListsType
         /\ applyGroupChange(g, a) \in ListsType
<1>1. AfterOnServer(g, a) \in ListsType
  BY DEF ListsType, ActionsType, AfterOnServer
<1>2. MembersThen(g, a) \subseteq People /\ InvitedThen(g, a) \subseteq People
  BY DEF ListsType, ActionsType, MembersThen, InvitedThen, Members, Invited
<1>3. Asking(g, a) \subseteq People
  BY DEF ListsType, ActionsType, Asking
<1> QED
  BY <1>1, <1>2, <1>3 DEF ListsType, ActionsType, applyGroupChange

\* applyGroupChange makes of a list what the server made of it, if it does not throw.
THEOREM ChangeIsExact ==
  ASSUME NEW g \in ListsType, NEW a \in ActionsType,
         OnOneList(g), ServerTakes(g, a), ~CannotApply(g, a)
  PROVE  applyGroupChange(g, a) = AfterOnServer(g, a)
<1> DEFINE s == AfterOnServer(g, a)
           d == applyGroupChange(g, a)
<1>1. d.members = s.members
  BY DEF ListsType, ActionsType, OnOneList, ServerTakes, applyGroupChange, AfterOnServer,
         MembersThen, Members
<1>2. d.admins = s.admins
  BY DEF ListsType, ActionsType, OnOneList, ServerTakes, applyGroupChange, AfterOnServer,
         CannotApply, Members
<1>3. a.addPending \cap Members(g, a) = {}
  BY DEF ListsType, ActionsType, OnOneList, ServerTakes, AfterOnServer, Members
<1>4. d.pending = s.pending
  BY <1>3 DEF ListsType, ActionsType, OnOneList, ServerTakes, applyGroupChange,
              AfterOnServer, InvitedThen, Invited
<1>5. a.addApproval \cap (MembersThen(g, a) \cup InvitedThen(g, a)) = {}
  <2>1. MembersThen(g, a) \subseteq s.members
    BY <1>1 DEF applyGroupChange
  <2>2. InvitedThen(g, a) = s.pending
    BY <1>4 DEF applyGroupChange
  <2>3. a.addApproval \subseteq s.approval
    BY DEF ListsType, ActionsType, ServerTakes, AfterOnServer
  <2> QED
    BY <2>1, <2>2, <2>3 DEF ServerTakes, OnOneList
<1>6. d.approval = s.approval
  BY <1>5 DEF ListsType, ActionsType, applyGroupChange, AfterOnServer, Asking
<1>7. d.banned = s.banned
  BY DEF applyGroupChange, AfterOnServer
<1> QED
  BY <1>1, <1>2, <1>4, <1>6, <1>7 DEF applyGroupChange, AfterOnServer
-----------------------------------------------------------------------------
(* Attributes *)

\* Facts of the log that the other lemmas start from
LEMMA LogFacts ==
  ASSUME TypeOK, LogSound
  PROVE  /\ Latest \in Nat /\ Latest <= MaxRevision /\ Latest \in Revisions
         /\ \A v \in 0..Latest :
               /\ v \in Revisions /\ v + 1 \in 1..Len(log)
               /\ At(v) \in ListsType /\ log[v + 1].actions \in ActionsType
<1>1. log \in Seq(EntryType)
  BY DEF TypeOK
<1>2. Len(log) \in Nat /\ Len(log) > 0 /\ Latest \in Revisions
  BY <1>1 DEF LogSound, TypeOK
<1>3. Latest \in Nat /\ Latest = Len(log) - 1 /\ Latest <= MaxRevision
  BY <1>2, GroupUpdatesAssumption DEF Latest, Revisions
<1>4. ASSUME NEW v \in 0..Latest
      PROVE  /\ v \in Revisions /\ v + 1 \in 1..Len(log)
             /\ At(v) \in ListsType /\ log[v + 1].actions \in ActionsType
  <2>1. v \in Revisions /\ v + 1 \in 1..Len(log)
    BY <1>2, <1>3, GroupUpdatesAssumption DEF Revisions
  <2>2. log[v + 1] \in EntryType
    BY <1>1, <2>1
  <2> QED
    BY <2>1, <2>2 DEF At, EntryType
<1> QED
  BY <1>2, <1>3, <1>4

LEMMA StatesAreSound ==
  ASSUME TypeOK, LogSound, NEW g, NEW v \in 0..Latest
  PROVE  applyState(g, v) \in GroupType /\ Sound(applyState(g, v))
<1> DEFINE h == applyState(g, v)
<1>1. At(v) \in ListsType /\ v \in Revisions /\ Latest \in Nat
  BY LogFacts
<1>2. /\ h.revision = v /\ h.lists = At(v) /\ h.left = (Us \notin At(v).members)
  BY DEF applyState
<1>3. h \in GroupType
  BY <1>1 DEF applyState, GroupType
<1>4. v <= Latest
  BY <1>1
<1> QED
  BY <1>2, <1>3, <1>4 DEF Sound

\* What is left over after a change is what its revision says, or presumed.
LEMMA ChangesAreSound ==
  ASSUME TypeOK, LogSound, NEW g \in GroupType, Sound(g), NEW v \in 0..Latest,
         canApplyChange(g, v), ~(v < g.revision), ~CannotApply(g.lists, log[v + 1].actions)
  PROVE  WithChange(g, v) \in GroupType /\ Sound(WithChange(g, v))
<1> DEFINE a == log[v + 1].actions
           h == WithChange(g, v)
<1>1. g.lists \in ListsType /\ g.revision \in Revisions /\ g.presumed \in BOOLEAN
  BY DEF GroupType, canApplyChange
<1>2. v \in Revisions /\ a \in ActionsType /\ Latest \in Nat
  BY LogFacts
<1>3. /\ h.revision = v /\ h.lists = applyGroupChange(g.lists, a)
      /\ h.left = (Us \notin h.lists.members)
      /\ h.presumed = (g.presumed \/ (Awaiting(g) /\ v # g.revision + 1))
  BY DEF WithChange, GroupType
<1>4. h \in GroupType
  BY <1>1, <1>2, ListsTypes DEF WithChange, GroupType
<1>5. ASSUME ~h.presumed
      PROVE  h.lists = At(v)
  <2>1. ~g.presumed /\ (Awaiting(g) => v = g.revision + 1)
    BY <1>3, <1>5
  <2>2. g.revision \in Nat /\ v \in Nat /\ v > 0
    BY <1>1, <1>2 DEF canApplyChange, Revisions
  <2>3. g.lists = At(g.revision) /\ g.revision <= Latest /\ g.revision # None
    BY <2>1 DEF Sound, canApplyChange
  <2>4. CASE v = g.revision + 1
    <3>1. v - 1 = g.revision /\ v \in 1..Latest /\ g.revision \in 0..Latest
      BY <2>2, <2>4, <1>2
    <3>2. /\ ServerTakes(g.lists, a) /\ At(v) = AfterOnServer(g.lists, a)
          /\ OnOneList(g.lists)
      BY <2>3, <3>1 DEF LogSound
    <3> QED
      BY <1>1, <1>2, <1>3, <3>2, ChangeIsExact
  <2>5. CASE v # g.revision + 1
    <3>1. v < g.revision
      BY <2>1, <2>2, <2>5 DEF canApplyChange
    <3> QED
      BY <3>1
  <2> QED
    BY <2>4, <2>5
<1>6. v <= Latest
  BY <1>2
<1> QED
  BY <1>3, <1>4, <1>5, <1>6 DEF Sound

LEMMA IntegratedIsSound ==
  ASSUME TypeOK, LogSound, NEW g \in GroupType, Sound(g), NEW v \in 0..Latest,
         NEW withState \in BOOLEAN, NEW n,
         integrateGroupChange(g, v, withState, n) # None
  PROVE  /\ integrateGroupChange(g, v, withState, n) \in GroupType
         /\ Sound(integrateGroupChange(g, v, withState, n))
<1> DEFINE after == integrateGroupChange(g, v, withState, n)
           skip == v > 0 /\ \/ n # None /\ v > n
                            \/ g.revision # None /\ v < g.revision
<1>1. CASE skip
  BY <1>1 DEF integrateGroupChange
<1>2. CASE ~skip /\ withState
  <2>1. after = applyState(g, v)
    BY <1>2 DEF integrateGroupChange
  <2> QED
    BY <2>1, StatesAreSound
<1>3. CASE ~skip /\ ~withState
  <2>1. /\ canApplyChange(g, v) /\ ~CannotApply(g.lists, log[v + 1].actions)
        /\ after = WithChange(g, v)
    BY <1>3 DEF integrateGroupChange
  <2>2. ~(v < g.revision)
    BY <1>3, <2>1 DEF canApplyChange
  <2> QED
    BY <2>1, <2>2, ChangesAreSound
<1> QED
  BY <1>1, <1>2, <1>3

-----------------------------------------------------------------------------
(* What a step of the log does to the rest *)

\* The log grows by a change the server takes; what was sound is.
LEMMA LogGrows ==
  ASSUME TypeOK, LogSound, NEW a \in ActionsType, NEW supported \in BOOLEAN,
         Latest < MaxRevision, ServerTakes(At(Latest), a), AppendChange(a, supported)
  PROVE  /\ log' \in Seq(EntryType) /\ Latest' = Latest + 1 /\ Latest' \in Revisions
         /\ \A v \in 0..Latest : At(v)' = At(v)
         /\ LogSound'
<1> DEFINE new == [lists |-> AfterOnServer(At(Latest), a), actions |-> a,
                   supported |-> supported]
<1>1. /\ log \in Seq(EntryType) /\ Latest \in Nat /\ Latest \in 0..Latest
      /\ At(Latest) \in ListsType /\ Len(log) = Latest + 1
  BY LogFacts DEF TypeOK, Latest
<1>2. new \in EntryType
  BY <1>1, ListsTypes DEF EntryType
<1>3. log' = Append(log, new)
  BY DEF AppendChange
<1> HIDE DEF new
<1>4. /\ log' \in Seq(EntryType) /\ Len(log') = Len(log) + 1
      /\ \A i \in 1..Len(log) : log'[i] = log[i]
      /\ log'[Len(log) + 1] = new
  BY <1>1, <1>2, <1>3
<1>5. Latest' = Latest + 1 /\ Latest' \in Revisions
  BY <1>1, <1>4, GroupUpdatesAssumption DEF Latest, Revisions
<1>6. \A v \in 0..Latest : At(v)' = At(v) /\ log'[v + 1] = log[v + 1]
  BY <1>1, <1>4 DEF At
<1>7. ASSUME NEW v, v = Latest + 1
      PROVE  At(v)' = new.lists /\ log'[v + 1] = new
  BY <1>1, <1>4, <1>7 DEF At
<1>8. LogSound'
  <2>1. Len(log') > 0
    BY <1>1, <1>4
  <2>2. new.lists = AfterOnServer(At(Latest), a) /\ new.actions = a
    BY DEF new
  <2>3. OnOneList(new.lists)
    BY <2>2 DEF ServerTakes
  <2>4. ASSUME NEW v \in 0..Latest'
        PROVE  OnOneList(At(v)')
    <3>1. CASE v \in 0..Latest
      BY <1>6, <3>1 DEF LogSound
    <3>2. CASE v = Latest + 1
      BY <1>7, <2>3, <3>2
    <3> QED
      BY <1>1, <1>5, <3>1, <3>2
  <2>5. ASSUME NEW v \in 1..Latest'
        PROVE  /\ ServerTakes(At(v - 1)', log'[v + 1].actions)
               /\ At(v)' = AfterOnServer(At(v - 1)', log'[v + 1].actions)
    <3>1. CASE v \in 1..Latest
      <4>1. v \in 0..Latest /\ v - 1 \in 0..Latest
        BY <1>1, <3>1
      <4> QED
        BY <1>6, <3>1, <4>1 DEF LogSound
    <3>2. CASE v = Latest + 1
      <4>1. At(v - 1)' = At(Latest) /\ log'[v + 1] = new /\ At(v)' = new.lists
        BY <1>1, <1>6, <1>7, <3>2
      <4> QED
        BY <2>2, <4>1
    <3> QED
      BY <1>1, <1>5, <3>1, <3>2
  <2> QED
    BY <2>1, <2>4, <2>5 DEF LogSound, OnOneList, ServerTakes, AfterOnServer
<1> QED
  BY <1>4, <1>5, <1>6, <1>8

\* Attributes that are sound stay so.
LEMMA SoundStays ==
  ASSUME TypeOK, LogSound, Latest' >= Latest, Latest' \in Nat,
         \A v \in 0..Latest : At(v)' = At(v),
         NEW g \in GroupType, Sound(g)
  PROVE  g.revision # None /\ ~g.presumed =>
           /\ g.revision <= Latest'
           /\ g.lists = log'[g.revision + 1].lists
           /\ g.left <=> Us \notin g.lists.members
<1>1. Latest \in Nat
  BY LogFacts
<1>2. g.revision # None => g.revision \in Nat
  BY DEF GroupType, Revisions
<1>3. ASSUME NEW v \in 0..Latest
      PROVE  log'[v + 1].lists = At(v)
  BY <1>3 DEF At
<1> QED
  BY <1>1, <1>2, <1>3 DEF Sound

\* Sound(g)' of attributes that do not change with the step
SoundThen(g) ==
    g.revision # None /\ ~g.presumed =>
        /\ g.revision <= Latest'
        /\ g.lists = log'[g.revision + 1].lists
        /\ g.left <=> Us \notin g.lists.members

\* What every step does with the log
LogKept ==
    /\ log' \in Seq(EntryType) /\ Latest' \in Revisions /\ Latest' >= Latest
    /\ \A v \in 0..Latest : At(v)' = At(v)
    /\ LogSound'

LEMMA SameLog ==
  ASSUME IInv, UNCHANGED log
  PROVE  LogKept /\ Latest' = Latest
<1>1. Latest' = Latest /\ \A v \in 0..Latest : At(v)' = At(v)
  BY DEF Latest, At
<1>2. LogSound'
  <2>1. LogSound
    BY DEF IInv
  <2> QED
    BY <2>1 DEF LogSound, Latest, At
<1>3. Latest \in Nat
  BY LogFacts DEF IInv
<1> QED
  BY <1>1, <1>2, <1>3 DEF LogKept, IInv, TypeOK

LEMMA Kept ==
  ASSUME IInv, LogKept, NEW g \in GroupType, Sound(g)
  PROVE  SoundThen(g)
<1>1. Latest' \in Nat
  BY GroupUpdatesAssumption DEF LogKept, Revisions
<1> QED
  BY <1>1, SoundStays DEF SoundThen, LogKept, IInv

\* What the invariant asks of a step
LEMMA Assemble ==
  ASSUME IInv, LogKept,
         group' \in GroupType, SoundThen(group'),
         task' \in TaskType, mod' \in ModType, troubles' \in 0..MaxTroubles,
         task'.todo \subseteq 0..Latest',
         task'.at \in {"integrate", "update"} => SoundThen(task'.attributes),
         task'.at = "upload" =>
           task'.change = task'.newRevision /\ mod'.attempt < MaxAttempts,
         task'.at = "apply" => task'.change \in 1..Latest',
         mod'.at = "queued" => mod'.attempt < MaxAttempts
  PROVE  IInv'
<1>1. TypeOK' /\ LogSound'
  BY DEF LogKept, TypeOK
<1>2. Sound(group)'
  BY DEF SoundThen, Sound, At
<1>3. TaskSound'
  BY DEF SoundThen, Sound, At, TaskSound
<1>4. Attempts'
  BY DEF Attempts
<1> QED
  BY <1>1, <1>2, <1>3, <1>4 DEF IInv

\* A step that leaves the log, the conversation and its job alone
LEMMA JobGoesOn ==
  ASSUME IInv, LogKept, UNCHANGED <<group, task>>,
         mod' \in ModType, troubles' \in 0..MaxTroubles,
         mod.attempt < MaxAttempts => mod'.attempt < MaxAttempts,
         mod'.at = "queued" => mod'.attempt < MaxAttempts
  PROVE  IInv'
<1>1. group \in GroupType /\ task \in TaskType /\ task.attributes \in GroupType
  BY DEF IInv, TypeOK, TaskType
<1>2. SoundThen(group)
  BY <1>1, Kept DEF IInv
<1>3. task.at \in {"integrate", "update"} => SoundThen(task.attributes)
  BY <1>1, Kept DEF IInv, TaskSound
<1>4. 0..Latest \subseteq 0..Latest' /\ 1..Latest \subseteq 1..Latest'
  BY LogFacts, GroupUpdatesAssumption DEF LogKept, IInv, Revisions
<1>5. /\ task.todo \subseteq 0..Latest
      /\ task.at = "upload" => task.change = task.newRevision /\ mod.attempt < MaxAttempts
      /\ task.at = "apply" => task.change \in 1..Latest
  BY DEF IInv, TaskSound
<1> QED
  BY <1>1, <1>2, <1>3, <1>4, <1>5, Assemble

\* A step that ends the job
LEMMA JobEnds ==
  ASSUME IInv, UNCHANGED log, group' \in GroupType, SoundThen(group'), task' = NoTask,
         mod' \in ModType, troubles' \in 0..MaxTroubles,
         mod'.at = "queued" => mod'.attempt < MaxAttempts
  PROVE  IInv'
<1>1. Unknown \in GroupType
  BY DEF Unknown, GroupType, Nobody, ListsType
<1>2. /\ NoTask \in TaskType /\ NoTask.todo = {} /\ NoTask.at = "none"
  BY <1>1 DEF NoTask, TaskType, Places
<1> QED
  BY <1>2, SameLog, Assemble

\* A step of the job, before or after an upload
LEMMA JobTurns ==
  ASSUME IInv, UNCHANGED <<log, group, mod>>,
         task' \in TaskType, troubles' \in 0..MaxTroubles,
         task'.todo \subseteq 0..Latest,
         task'.at \in {"integrate", "update"} => Sound(task'.attributes),
         task'.at \notin {"upload", "apply"}
  PROVE  IInv'
<1>1. LogKept /\ Latest' = Latest
  BY SameLog
<1>2. group \in GroupType /\ task'.attributes \in GroupType /\ mod \in ModType
  BY DEF IInv, TypeOK, TaskType
<1>3. SoundThen(group)
  BY <1>1, <1>2, Kept DEF IInv
<1>4. task'.at \in {"integrate", "update"} => SoundThen(task'.attributes)
  BY <1>1, <1>2, Kept
<1>5. mod.at = "queued" => mod.attempt < MaxAttempts
  BY DEF IInv, Attempts
<1> QED
  BY <1>1, <1>2, <1>3, <1>4, <1>5, Assemble

LEMMA ModAfter ==
  ASSUME IInv
  PROVE  /\ NoMod \in ModType /\ AfterRefetch \in ModType /\ mod \in ModType
         /\ NoMod.attempt < MaxAttempts
         /\ AfterRefetch.at = "queued" => AfterRefetch.attempt < MaxAttempts
         /\ AfterRefetch.attempt \in {0, mod.attempt}
         /\ mod.at = "queued" => mod.attempt < MaxAttempts
<1>1. mod \in ModType /\ (mod.at = "queued" => mod.attempt < MaxAttempts)
  BY DEF IInv, TypeOK, Attempts
<1>2. NoMod \in ModType /\ NoMod.attempt = 0 /\ NoMod.at = "none"
  BY GroupUpdatesAssumption, GroupChangesAssumption
  DEF NoMod, ModType, Kinds, OwnKinds, EitherKinds, MemberKinds
<1>3. CASE mod.attempt < MaxAttempts
  <2>1. AfterRefetch = [mod EXCEPT !.at = "queued"]
    BY <1>3 DEF AfterRefetch
  <2> QED
    BY <1>1, <1>2, <1>3, <2>1, GroupUpdatesAssumption DEF ModType
<1>4. CASE ~(mod.attempt < MaxAttempts)
  <2>1. AfterRefetch = NoMod
    BY <1>4 DEF AfterRefetch
  <2> QED
    BY <1>1, <1>2, <2>1, GroupUpdatesAssumption
<1> QED
  BY <1>3, <1>4

\* The end of a job, whichever it is
LEMMA RejectedStep ==
  ASSUME IInv, Rejected, UNCHANGED <<log, group>>, troubles' \in 0..MaxTroubles
  PROVE  IInv'
<1>1. mod' \in {NoMod, AfterRefetch, mod} /\ task' = NoTask
  BY DEF Rejected
<1>2. group \in GroupType /\ SoundThen(group)
  BY SameLog, Kept DEF IInv, TypeOK
<1> QED
  BY <1>1, <1>2, ModAfter, JobEnds

LEMMA SingleChangeStep ==
  ASSUME IInv, NEW t \in TaskType, t.todo \subseteq 0..Latest, t.change \in 1..Latest,
         SingleChange(t), UNCHANGED <<log, group, troubles>>
  PROVE  IInv'
<1> DEFINE after == integrateGroupChange(group, t.change, FALSE, t.newRevision)
<1>1. troubles' \in 0..MaxTroubles
  BY DEF IInv, TypeOK
<1>2. CASE Rejected
  BY <1>1, <1>2, RejectedStep
<1>3. CASE ~Rejected
  <2>1. /\ after # None
        /\ task' = [t EXCEPT !.attributes = after,
                             !.at = IF group.left /\ ~after.left THEN "joined" ELSE "update"]
        /\ mod' = mod
    BY <1>3 DEF SingleChange
  <2>2. t.change \in 0..Latest /\ group \in GroupType
    BY LogFacts DEF IInv, TypeOK
  <2>3. after \in GroupType /\ Sound(after)
    BY <2>1, <2>2, IntegratedIsSound DEF IInv
  <2>4. /\ task' \in TaskType /\ task'.todo = t.todo /\ task'.attributes = after
        /\ task'.at \in {"joined", "update"}
    BY <2>1, <2>3 DEF TaskType, Places
  <2> QED
    BY <1>1, <2>1, <2>3, <2>4, JobTurns
<1> QED
  BY <1>2, <1>3

-----------------------------------------------------------------------------
(* Each action *)

LEMMA InitSound == Init => IInv
<1> SUFFICES ASSUME Init
             PROVE  IInv
  OBVIOUS
<1>1. PICK first \in InitLists :
        /\ log = <<[lists |-> first, actions |-> NoActions, supported |-> TRUE]>>
        /\ \/ group = Unknown
           \/ /\ Us \in first.members
              /\ group = [revision |-> 0, lists |-> first, left |-> FALSE,
                          presumed |-> FALSE]
  BY DEF Init
<1>2. /\ first \in ListsType /\ OnOneList(first)
      /\ NoActions \in ActionsType
  BY GroupUpdatesAssumption DEF NoActions, ActionsType
<1>3. [lists |-> first, actions |-> NoActions, supported |-> TRUE] \in EntryType
  BY <1>2 DEF EntryType
<1>4. /\ log \in Seq(EntryType) /\ Len(log) = 1 /\ Latest = 0 /\ At(0) = first
  BY <1>1, <1>3 DEF Latest, At
<1>5. Unknown \in GroupType /\ Unknown.revision = None
  BY DEF Unknown, GroupType, Nobody, ListsType
<1>6. 0 \in Revisions
  BY GroupUpdatesAssumption DEF Revisions
<1>7. group \in GroupType /\ Sound(group)
  <2>1. CASE group = Unknown
    BY <1>5, <2>1 DEF Sound
  <2>2. CASE group = [revision |-> 0, lists |-> first, left |-> FALSE, presumed |-> FALSE]
             /\ Us \in first.members
    BY <1>2, <1>4, <1>6, <2>2 DEF Sound, GroupType
  <2> QED
    BY <1>1, <2>1, <2>2
<1>8. /\ task \in TaskType /\ task.at = "none" /\ task.todo = {}
  BY <1>5 DEF Init, NoTask, TaskType, Places
<1>9. /\ mod \in ModType /\ mod.at = "none" /\ troubles \in 0..MaxTroubles
  BY GroupUpdatesAssumption, GroupChangesAssumption
  DEF Init, NoMod, ModType, Kinds, OwnKinds, EitherKinds, MemberKinds
<1>10. LogSound
  BY <1>2, <1>4 DEF LogSound
<1> QED
  BY <1>4, <1>6, <1>7, <1>8, <1>9, <1>10 DEF IInv, TypeOK, TaskSound, Attempts

LEMMA OthersChangeStep ==
  ASSUME IInv, NEW kind \in OthersKinds, NEW actor, NEW p \in People,
         OthersChange(kind, actor, p)
  PROVE  IInv'
<1> DEFINE a == ActionsFor(At(Latest), kind, actor, p)
<1>1. Latest \in 0..Latest /\ At(Latest) \in ListsType /\ kind \in Kinds
  BY LogFacts, GroupUpdatesAssumption DEF IInv
<1>2. a \in ActionsType
  BY <1>1, ActionsType_
<1>3. PICK supported \in BOOLEAN : AppendChange(a, supported)
  BY DEF OthersChange
<1>4. Latest < MaxRevision /\ ServerTakes(At(Latest), a)
  BY DEF OthersChange
<1>5. LogKept
  BY <1>1, <1>2, <1>3, <1>4, LogGrows DEF LogKept, IInv
<1>6. UNCHANGED <<group, task, mod, troubles>> /\ troubles \in 0..MaxTroubles
  BY DEF OthersChange, IInv, TypeOK
<1> QED
  BY <1>5, <1>6, ModAfter, JobGoesOn

LEMMA StartMessageStep ==
  ASSUME IInv, NEW v \in Revisions, v <= Latest, NEW change \in Changes(v),
         StartMessage(v, change)
  PROVE  IInv'
<1> DEFINE t == [NoTask EXCEPT !.job = "message", !.newRevision = v, !.change = change]
<1>1. /\ v \in Nat /\ Latest \in Nat
      /\ change # None => change \in 1..Latest
  BY LogFacts, GroupUpdatesAssumption DEF IInv, Changes, Revisions
<1>2. Unknown \in GroupType /\ NoTask.todo = {}
  BY DEF Unknown, GroupType, Nobody, ListsType, NoTask
<1>3. t \in TaskType /\ t.todo = {} /\ t.change = change
  <2>1. change \in Nat \cup {None}
    BY <1>1 DEF Changes
  <2>2. NoTask \in TaskType
    BY <1>2 DEF NoTask, TaskType, Places
  <2> QED
    BY <1>1, <1>2, <2>1, <2>2 DEF TaskType
<1>4. UNCHANGED <<log, group, troubles>>
  BY DEF StartMessage
<1>5. CASE change # None /\ SingleChange(t)
  BY <1>1, <1>3, <1>4, <1>5, SingleChangeStep
<1>6. CASE task' = FromLog(t) /\ UNCHANGED mod
  <2>1. group.revision \in Nat \cup {None} /\ troubles \in 0..MaxTroubles
    BY DEF IInv, TypeOK, GroupType, Revisions
  <2>2. task' \in TaskType /\ task'.todo = {} /\ task'.at = "log"
    BY <1>3, <1>6, <2>1 DEF FromLog, TaskType, Places
  <2> QED
    BY <1>4, <1>6, <2>1, <2>2, JobTurns
<1> QED
  BY <1>5, <1>6 DEF StartMessage

LEMMA FetchIsTyped ==
  ASSUME IInv, NEW job \in {"fetch", "refetch"}
  PROVE  Fetch(job) \in TaskType /\ Fetch(job).todo = {} /\ Fetch(job).at \in {"state", "log"}
<1>1. group.revision \in Nat \cup {None}
  BY DEF IInv, TypeOK, GroupType, Revisions
<1>2. Unknown \in GroupType
  BY DEF Unknown, GroupType, Nobody, ListsType
<1> QED
  BY <1>1, <1>2 DEF Fetch, NoTask, TaskType, Places

LEMMA StartFetchStep ==
  ASSUME IInv, StartFetch
  PROVE  IInv'
  BY FetchIsTyped, JobTurns DEF StartFetch, IInv, TypeOK

LEMMA LogAnsweredStep ==
  ASSUME IInv, LogAnswered
  PROVE  IInv'
<1>1. PICK from, to \in 0..Latest :
        /\ task' = [task EXCEPT !.at = IF Enough(to) THEN "integrate" ELSE "log",
                                !.from = to + 1, !.todo = @ \cup from..to,
                                !.states = @ \cup WithState(from, to),
                                !.attributes = group]
        /\ UNCHANGED <<log, group, mod, troubles>>
  BY DEF LogAnswered
<1>2. /\ from..to \subseteq 0..Latest /\ to + 1 \in Nat /\ 0..Latest \subseteq Revisions
      /\ WithState(from, to) \subseteq Revisions
  BY LogFacts DEF IInv, WithState
<1>3. /\ task \in TaskType /\ task.todo \subseteq 0..Latest /\ group \in GroupType
      /\ Sound(group) /\ troubles \in 0..MaxTroubles
  BY DEF IInv, TypeOK, TaskSound
<1>4. /\ task' \in TaskType /\ task'.todo \subseteq 0..Latest
      /\ task'.at \in {"integrate", "log"} /\ task'.attributes = group
  BY <1>1, <1>2, <1>3 DEF TaskType, Places
<1> QED
  BY <1>1, <1>3, <1>4, JobTurns

LEMMA IntegrateNextStep ==
  ASSUME IInv, IntegrateNext
  PROVE  IInv'
<1>1. PICK v \in task.todo :
        LET after == integrateGroupChange(task.attributes, v, v \in task.states,
                                          task.newRevision)
        IN  /\ task.at = "integrate"
            /\ task' = [task EXCEPT !.todo = @ \ {v},
                                    !.attributes = IF after = None THEN @ ELSE after,
                                    !.at = IF task.todo = {v} THEN "update" ELSE @]
            /\ UNCHANGED <<log, group, mod, troubles>>
  BY DEF IntegrateNext
<1> DEFINE after == integrateGroupChange(task.attributes, v, v \in task.states,
                                         task.newRevision)
<1>2. /\ task \in TaskType /\ task.todo \subseteq 0..Latest /\ v \in 0..Latest
      /\ task.attributes \in GroupType /\ Sound(task.attributes)
      /\ troubles \in 0..MaxTroubles
  BY <1>1 DEF IInv, TypeOK, TaskSound, TaskType
<1>3. after # None => after \in GroupType /\ Sound(after)
  <2>1. (v \in task.states) \in BOOLEAN
    OBVIOUS
  <2> QED
    BY <1>2, <2>1, IntegratedIsSound DEF IInv
<1> HIDE DEF after
<1>4. /\ task' \in TaskType /\ task'.todo \subseteq 0..Latest
      /\ task'.at \in {"integrate", "update"} /\ Sound(task'.attributes)
  <2>1. task' = [task EXCEPT !.todo = @ \ {v},
                             !.attributes = IF after = None THEN @ ELSE after,
                             !.at = IF task.todo = {v} THEN "update" ELSE @]
    BY <1>1 DEF after
  <2>2. task'.attributes = IF after = None THEN task.attributes ELSE after
    BY <1>2, <2>1 DEF TaskType
  <2>3. task'.attributes \in GroupType /\ Sound(task'.attributes)
    BY <1>2, <1>3, <2>2
  <2>4. task'.todo = task.todo \ {v} /\ task'.at \in {"integrate", "update"}
    BY <1>1, <1>2, <2>1 DEF TaskType
  <2>5. task' \in TaskType
    <3> DEFINE todo == task.todo \ {v}
               attributes == IF after = None THEN task.attributes ELSE after
               at == IF task.todo = {v} THEN "update" ELSE task.at
    <3>1. attributes \in GroupType
      BY <1>2, <1>3
    <3>2. todo \in SUBSET Revisions /\ at \in Places
      BY <1>2 DEF TaskType, Places
    <3>3. task' = [task EXCEPT !.todo = todo, !.attributes = attributes, !.at = at]
      BY <2>1
    <3> HIDE DEF todo, attributes, at
    <3> QED
      BY <1>2, <3>1, <3>2, <3>3 DEF TaskType
  <2> QED
    BY <1>2, <2>3, <2>4, <2>5
<1> QED
  BY <1>1, <1>2, <1>4, JobTurns

LEMMA LogDeniedStep ==
  ASSUME IInv, LogDenied
  PROVE  IInv'
<1>1. task \in TaskType /\ troubles' \in 0..MaxTroubles
  BY GroupUpdatesAssumption DEF LogDenied, Trouble, IInv, TypeOK
<1>2. /\ task' = [task EXCEPT !.at = "state", !.todo = {}, !.states = {}]
      /\ UNCHANGED <<log, group, mod>>
  BY DEF LogDenied
<1>3. task' \in TaskType /\ task'.todo = {} /\ task'.at = "state"
  BY <1>1, <1>2 DEF TaskType, Places
<1> QED
  BY <1>1, <1>2, <1>3, JobTurns

\* Attributes that are ready for updateGroup
LEMMA ReadyStep ==
  ASSUME IInv, NEW g \in GroupType, Sound(g), Ready(g), UNCHANGED <<log, group, mod, troubles>>
  PROVE  IInv'
<1>1. task \in TaskType /\ troubles' \in 0..MaxTroubles
  BY DEF IInv, TypeOK
<1>2. task' = [task EXCEPT !.at = "update", !.attributes = g, !.todo = {}, !.states = {}]
  BY DEF Ready
<1>3. task' \in TaskType /\ task'.todo = {} /\ task'.at = "update" /\ task'.attributes = g
  BY <1>1, <1>2 DEF TaskType, Places
<1> QED
  BY <1>1, <1>3, JobTurns

LEMMA StateAnsweredStep ==
  ASSUME IInv, StateAnswered
  PROVE  IInv'
<1>1. Latest \in 0..Latest
  BY LogFacts DEF IInv
<1> QED
  BY <1>1, StatesAreSound, ReadyStep DEF StateAnswered, IInv

LEMMA StateDeniedStep ==
  ASSUME IInv, StateDenied
  PROVE  IInv'
<1>1. /\ task \in TaskType /\ troubles \in 0..MaxTroubles /\ task.todo \subseteq 0..Latest
      /\ UNCHANGED <<log, group, troubles>>
  BY DEF StateDenied, IInv, TypeOK, TaskSound
<1>2. CASE Rejected
  BY <1>1, <1>2, RejectedStep
<1>3. CASE task' = [task EXCEPT !.at = "preJoin"] /\ UNCHANGED mod
  <2>1. task' \in TaskType /\ task'.todo = task.todo /\ task'.at = "preJoin"
    BY <1>1, <1>3 DEF TaskType, Places
  <2> QED
    BY <1>1, <1>3, <2>1, JobTurns
<1> QED
  BY <1>2, <1>3 DEF StateDenied

LEMMA PreJoinAnsweredStep ==
  ASSUME IInv, PreJoinAnswered
  PROVE  IInv'
<1>1. group \in GroupType /\ Latest \in Revisions
  BY DEF IInv, TypeOK
<1>2. preJoinGroup(group) \in GroupType /\ preJoinGroup(group).presumed
  BY <1>1, GroupChangesAssumption DEF preJoinGroup, GroupType, ListsType
<1> QED
  BY <1>2, ReadyStep DEF PreJoinAnswered, Sound

LEMMA LeftIsTyped ==
  ASSUME NEW g \in GroupType, NEW revision \in Revisions \cup {None}
  PROVE  /\ leftGroup(g, revision) \in GroupType
         /\ leftGroup(g, revision).left /\ leftGroup(g, revision).presumed
<1>1. g.lists \in ListsType /\ WithoutUs(g.lists) \in ListsType
  BY DEF GroupType, ListsType, WithoutUs
<1> QED
  BY <1>1 DEF leftGroup, GroupType

LEMMA LeftStep ==
  ASSUME IInv, Left
  PROVE  IInv'
<1>1. group \in GroupType /\ Latest \in Revisions
  BY DEF IInv, TypeOK
<1>2. PICK revision \in {group.revision, Latest} : Ready(leftGroup(group, revision))
  BY DEF Left
<1>3. revision \in Revisions \cup {None}
  BY <1>1 DEF GroupType
<1>4. leftGroup(group, revision) \in GroupType /\ leftGroup(group, revision).presumed
  BY <1>1, <1>3, LeftIsTyped
<1> QED
  BY <1>2, <1>4, ReadyStep DEF Left, Sound

LEMMA RequestFailsStep ==
  ASSUME IInv, RequestFails
  PROVE  IInv'
<1>1. troubles' \in 0..MaxTroubles
  BY GroupUpdatesAssumption DEF RequestFails, Trouble, IInv, TypeOK
<1> QED
  BY <1>1, RejectedStep DEF RequestFails

LEMMA UpdateGroupStep ==
  ASSUME IInv, UpdateGroup
  PROVE  IInv'
<1>1. /\ task \in TaskType /\ task.attributes \in GroupType /\ Sound(task.attributes)
      /\ troubles \in 0..MaxTroubles
  BY DEF UpdateGroup, IInv, TypeOK, TaskSound, TaskType
<1>2. /\ group' = task.attributes /\ task' = NoTask /\ UNCHANGED <<log, troubles>>
      /\ mod' \in {NoMod, AfterRefetch, mod}
  BY DEF UpdateGroup
<1>3. SoundThen(group')
  BY <1>1, <1>2, SameLog, Kept
<1> QED
  BY <1>1, <1>2, <1>3, ModAfter, JobEnds

LEMMA UserModifiesStep ==
  ASSUME IInv, NEW kind \in OurKinds, NEW p \in People, UserModifies(kind, p)
  PROVE  IInv'
<1>1. kind \in Kinds /\ 0 \in 0..MaxAttempts /\ 0 < MaxAttempts
  BY GroupUpdatesAssumption
<1>2. mod' \in ModType /\ mod'.attempt = 0
  BY <1>1 DEF UserModifies, ModType
<1>3. LogKept /\ UNCHANGED <<group, task>> /\ troubles' \in 0..MaxTroubles
  BY SameLog DEF UserModifies, IInv, TypeOK
<1> QED
  BY <1>1, <1>2, <1>3, JobGoesOn

LEMMA JoinViaLinkStep ==
  ASSUME IInv, NEW kind \in {"join", "addPendingApprovalRequest"}, JoinViaLink(kind)
  PROVE  IInv'
<1>1. kind \in Kinds /\ 0 \in 0..MaxAttempts /\ 0 < MaxAttempts
  BY GroupUpdatesAssumption DEF Kinds, OwnKinds
<1>2. mod' \in ModType /\ mod'.attempt = 0
  BY <1>1, GroupChangesAssumption DEF JoinViaLink, ModType
<1>3. /\ group \in GroupType /\ Latest \in Revisions /\ task \in TaskType
      /\ task.attributes \in GroupType /\ UNCHANGED <<log, task, troubles>>
      /\ troubles' \in 0..MaxTroubles
      /\ \E seen \in Revisions :
            group' = [group EXCEPT !.revision = seen, !.presumed = TRUE,
                                   !.left = @ \/ group.revision = None]
  BY DEF JoinViaLink, IInv, TypeOK, TaskType
<1>4. group' \in GroupType /\ SoundThen(group')
  <2>1. PICK seen \in Revisions :
            group' = [group EXCEPT !.revision = seen, !.presumed = TRUE,
                                   !.left = @ \/ group.revision = None]
    BY <1>3
  <2>2. (group.left \/ group.revision = None) \in BOOLEAN
    BY Zenon
  <2> QED
    BY <1>3, <2>1, <2>2 DEF GroupType, SoundThen
<1>5. LogKept /\ Latest' = Latest
  BY <1>3, SameLog
<1>6. task.at \in {"integrate", "update"} => SoundThen(task.attributes)
  BY <1>3, <1>5, Kept DEF IInv, TaskSound
<1>7. /\ task.todo \subseteq 0..Latest
      /\ task.at = "upload" => task.change = task.newRevision
      /\ task.at = "apply" => task.change \in 1..Latest
  BY DEF IInv, TaskSound
<1> QED
  BY <1>1, <1>2, <1>3, <1>4, <1>5, <1>6, <1>7, Assemble

LEMMA StartModifyStep ==
  ASSUME IInv, StartModify
  PROVE  IInv'
<1>1. /\ group \in GroupType /\ mod \in ModType /\ mod.at = "queued"
      /\ mod.attempt < MaxAttempts /\ troubles' \in 0..MaxTroubles
      /\ UNCHANGED <<log, group>>
  BY DEF StartModify, IInv, TypeOK, Attempts
<1>2. SoundThen(group)
  BY <1>1, SameLog, Kept DEF IInv
<1>3. CASE task' = NoTask /\ mod' = NoMod
  BY <1>1, <1>2, <1>3, ModAfter, JobEnds
<1>4. CASE /\ task' = [NoTask EXCEPT !.job = "modify", !.at = "upload",
                                     !.newRevision = NextRevision, !.change = NextRevision]
           /\ mod' = [mod EXCEPT !.at = "running"]
  <2>1. NextRevision \in Nat
    BY <1>1, GroupUpdatesAssumption DEF NextRevision, GroupType, Revisions
  <2>2. Unknown \in GroupType
    BY DEF Unknown, GroupType, Nobody, ListsType
  <2>3. /\ task' \in TaskType /\ task'.todo = {} /\ task'.at = "upload"
        /\ task'.change = task'.newRevision
    BY <1>4, <2>1, <2>2 DEF NoTask, TaskType, Places
  <2>4. mod' \in ModType /\ mod'.attempt < MaxAttempts
    BY <1>1, <1>4 DEF ModType
  <2> QED
    BY <1>1, <1>2, <2>3, <2>4, SameLog, Assemble
<1> QED
  BY <1>3, <1>4 DEF StartModify

\* The server accepts: the log grows by the revision the upload named.
LEMMA AcceptsStep ==
  ASSUME IInv, Accepts
  PROVE  LogKept /\ Latest' = Latest + 1 /\ task.newRevision = Latest'
<1>1. /\ group.lists \in ListsType /\ mod.kind \in Kinds /\ mod.who \in People
  BY DEF IInv, TypeOK, GroupType, ModType
<1>2. Built \in ActionsType
  BY <1>1, ActionsType_ DEF Built
<1>3. /\ Latest < MaxRevision /\ ServerTakes(At(Latest), Built) /\ AppendChange(Built, TRUE)
      /\ task.newRevision = Latest + 1
  BY DEF Accepts
<1>4. TypeOK /\ LogSound /\ Latest \in Nat
  BY LogFacts DEF IInv
<1>5. /\ log' \in Seq(EntryType) /\ Latest' = Latest + 1 /\ Latest' \in Revisions
      /\ \A v \in 0..Latest : At(v)' = At(v)
      /\ LogSound'
  <2> HIDE DEF Built
  <2> QED
    BY <1>2, <1>3, <1>4, LogGrows
<1> QED
  BY <1>3, <1>4, <1>5 DEF LogKept

LEMMA UploadAcceptedStep ==
  ASSUME IInv, UploadAccepted
  PROVE  IInv'
<1>1. LogKept /\ Latest' = Latest + 1 /\ task.newRevision = Latest'
  BY AcceptsStep DEF UploadAccepted
<1>2. /\ group \in GroupType /\ task \in TaskType /\ Latest \in Nat
      /\ task.change = task.newRevision /\ task.todo \subseteq 0..Latest
      /\ troubles \in 0..MaxTroubles
  BY LogFacts DEF IInv, TypeOK, TaskSound, UploadAccepted, Accepts
<1>3. /\ task' = [task EXCEPT !.at = "apply"] /\ UNCHANGED <<group, mod, troubles>>
  BY DEF UploadAccepted
<1>4. /\ task' \in TaskType /\ task'.at = "apply" /\ task'.todo \subseteq 0..Latest'
      /\ task'.change \in 1..Latest'
  BY <1>1, <1>2, <1>3 DEF TaskType, Places
<1>5. SoundThen(group)
  BY <1>1, <1>2, Kept DEF IInv
<1> QED
  BY <1>1, <1>2, <1>3, <1>4, <1>5, ModAfter, Assemble

LEMMA ApplyOwnStep ==
  ASSUME IInv, ApplyOwn
  PROVE  IInv'
<1>1. task \in TaskType /\ task.todo \subseteq 0..Latest /\ task.change \in 1..Latest
  BY DEF IInv, TypeOK, TaskSound, ApplyOwn
<1> QED
  BY <1>1, SingleChangeStep DEF ApplyOwn

LEMMA UploadConflictStep ==
  ASSUME IInv, UploadConflict
  PROVE  IInv'
<1>1. /\ group \in GroupType /\ mod \in ModType /\ mod.attempt < MaxAttempts
      /\ troubles' \in 0..MaxTroubles /\ UNCHANGED <<log, group>> /\ task' = NoTask
  BY DEF UploadConflict, IInv, TypeOK, TaskSound
<1>2. SoundThen(group)
  BY <1>1, SameLog, Kept DEF IInv
<1>3. mod' \in {[mod EXCEPT !.at = "conflict", !.attempt = @ + 1], NoMod}
  BY DEF UploadConflict
<1>4. [mod EXCEPT !.at = "conflict", !.attempt = @ + 1] \in ModType
  <2>1. mod.attempt \in 0..MaxAttempts /\ mod.attempt + 1 \in 0..MaxAttempts
    BY <1>1, GroupUpdatesAssumption DEF ModType
  <2> QED
    BY <1>1, <2>1 DEF ModType
<1>5. mod' \in ModType /\ mod'.at # "queued"
  BY <1>1, <1>3, <1>4, ModAfter DEF ModType, NoMod
<1> QED
  BY <1>1, <1>2, <1>5, JobEnds

LEMMA StartRefetchStep ==
  ASSUME IInv, StartRefetch
  PROVE  IInv'
<1>1. /\ group \in GroupType /\ mod \in ModType /\ mod.at = "conflict"
      /\ troubles' \in 0..MaxTroubles /\ UNCHANGED <<log, group>>
  BY DEF StartRefetch, IInv, TypeOK
<1>2. CASE task' = Fetch("refetch") /\ mod' = [mod EXCEPT !.at = "running"]
  <2>1. mod' \in ModType /\ mod'.at = "running"
    BY <1>1, <1>2 DEF ModType
  <2>2. /\ task' \in TaskType /\ task'.todo = {} /\ task'.at \in {"state", "log"}
    BY <1>2, FetchIsTyped
  <2>3. SoundThen(group)
    BY <1>1, SameLog, Kept DEF IInv
  <2> QED
    BY <1>1, <2>1, <2>2, <2>3, SameLog, Assemble
<1>3. CASE mod' = AfterRefetch /\ UNCHANGED task
  <2>1. mod.attempt < MaxAttempts => mod'.attempt < MaxAttempts
    BY <1>3, ModAfter, GroupUpdatesAssumption
  <2> QED
    BY <1>1, <1>3, <2>1, ModAfter, SameLog, JobGoesOn
<1> QED
  BY <1>2, <1>3 DEF StartRefetch

LEMMA UploadRefusedStep ==
  ASSUME IInv, UploadRefused
  PROVE  IInv'
<1>1. /\ group \in GroupType /\ task' = NoTask /\ mod' = NoMod
      /\ troubles' \in 0..MaxTroubles /\ UNCHANGED log
  BY DEF UploadRefused, IInv, TypeOK
<1>2. CASE group' = group
  <2>1. SoundThen(group')
    BY <1>1, <1>2, SameLog, Kept DEF IInv
  <2> QED
    BY <1>1, <1>2, <2>1, ModAfter, JobEnds
<1>3. CASE group' = [group EXCEPT !.lists.approval = {Us}, !.presumed = TRUE]
  <2>1. group' \in GroupType /\ group'.presumed
    BY <1>1, <1>3, GroupChangesAssumption DEF GroupType, ListsType
  <2>2. SoundThen(group')
    BY <2>1 DEF SoundThen
  <2> QED
    BY <1>1, <2>1, <2>2, ModAfter, JobEnds
<1> QED
  BY <1>2, <1>3 DEF UploadRefused

LEMMA UploadFailsStep ==
  ASSUME IInv, UploadFails
  PROVE  IInv'
<1>1. LogKept
  <2>1. CASE Accepts
    BY <2>1, AcceptsStep
  <2>2. CASE UNCHANGED log
    BY <2>2, SameLog
  <2> QED
    BY <2>1, <2>2 DEF UploadFails
<1>2. /\ group \in GroupType /\ task' = NoTask /\ mod' = NoMod /\ UNCHANGED group
      /\ troubles' \in 0..MaxTroubles
  BY GroupUpdatesAssumption DEF UploadFails, Trouble, IInv, TypeOK
<1>3. SoundThen(group)
  BY <1>1, <1>2, Kept DEF IInv
<1>4. Unknown \in GroupType
  BY DEF Unknown, GroupType, Nobody, ListsType
<1>5. NoTask \in TaskType /\ NoTask.todo = {} /\ NoTask.at = "none"
  BY <1>4 DEF NoTask, TaskType, Places
<1> QED
  BY <1>1, <1>2, <1>3, <1>5, ModAfter, Assemble

-----------------------------------------------------------------------------
(* The theorems *)

LEMMA NextSound ==
  ASSUME IInv, [Next]_vars
  PROVE  IInv'
<1>1. CASE UNCHANGED vars
  <2>1. /\ UNCHANGED <<log, group, task, mod, troubles>> /\ troubles' \in 0..MaxTroubles
    BY <1>1 DEF vars, IInv, TypeOK
  <2> QED
    BY <2>1, SameLog, ModAfter, JobGoesOn
<1>2. ASSUME NEW kind \in OthersKinds, NEW p \in People, NEW actor \in {p, None},
             OthersChange(kind, actor, p)
      PROVE  IInv'
  BY <1>2, OthersChangeStep
<1>3. ASSUME NEW v \in Revisions, v <= Latest, NEW change \in Changes(v),
             StartMessage(v, change)
      PROVE  IInv'
  BY <1>3, StartMessageStep
<1>4. ASSUME NEW kind \in OurKinds, NEW p \in People, UserModifies(kind, p)
      PROVE  IInv'
  BY <1>4, UserModifiesStep
<1>5. ASSUME NEW kind \in {"join", "addPendingApprovalRequest"}, JoinViaLink(kind)
      PROVE  IInv'
  BY <1>5, JoinViaLinkStep
<1>6. ASSUME Update
      PROVE  IInv'
  BY <1>6, LogAnsweredStep, LogDeniedStep, IntegrateNextStep, StateAnsweredStep,
     StateDeniedStep, PreJoinAnsweredStep, LeftStep, RequestFailsStep, UpdateGroupStep
  DEF Update
<1>7. ASSUME Upload
      PROVE  IInv'
  BY <1>7, StartModifyStep, UploadAcceptedStep, ApplyOwnStep, UploadConflictStep,
     StartRefetchStep, UploadRefusedStep, UploadFailsStep
  DEF Upload
<1> QED
  BY <1>1, <1>2, <1>3, <1>4, <1>5, <1>6, <1>7, StartFetchStep DEF Next

LEMMA Invariance == Spec => []IInv
  BY InitSound, NextSound, PTL DEF Spec

\* Every reachable state is well typed, for any people, log, page size and failures.
THEOREM TypeCorrect == Spec => []TypeOK
<1>1. IInv => TypeOK
  BY DEF IInv
<1> QED
  BY <1>1, Invariance, PTL

\* What updateGroup sets is what the revision says, whether it was made from single
\* changes, pages of the log or states; for any people, log, page size and failures.
THEOREM ListsAreOfTheRevision == Spec => []UpToDate
<1>1. IInv => UpToDate
  BY DEF IInv, Sound, UpToDate
<1> QED
  BY <1>1, Invariance, PTL

-----------------------------------------------------------------------------
(* The invariant of messages that are handled *)

\* No change in the log makes applyGroupChange throw on the lists before it.
Chained == \A v \in 1..Latest : ~CannotApply(At(v - 1), log[v + 1].actions)

\* g is at the revision the message names, or beyond.
Reached(g) == g.revision # None /\ g.revision >= task.newRevision

\* The server sends the state with a change that is not supported.
StatesComeAlong == \A u \in task.todo : log[u + 1].supported \/ u \in task.states

\* Pages are read one after the other from the revision the device has, or the first
\* one it may read, and the first of them has a state.
InLog ==
    task.at = "log" =>
        /\ StatesComeAlong
        /\ \/ task.todo = {} /\ (task.from = group.revision \/ Reached(group))
           \/ \E first \in 0..Latest :
                 /\ task.from \in Nat /\ first < task.from
                 /\ task.todo = first..(task.from - 1) /\ first \in task.states
                 /\ group.revision \in {None, first} \/ Reached(group)

\* Where attributes g stand before the change of revision v: they have what the message
\* is about, a state will set them, they never will be set, or the change is the next.
Stands(g, v, withState) ==
    \/ Reached(g)
    \/ g.revision \in {None, v} /\ withState
    \/ g.revision = None /\ task.newRevision < v
    \/ g.revision # None /\ v = g.revision + 1 /\ ~g.presumed

InIntegrate ==
    task.at = "integrate" =>
        /\ StatesComeAlong
        /\ \E v \in Nat, last \in 0..Latest :
              /\ task.todo = v..last /\ task.newRevision <= last
              /\ Stands(task.attributes, v, v \in task.states)

InUpdate ==
    task.at = "update" /\ task.change \in {None, task.newRevision} =>
        \/ task.attributes.revision = None
        \/ Reached(task.attributes)
        \/ task.attributes.left

Handling ==
    task.job = "message" =>
        /\ task.newRevision \in 0..Latest
        /\ task.at \notin {"upload", "apply"}
        /\ InLog /\ InIntegrate /\ InUpdate

HInv == Chained /\ Handling

\* joinViaLink has come between, and waits for the job.
Linked == task.job = "message" /\ task.at \notin {"upload", "apply"} /\ JoinWaits

-----------------------------------------------------------------------------
(* Changes that were built from some lists, and taken for others *)

LEMMA BuiltApplies ==
  ASSUME NEW g \in ListsType, NEW s \in ListsType, NEW kind \in Kinds, NEW actor,
         NEW p \in People, ServerTakes(s, ActionsFor(g, kind, actor, p))
  PROVE  ~CannotApply(s, ActionsFor(g, kind, actor, p))
<1> DEFINE a == ActionsFor(g, kind, actor, p)
<1>1. /\ a.makeAdmins \cup a.makeDefault \subseteq s.members
      /\ a.promotePending \subseteq s.pending
      /\ a.addMembers \cap s.pending = {}
  BY DEF ServerTakes
<1>2. \/ a.makeAdmins \cup a.makeDefault = {}
      \/ a.deleteMembers = {}
  <2>1. CASE kind = "toggleAdmin"
    BY <2>1 DEF ActionsFor, NoActions, buildModifyMemberRole
  <2>2. CASE kind = "removeMember"
    BY <2>2 DEF ActionsFor, NoActions, buildDeleteMember
  <2>3. CASE kind \in {"addMember", "join", "addPendingMember"}
    BY <2>3 DEF ActionsFor, NoActions, buildAddMember, buildAddPendingMember
  <2>4. CASE kind \in {"promotePendingMember", "removePendingMember",
                       "addPendingApprovalRequest", "modifyTitle"}
    BY <2>4 DEF ActionsFor, NoActions, buildPromoteMember, buildDeletePendingMember,
                buildAddPendingAdminApprovalMember
  <2>5. CASE kind \in {"denyPendingApprovalRequest", "approvePendingApprovalRequest",
                       "addBannedMember"}
    BY <2>5 DEF ActionsFor, NoActions, buildDeletePendingAdminApprovalMember,
                buildPromotePendingAdminApprovalMember, buildAddBannedMember
  <2> QED
    BY <2>1, <2>2, <2>3, <2>4, <2>5 DEF Kinds, OwnKinds, EitherKinds, MemberKinds
<1>3. a.promotePending = {} \/ a.deletePending = {}
  <2>1. CASE kind = "promotePendingMember"
    BY <2>1 DEF ActionsFor, NoActions, buildPromoteMember
  <2>2. CASE kind \in {"addMember", "join", "addPendingMember"}
    BY <2>2 DEF ActionsFor, NoActions, buildAddMember, buildAddPendingMember
  <2>3. CASE kind \in {"removePendingMember", "addPendingApprovalRequest", "modifyTitle"}
    BY <2>3 DEF ActionsFor, NoActions, buildDeletePendingMember,
                buildAddPendingAdminApprovalMember
  <2>4. CASE kind \in {"denyPendingApprovalRequest", "approvePendingApprovalRequest",
                       "addBannedMember"}
    BY <2>4 DEF ActionsFor, NoActions, buildDeletePendingAdminApprovalMember,
                buildPromotePendingAdminApprovalMember, buildAddBannedMember
  <2>5. CASE kind = "toggleAdmin"
    BY <2>5 DEF ActionsFor, NoActions, buildModifyMemberRole
  <2>6. CASE kind = "removeMember"
    BY <2>6 DEF ActionsFor, NoActions, buildDeleteMember
  <2> QED
    BY <2>1, <2>2, <2>3, <2>4, <2>5, <2>6 DEF Kinds, OwnKinds, EitherKinds, MemberKinds
<1> HIDE DEF a
<1>4. a.makeAdmins \cup a.makeDefault \subseteq Members(s, a)
  BY <1>1, <1>2 DEF Members
<1>5. a.promotePending \subseteq Invited(s, a)
  BY <1>1, <1>3 DEF Invited
<1>6. ~CannotApply(s, a)
  BY <1>4, <1>5 DEF CannotApply
<1> QED
  BY <1>6 DEF a

\* A change that a device builds, from lists that may be out of date, and the server
\* takes, is applied by applyGroupChange without throwing, and to the lists the server
\* has then.
THEOREM BuiltChangesApply ==
  ASSUME NEW g \in ListsType, NEW s \in ListsType, NEW kind \in Kinds, NEW actor,
         NEW p \in People, OnOneList(s), ServerTakes(s, ActionsFor(g, kind, actor, p))
  PROVE  /\ ~CannotApply(s, ActionsFor(g, kind, actor, p))
         /\ applyGroupChange(s, ActionsFor(g, kind, actor, p))
              = AfterOnServer(s, ActionsFor(g, kind, actor, p))
<1>1. ~CannotApply(s, ActionsFor(g, kind, actor, p))
  BY BuiltApplies
<1>2. ActionsFor(g, kind, actor, p) \in ActionsType
  BY ActionsType_
<1> QED
  BY <1>1, <1>2, ChangeIsExact

-----------------------------------------------------------------------------
(* The log *)

\* The log grows by a change that was built and taken.
LEMMA ChainGrows ==
  ASSUME IInv, Chained, NEW g \in ListsType, NEW kind \in Kinds, NEW actor,
         NEW p \in People, NEW supported \in BOOLEAN,
         ServerTakes(At(Latest), ActionsFor(g, kind, actor, p)),
         AppendChange(ActionsFor(g, kind, actor, p), supported)
  PROVE  /\ Chained' /\ Latest' = Latest + 1
         /\ \A v \in 0..Latest : log'[v + 1] = log[v + 1]
<1> DEFINE a == ActionsFor(g, kind, actor, p)
           new == [lists |-> AfterOnServer(At(Latest), a), actions |-> a,
                   supported |-> supported]
<1>1. /\ log \in Seq(EntryType) /\ Latest \in Nat /\ Latest \in 0..Latest
      /\ At(Latest) \in ListsType /\ Len(log) = Latest + 1
  BY LogFacts DEF IInv, TypeOK, Latest
<1>2. ~CannotApply(At(Latest), a)
  BY <1>1, BuiltApplies
<1>3. a \in ActionsType
  BY ActionsType_
<1>4. log' = Append(log, new) /\ new.actions = a
  BY DEF AppendChange
<1> HIDE DEF a
<1>5. new \in EntryType
  BY <1>1, <1>3, ListsTypes DEF EntryType
<1> HIDE DEF new
<1>6. /\ Len(log') = Len(log) + 1
      /\ \A i \in 1..Len(log) : log'[i] = log[i]
      /\ log'[Len(log) + 1] = new
  BY <1>1, <1>4, <1>5
<1>7. /\ Latest' = Latest + 1
      /\ \A v \in 0..Latest : log'[v + 1] = log[v + 1] /\ At(v)' = At(v)
  BY <1>1, <1>6 DEF Latest, At
<1>8. ASSUME NEW v \in 1..Latest'
      PROVE  ~CannotApply(At(v - 1)', log'[v + 1].actions)
  <2>1. CASE v \in 1..Latest
    <3>1. v - 1 \in 0..Latest /\ v \in 0..Latest
      BY <1>1, <2>1
    <3> QED
      BY <1>7, <2>1, <3>1 DEF Chained
  <2>2. CASE v = Latest + 1
    <3>1. At(v - 1)' = At(Latest) /\ log'[v + 1] = new
      BY <1>1, <1>6, <1>7, <2>2
    <3> QED
      BY <1>2, <1>4, <3>1
  <2> QED
    BY <1>1, <1>7, <2>1, <2>2
<1>9. Chained'
  BY <1>8 DEF Chained, CannotApply, Members, Invited
<1> QED
  BY <1>7, <1>9

\* What every step does with the log, beyond LogKept
Longer ==
    /\ Chained' /\ Latest' >= Latest /\ Latest' \in Nat
    /\ \A v \in 0..Latest : log'[v + 1] = log[v + 1]

LEMMA SameIsLonger ==
  ASSUME IInv, Chained, UNCHANGED log
  PROVE  Longer /\ Latest' = Latest
<1>1. Latest' = Latest /\ Latest \in Nat
  BY LogFacts DEF IInv, Latest
<1>2. Chained'
  BY DEF Chained, Latest, At
<1> QED
  BY <1>1, <1>2 DEF Longer

LEMMA AcceptsIsLonger ==
  ASSUME IInv, Chained, Accepts
  PROVE  Longer
<1>1. group.lists \in ListsType /\ mod.kind \in Kinds /\ mod.who \in People
  BY DEF IInv, TypeOK, GroupType, ModType
<1>2. ServerTakes(At(Latest), ActionsFor(group.lists, mod.kind, Us, mod.who))
  BY DEF Accepts, Built
<1>3. PICK supported \in BOOLEAN :
        AppendChange(ActionsFor(group.lists, mod.kind, Us, mod.who), supported)
  BY DEF Accepts, Built
<1>4. Latest \in Nat
  BY LogFacts DEF IInv
<1> QED
  BY <1>1, <1>2, <1>3, <1>4, ChainGrows DEF Longer

LEMMA OthersIsLonger ==
  ASSUME IInv, Chained, NEW kind \in OthersKinds, NEW actor, NEW p \in People,
         OthersChange(kind, actor, p)
  PROVE  Longer
<1>1. /\ Latest \in 0..Latest /\ Latest \in Nat /\ At(Latest) \in ListsType
      /\ kind \in Kinds
  BY LogFacts, GroupUpdatesAssumption DEF IInv
<1>2. PICK supported \in BOOLEAN :
        AppendChange(ActionsFor(At(Latest), kind, actor, p), supported)
  BY DEF OthersChange
<1>3. ServerTakes(At(Latest), ActionsFor(At(Latest), kind, actor, p))
  BY DEF OthersChange
<1> QED
  BY <1>1, <1>2, <1>3, ChainGrows DEF Longer

-----------------------------------------------------------------------------
(* One turn of the loop of integrateGroupChanges *)

\* What comes out of it for attributes g
Turned(g, v, withState) ==
    LET after == integrateGroupChange(g, v, withState, task.newRevision)
    IN  IF after = None THEN g ELSE after

LEMMA TurnStands ==
  ASSUME IInv, Chained, task.newRevision \in 0..Latest,
         NEW g \in GroupType, Sound(g), NEW v \in 0..Latest, NEW withState \in BOOLEAN,
         log[v + 1].supported \/ withState, Stands(g, v, withState)
  PROVE  LET h == Turned(g, v, withState)
         IN  \/ Reached(h)
             \/ h.revision = None /\ task.newRevision < v
             \/ h.revision # None /\ v = h.revision /\ ~h.presumed
<1> SUFFICES ASSUME NEW h, h = Turned(g, v, withState)
             PROVE  \/ Reached(h)
                    \/ h.revision = None /\ task.newRevision < v
                    \/ h.revision # None /\ v = h.revision /\ ~h.presumed
  OBVIOUS
<1> DEFINE n == task.newRevision
           after == integrateGroupChange(g, v, withState, n)
           skip == v > 0 /\ \/ n # None /\ v > n
                            \/ g.revision # None /\ v < g.revision
<1>1. /\ Latest \in Nat /\ n \in Nat /\ v \in Nat /\ None \notin Nat
      /\ g.revision # None => g.revision \in Nat
      /\ TypeOK /\ LogSound
  BY LogFacts, GroupUpdatesAssumption DEF IInv, GroupType, Revisions
<1>2. h = IF after = None THEN g ELSE after
  BY DEF Turned
<1>3. CASE skip
  <2>1. after = g
    BY <1>3 DEF integrateGroupChange
  <2>2. h = g
    BY <1>2, <2>1
  <2>3. CASE v > n
    BY <1>1, <2>2, <2>3 DEF Stands, Reached
  <2>4. CASE g.revision # None /\ v < g.revision
    BY <1>1, <2>2, <2>4 DEF Stands, Reached
  <2> QED
    BY <1>3, <2>3, <2>4
<1>4. ASSUME ~skip, canApplyChange(g, v)
      PROVE  /\ v = g.revision + 1 /\ ~g.presumed
             /\ ~CannotApply(g.lists, log[v + 1].actions)
  <2>1. /\ v > 0 /\ g.revision # None /\ g.revision # v /\ g.revision \in Nat
        /\ v <= n /\ g.revision <= v
    BY <1>1, <1>4 DEF canApplyChange
  <2>2. v = g.revision + 1 /\ ~g.presumed
    BY <1>1, <2>1 DEF Stands, Reached
  <2>3. g.lists = At(v - 1) /\ v \in 1..Latest
    BY <1>1, <2>1, <2>2 DEF Sound
  <2> QED
    BY <2>2, <2>3 DEF Chained
<1>5. CASE ~skip /\ withState
  <2>1. after = applyState(g, v)
    BY <1>4, <1>5 DEF integrateGroupChange
  <2>2. applyState(g, v) # None
    BY <1>1, StatesAreSound, NoneAssumption
  <2>3. h = applyState(g, v)
    BY <1>2, <2>1, <2>2
  <2> QED
    BY <1>1, <2>3 DEF applyState
<1>6. CASE ~skip /\ ~withState /\ canApplyChange(g, v)
  <2>1. after = WithChange(g, v) /\ v = g.revision + 1 /\ ~g.presumed
    BY <1>4, <1>6 DEF integrateGroupChange
  <2>2. WithChange(g, v) # None
    <3>1. ~(v < g.revision)
      BY <1>1, <1>6 DEF canApplyChange
    <3> QED
      BY <1>1, <1>4, <1>6, <3>1, ChangesAreSound, NoneAssumption
  <2>3. h = WithChange(g, v)
    BY <1>2, <2>1, <2>2
  <2>4. h.revision = v /\ h.presumed = (g.presumed \/ (Awaiting(g) /\ v # g.revision + 1))
    BY <2>3 DEF WithChange, GroupType
  <2> QED
    BY <1>1, <2>1, <2>4
<1>7. CASE ~skip /\ ~withState /\ ~canApplyChange(g, v)
  <2>1. h = g
    BY <1>2, <1>7 DEF integrateGroupChange
  <2>2. Reached(g)
    BY <1>1, <1>7 DEF Stands, canApplyChange
  <2> QED
    BY <2>1, <2>2
<1> QED
  BY <1>3, <1>5, <1>6, <1>7

-----------------------------------------------------------------------------
(* Each action *)

\* A job that is not for a message
LEMMA NotHandling ==
  ASSUME task'.job # "message"
  PROVE  Handling'
  BY DEF Handling

\* The job waits, while the log grows.
LEMMA HandlingWaits ==
  ASSUME IInv, Handling, Longer, UNCHANGED <<group, task>>
  PROVE  Handling'
<1> SUFFICES ASSUME task.job = "message"
             PROVE  Handling'
  BY DEF Handling
<1>1. /\ task.newRevision \in 0..Latest /\ task.at \notin {"upload", "apply"}
      /\ InLog /\ InIntegrate /\ InUpdate
  BY DEF Handling
<1>2. /\ 0..Latest \subseteq 0..Latest' /\ task.todo \subseteq 0..Latest
      /\ StatesComeAlong => StatesComeAlong'
  <2>1. Latest \in Nat /\ task.todo \subseteq 0..Latest
    BY LogFacts DEF IInv, TaskSound
  <2> QED
    BY <2>1 DEF Longer, StatesComeAlong
<1>3. InLog'
  <2>1. Reached(group) => Reached(group)'
    BY DEF Reached
  <2> QED
    BY <1>1, <1>2, <2>1 DEF InLog
<1>4. InIntegrate'
  BY <1>1, <1>2 DEF InIntegrate, Stands, Reached
<1>5. InUpdate'
  BY <1>1 DEF InUpdate, Reached
<1> QED
  BY <1>1, <1>2, <1>3, <1>4, <1>5 DEF Handling

\* A step of the job of a message to a place where it has nothing in hand
LEMMA HandlingAsks ==
  ASSUME IInv, Handling, UNCHANGED log, task'.job = task.job,
         task'.newRevision = task.newRevision,
         task'.at \in {"state", "joined", "preJoin"}
  PROVE  Handling'
<1>1. Latest' = Latest
  BY DEF Latest
<1> QED
  BY <1>1 DEF Handling, InLog, InIntegrate, InUpdate

\* The job has attributes that are ready for updateGroup.
LEMMA HandlingIsReady ==
  ASSUME IInv, Handling, UNCHANGED log, task'.job = task.job,
         task'.newRevision = task.newRevision, task'.at = "update",
         task.job = "message" => InUpdate'
  PROVE  Handling'
<1>1. Latest' = Latest
  BY DEF Latest
<1> QED
  BY <1>1 DEF Handling, InLog, InIntegrate

LEMMA ReadyHandling ==
  ASSUME IInv, Handling, UNCHANGED log, NEW g \in GroupType, Ready(g),
         g.revision = Latest \/ g.left
  PROVE  Handling'
<1>1. task \in TaskType /\ Latest \in Nat
  BY LogFacts DEF IInv, TypeOK
<1>2. /\ task'.job = task.job /\ task'.newRevision = task.newRevision
      /\ task'.at = "update" /\ task'.attributes = g
  BY <1>1 DEF Ready, TaskType
<1>3. task.job = "message" => task.newRevision \in 0..Latest
  BY DEF Handling
<1>4. task.job = "message" => InUpdate'
  BY <1>1, <1>2, <1>3, GroupUpdatesAssumption DEF InUpdate, Reached
<1> QED
  BY <1>2, <1>4, HandlingIsReady

\* The change of the message itself
LEMMA SingleChangeHandling ==
  ASSUME IInv, NEW t \in TaskType, t.job = "message", t.newRevision \in 0..Latest,
         t.change \in 1..Latest, group.revision # None, t.newRevision > group.revision,
         SingleChange(t), UNCHANGED <<log, group>>
  PROVE  Handling'
<1> DEFINE n == t.newRevision
           after == integrateGroupChange(group, t.change, FALSE, n)
<1>1. Latest' = Latest /\ Latest \in Nat /\ n \in Nat
  BY LogFacts DEF IInv, Latest
<1>2. group \in GroupType /\ group.revision \in Nat /\ None \notin Nat
  BY GroupUpdatesAssumption DEF IInv, TypeOK, GroupType, Revisions
<1>3. CASE Rejected
  BY <1>3, NotHandling DEF Rejected, NoTask
<1>4. CASE /\ after # None
           /\ task' = [t EXCEPT !.attributes = after,
                                !.at = IF group.left /\ ~after.left
                                       THEN "joined" ELSE "update"]
  <2>1. /\ task'.job = "message" /\ task'.newRevision = n /\ task'.change = t.change
        /\ task'.attributes = after /\ task'.at \in {"joined", "update"}
    BY <1>4 DEF TaskType
  <2>2. ASSUME t.change = n
        PROVE  after.revision = n
    <3>1. after = WithChange(group, n)
      BY <1>1, <1>2, <1>4, <2>2 DEF integrateGroupChange
    <3> QED
      BY <1>2, <3>1 DEF WithChange, GroupType
  <2> HIDE DEF after
  <2>3. InUpdate'
    <3>1. t.change # None /\ n >= n
      BY <1>1, <1>2
    <3> QED
      BY <1>1, <1>2, <2>1, <2>2, <3>1 DEF InUpdate, Reached
  <2> QED
    BY <1>1, <2>1, <2>3 DEF Handling, InLog, InIntegrate
<1> QED
  BY <1>3, <1>4 DEF SingleChange

LEMMA StartMessageHandling ==
  ASSUME IInv, NEW v \in Revisions, v <= Latest, NEW change \in Changes(v),
         StartMessage(v, change)
  PROVE  Handling'
<1> DEFINE t == [NoTask EXCEPT !.job = "message", !.newRevision = v, !.change = change]
<1>1. /\ v \in 0..Latest /\ Latest \in Nat
      /\ change # None => change \in 1..Latest
      /\ change \in Nat \cup {None}
  BY LogFacts, GroupUpdatesAssumption DEF IInv, Changes, Revisions
<1>2. Unknown \in GroupType
  BY DEF Unknown, GroupType, Nobody, ListsType
<1>3. /\ t \in TaskType /\ t.todo = {} /\ t.change = change /\ t.job = "message"
      /\ t.newRevision = v
  <2>1. NoTask \in TaskType /\ NoTask.todo = {}
    BY <1>2 DEF NoTask, TaskType, Places
  <2>2. v \in Nat
    BY <1>1
  <2> QED
    BY <1>1, <2>1, <2>2 DEF TaskType
<1>4. UNCHANGED <<log, group>> /\ (group.revision # None => v > group.revision)
  BY DEF StartMessage
<1>5. CASE change # None /\ group.revision # None /\ SingleChange(t)
  BY <1>1, <1>3, <1>4, <1>5, SingleChangeHandling
<1>6. CASE task' = FromLog(t)
  <2>1. /\ task'.job = "message" /\ task'.newRevision = v /\ task'.at = "log"
        /\ task'.todo = {} /\ task'.from = group.revision /\ Latest' = Latest
    BY <1>3, <1>4, <1>6 DEF FromLog, TaskType, Latest
  <2>2. InLog'
    BY <1>4, <2>1 DEF InLog, StatesComeAlong
  <2> QED
    BY <1>1, <2>1, <2>2 DEF Handling, InIntegrate, InUpdate
<1> QED
  BY <1>5, <1>6 DEF StartMessage

LEMMA LogAnsweredHandling ==
  ASSUME IInv, Handling, LogAnswered
  PROVE  Handling'
<1> SUFFICES ASSUME task.job = "message"
             PROVE  Handling'
  <2>1. task \in TaskType
    BY DEF IInv, TypeOK
  <2>2. task'.job = task.job
    BY <2>1 DEF LogAnswered, TaskType
  <2> QED
    BY <2>2, NotHandling
<1>1. PICK from, to \in 0..Latest :
        /\ task.at = "log"
        /\ IF task.from = None THEN JoinedAt(from) ELSE from = task.from
        /\ to = from + PageSize - 1 \/ (to = Latest /\ from + PageSize - 1 > Latest)
        /\ task' = [task EXCEPT !.at = IF Enough(to) THEN "integrate" ELSE "log",
                                !.from = to + 1, !.todo = @ \cup from..to,
                                !.states = @ \cup WithState(from, to),
                                !.attributes = group]
        /\ UNCHANGED <<log, group>>
  BY DEF LogAnswered
<1>2. /\ Latest \in Nat /\ Latest' = Latest /\ task \in TaskType /\ None \notin Nat
      /\ task.newRevision \in 0..Latest /\ InLog
  BY <1>1, LogFacts, GroupUpdatesAssumption DEF IInv, TypeOK, Handling, Latest
<1>3. from <= to /\ from \in Nat /\ to \in Nat /\ from \in from..to
  BY <1>1, <1>2, GroupUpdatesAssumption
<1>4. /\ task'.job = "message" /\ task'.newRevision = task.newRevision
      /\ task'.at = (IF Enough(to) THEN "integrate" ELSE "log")
      /\ task'.from = to + 1 /\ task'.todo = task.todo \cup from..to
      /\ task'.states = task.states \cup WithState(from, to)
      /\ task'.attributes = group
  BY <1>1, <1>2 DEF TaskType
<1>5. \A u \in from..to : log[u + 1].supported \/ u \in WithState(from, to)
  BY DEF WithState
<1>6. StatesComeAlong'
  BY <1>1, <1>2, <1>4, <1>5 DEF InLog, StatesComeAlong
<1>7. PICK first \in 0..Latest :
        /\ task'.todo = first..to /\ first \in task'.states /\ first <= to
        /\ group.revision \in {None, first} \/ Reached(group)
  <2>1. CASE task.todo = {} /\ (task.from = group.revision \/ Reached(group))
    <3>1. from \in WithState(from, to) /\ task'.todo = from..to
      BY <1>3, <1>4, <2>1 DEF WithState
    <3>2. group.revision \in {None, from} \/ Reached(group)
      BY <1>1, <2>1
    <3> QED
      BY <1>3, <1>4, <3>1, <3>2
  <2>2. CASE \E first \in 0..Latest :
               /\ task.from \in Nat /\ first < task.from
               /\ task.todo = first..(task.from - 1) /\ first \in task.states
               /\ group.revision \in {None, first} \/ Reached(group)
    <3>1. PICK first \in 0..Latest :
               /\ task.from \in Nat /\ first < task.from
               /\ task.todo = first..(task.from - 1) /\ first \in task.states
               /\ group.revision \in {None, first} \/ Reached(group)
      BY <2>2
    <3>2. from = task.from
      BY <1>1, <1>2, <3>1
    <3>3. first..(from - 1) \cup from..to = first..to /\ first <= to /\ first \in Nat
      BY <1>2, <1>3, <3>1, <3>2
    <3> QED
      BY <1>4, <3>1, <3>2, <3>3
  <2> QED
    BY <1>1, <1>2, <2>1, <2>2 DEF InLog
<1>8. Reached(group) => Reached(group)'
  BY <1>1, <1>4 DEF Reached
<1>9. CASE Enough(to)
  <2>1. task.newRevision <= to
    BY <1>2, <1>3, <1>9 DEF Enough
  <2>2. Stands(task.attributes, first, first \in task.states)'
    BY <1>1, <1>4, <1>7, <1>8 DEF Stands
  <2>3. InIntegrate'
    <3>1. first \in Nat /\ to \in 0..Latest'
      BY <1>1, <1>2
    <3> QED
      BY <1>4, <1>6, <1>7, <2>1, <2>2, <3>1 DEF InIntegrate
  <2> QED
    BY <1>2, <1>4, <1>9, <2>3 DEF Handling, InLog, InUpdate
<1>10. CASE ~Enough(to)
  <2>1. /\ task'.from \in Nat /\ first < task'.from /\ task'.from - 1 = to
    BY <1>2, <1>3, <1>4, <1>7
  <2>2. InLog'
    BY <1>1, <1>2, <1>4, <1>6, <1>7, <1>8, <2>1 DEF InLog
  <2> QED
    BY <1>2, <1>4, <1>10, <2>2 DEF Handling, InIntegrate, InUpdate
<1> QED
  BY <1>9, <1>10

LEMMA IntegrateNextHandling ==
  ASSUME IInv, Chained, Handling, IntegrateNext
  PROVE  Handling'
<1> SUFFICES ASSUME task.job = "message"
             PROVE  Handling'
  <2>1. task \in TaskType
    BY DEF IInv, TypeOK
  <2>2. task'.job = task.job
    BY <2>1 DEF IntegrateNext, TaskType
  <2> QED
    BY <2>2, NotHandling
<1>1. PICK v \in task.todo :
        LET after == integrateGroupChange(task.attributes, v, v \in task.states,
                                          task.newRevision)
        IN  /\ task.at = "integrate"
            /\ \A u \in task.todo : v <= u
            /\ task' = [task EXCEPT !.todo = @ \ {v},
                                    !.attributes = IF after = None THEN @ ELSE after,
                                    !.at = IF task.todo = {v} THEN "update" ELSE @]
            /\ UNCHANGED <<log, group, mod, troubles>>
  BY DEF IntegrateNext
<1>2. /\ Latest \in Nat /\ Latest' = Latest /\ task \in TaskType /\ None \notin Nat
      /\ task.newRevision \in 0..Latest /\ task.newRevision \in Nat
      /\ task.todo \subseteq 0..Latest /\ v \in 0..Latest /\ v \in Nat
      /\ task.attributes \in GroupType /\ Sound(task.attributes)
  BY <1>1, LogFacts, GroupUpdatesAssumption
  DEF IInv, TypeOK, TaskSound, TaskType, Handling, Latest
<1>3. PICK w \in Nat, last \in 0..Latest :
        /\ task.todo = w..last /\ task.newRevision <= last
        /\ Stands(task.attributes, w, w \in task.states)
  BY <1>1 DEF Handling, InIntegrate
<1>4. v = w /\ v <= last /\ last \in Nat /\ task.todo \ {v} = (v + 1)..last
  <2>1. w <= v /\ v <= last /\ last \in Nat
    BY <1>2, <1>3
  <2>2. w \in task.todo
    BY <1>2, <1>3, <2>1
  <2> QED
    BY <1>1, <1>2, <1>3, <2>1, <2>2
<1>5. StatesComeAlong
  BY <1>1 DEF Handling, InIntegrate
<1> DEFINE h == Turned(task.attributes, v, v \in task.states)
<1>6. \/ Reached(h)
      \/ h.revision = None /\ task.newRevision < v
      \/ h.revision # None /\ v = h.revision /\ ~h.presumed
  <2>1. log[v + 1].supported \/ v \in task.states
    BY <1>5 DEF StatesComeAlong
  <2>2. Stands(task.attributes, v, v \in task.states)
    BY <1>3, <1>4
  <2>3. (v \in task.states) \in BOOLEAN
    OBVIOUS
  <2> QED
    BY <1>2, <2>1, <2>2, <2>3, TurnStands
<1>7. task' = [task EXCEPT !.todo = @ \ {v}, !.attributes = h,
                           !.at = IF task.todo = {v} THEN "update" ELSE @]
  BY <1>1 DEF Turned
<1> HIDE DEF h
<1>8. /\ task'.job = "message" /\ task'.newRevision = task.newRevision
      /\ task'.change = task.change /\ task'.states = task.states
      /\ task'.todo = task.todo \ {v} /\ task'.attributes = h
      /\ task'.at = (IF task.todo = {v} THEN "update" ELSE "integrate")
  BY <1>1, <1>2, <1>7 DEF TaskType
<1>9. CASE task.todo = {v}
  <2>1. v = last
    <3>1. last \in task.todo
      BY <1>2, <1>3, <1>4
    <3> QED
      BY <1>9, <3>1
  <2>2. h.revision = None \/ (h.revision # None /\ h.revision >= task.newRevision)
    BY <1>2, <1>3, <1>6, <2>1 DEF Reached
  <2>3. InUpdate'
    BY <1>8, <2>2 DEF InUpdate, Reached
  <2> QED
    BY <1>2, <1>8, <1>9, <2>3 DEF Handling, InLog, InIntegrate
<1>10. CASE task.todo # {v}
  <2>1. StatesComeAlong'
    BY <1>1, <1>5, <1>8 DEF StatesComeAlong
  <2>2. \/ h.revision # None /\ h.revision >= task.newRevision
        \/ h.revision = None /\ task.newRevision < v + 1
        \/ h.revision # None /\ v + 1 = h.revision + 1 /\ ~h.presumed
    BY <1>2, <1>6 DEF Reached
  <2>3. InIntegrate'
    <3>1. v + 1 \in Nat /\ last \in 0..Latest' /\ task'.todo = (v + 1)..last
      BY <1>2, <1>4, <1>8
    <3>2. Stands(task.attributes, v + 1, v + 1 \in task.states)'
      BY <1>8, <2>2 DEF Stands, Reached
    <3> QED
      BY <1>3, <1>8, <2>1, <3>1, <3>2 DEF InIntegrate
  <2> QED
    BY <1>2, <1>8, <1>10, <2>3 DEF Handling, InLog, InUpdate
<1> QED
  BY <1>9, <1>10


-----------------------------------------------------------------------------
(* The actions that have little to say of a message *)

LEMMA OthersChangeHandling ==
  ASSUME IInv, HInv, NEW kind \in OthersKinds, NEW actor, NEW p \in People,
         OthersChange(kind, actor, p)
  PROVE  HInv'
<1>1. Longer
  BY OthersIsLonger DEF HInv
<1>2. UNCHANGED <<group, task>>
  BY DEF OthersChange
<1> QED
  BY <1>1, <1>2, HandlingWaits DEF HInv, Longer

LEMMA JoinViaLinkHandling ==
  ASSUME IInv, HInv, NEW kind \in {"join", "addPendingApprovalRequest"}, JoinViaLink(kind)
  PROVE  Chained' /\ (Handling' \/ Linked')
<1>1. /\ UNCHANGED <<log, task>>
      /\ mod' = [at |-> "queued", kind |-> kind, who |-> Us, attempt |-> 0]
  BY DEF JoinViaLink
<1>2. Chained'
  BY <1>1, SameIsLonger DEF HInv, Longer
<1>3. JoinWaits'
  BY <1>1 DEF JoinWaits
<1>4. CASE task.job = "message"
  BY <1>1, <1>2, <1>3, <1>4 DEF HInv, Handling, Linked
<1>5. CASE task.job # "message"
  BY <1>1, <1>2, <1>5, NotHandling
<1> QED
  BY <1>4, <1>5

\* A message whose job a join by a link waits for
LEMMA LinkedStays ==
  ASSUME IInv, Chained, Linked, Next
  PROVE  Chained' /\ (Handling' \/ Linked')
<1>1. /\ task # NoTask /\ mod # NoMod /\ mod.at = "queued"
      /\ task.at \notin {"upload", "apply"} /\ task \in TaskType
  BY DEF Linked, JoinWaits, NoTask, NoMod, IInv, TypeOK
<1>2. CASE \E kind \in OthersKinds, p \in People : \E actor \in {p, None} :
               OthersChange(kind, actor, p)
  <2>1. PICK kind \in OthersKinds, p \in People : \E actor \in {p, None} :
             OthersChange(kind, actor, p)
    BY <1>2
  <2>2. PICK actor \in {p, None} : OthersChange(kind, actor, p)
    BY <2>1
  <2>3. Longer
    BY <2>2, OthersIsLonger
  <2>4. UNCHANGED <<task, mod>>
    BY <2>2 DEF OthersChange
  <2> QED
    BY <2>3, <2>4 DEF Longer, Linked, JoinWaits
<1>3. CASE Update
  <2>1. UNCHANGED log
    BY <1>3 DEF Update, LogAnswered, LogDenied, IntegrateNext, StateAnswered, StateDenied,
           PreJoinAnswered, Left, RequestFails, UpdateGroup
  <2>2. Chained'
    BY <2>1, SameIsLonger DEF Longer
  <2>3. CASE LogAnswered
    <3>1. PICK from, to \in 0..Latest :
              task' = [task EXCEPT !.at = IF Enough(to) THEN "integrate" ELSE "log",
                                   !.from = to + 1, !.todo = @ \cup from..to,
                                   !.states = @ \cup WithState(from, to),
                                   !.attributes = group]
      BY <2>3 DEF LogAnswered
    <3>2. task'.job = task.job /\ task'.at \in {"integrate", "log"} /\ mod' = mod
      BY <1>1, <2>3, <3>1 DEF LogAnswered, TaskType
    <3> QED
      BY <2>2, <3>2 DEF Linked, JoinWaits
  <2>4. CASE IntegrateNext
    <3>1. task'.job = task.job /\ task'.at \in {"integrate", "update"} /\ mod' = mod
      BY <1>1, <2>4 DEF IntegrateNext, TaskType
    <3> QED
      BY <2>2, <3>1 DEF Linked, JoinWaits
  <2>5. CASE LogDenied \/ StateAnswered \/ PreJoinAnswered \/ Left
    <3>1. task'.job = task.job /\ task'.at \in {"state", "update"} /\ mod' = mod
      BY <1>1, <2>5 DEF LogDenied, StateAnswered, PreJoinAnswered, Left, Ready, TaskType
    <3> QED
      BY <2>2, <3>1 DEF Linked, JoinWaits
  <2>6. CASE StateDenied \/ RequestFails \/ UpdateGroup
    <3>1. \/ task' = NoTask
          \/ task' = [task EXCEPT !.at = "preJoin"] /\ mod' = mod
      BY <2>6 DEF StateDenied, RequestFails, UpdateGroup, Rejected
    <3>2. CASE task' = NoTask
      BY <2>2, <3>2, NotHandling DEF NoTask
    <3>3. CASE task' = [task EXCEPT !.at = "preJoin"] /\ mod' = mod
      BY <1>1, <2>2, <3>3 DEF Linked, JoinWaits, TaskType
    <3> QED
      BY <3>1, <3>2, <3>3
  <2> QED
    BY <1>3, <2>3, <2>4, <2>5, <2>6 DEF Update
<1>4. ~Upload
  BY <1>1 DEF Upload, StartModify, UploadAccepted, Accepts, ApplyOwn, UploadConflict,
         StartRefetch, UploadRefused, UploadFails
<1>5. ~StartFetch
  BY <1>1 DEF StartFetch
<1>6. /\ \A v, change : ~StartMessage(v, change)
      /\ \A kind, p : ~UserModifies(kind, p)
      /\ \A kind : ~JoinViaLink(kind)
  BY <1>1 DEF StartMessage, UserModifies, JoinViaLink
<1> QED
  BY <1>2, <1>3, <1>4, <1>5, <1>6 DEF Next

LEMMA UploadsHandling ==
  ASSUME IInv, Chained, Handling, Upload
  PROVE  HInv'
<1>1. task \in TaskType
  BY DEF IInv, TypeOK
<1>2. ASSUME Accepts \/ UNCHANGED log
      PROVE  Longer
  BY <1>2, AcceptsIsLonger, SameIsLonger
<1>3. task.at \in {"upload", "apply"} => task.job # "message"
  BY DEF Handling
<1>4. CASE StartModify
  <2>1. Longer /\ UNCHANGED group
    BY <1>2, <1>4 DEF StartModify
  <2>2. task'.job = "modify" \/ UNCHANGED task
    BY <1>4 DEF StartModify, NoTask
  <2> QED
    BY <2>1, <2>2, HandlingWaits, NotHandling DEF HInv, Longer
<1>5. CASE StartRefetch
  <2>1. Longer /\ UNCHANGED group
    BY <1>2, <1>5 DEF StartRefetch
  <2>2. task'.job = "refetch" \/ UNCHANGED task
    BY <1>5 DEF StartRefetch, Fetch, NoTask
  <2> QED
    BY <2>1, <2>2, HandlingWaits, NotHandling DEF HInv, Longer
<1>6. CASE UploadAccepted
  <2>1. Longer
    BY <1>2, <1>6 DEF UploadAccepted
  <2>2. task'.job # "message"
    BY <1>1, <1>3, <1>6 DEF UploadAccepted, Accepts, TaskType
  <2> QED
    BY <2>1, <2>2, NotHandling DEF HInv, Longer
<1>7. CASE ApplyOwn
  <2>1. Longer
    BY <1>2, <1>7 DEF ApplyOwn
  <2>2. task'.job # "message"
    <3>1. task.at = "apply" /\ SingleChange(task)
      BY <1>7 DEF ApplyOwn
    <3>2. Rejected \/ task'.job = task.job
      <4> DEFINE after == integrateGroupChange(group, task.change, FALSE, task.newRevision)
                 place == IF group.left /\ ~after.left THEN "joined" ELSE "update"
      <4>1. Rejected \/ task' = [task EXCEPT !.attributes = after, !.at = place]
        BY <3>1 DEF SingleChange
      <4> HIDE DEF after, place
      <4> QED
        BY <1>1, <4>1 DEF TaskType
    <3> QED
      BY <1>3, <3>1, <3>2 DEF Rejected, NoTask
  <2> QED
    BY <2>1, <2>2, NotHandling DEF HInv, Longer
<1>8. CASE UploadConflict \/ UploadRefused \/ UploadFails
  <2>1. Longer
    BY <1>2, <1>8 DEF UploadConflict, UploadRefused, UploadFails
  <2>2. task'.job # "message"
    BY <1>8 DEF UploadConflict, UploadRefused, UploadFails, NoTask
  <2> QED
    BY <2>1, <2>2, NotHandling DEF HInv, Longer
<1> QED
  BY <1>4, <1>5, <1>6, <1>7, <1>8 DEF Upload

LEMMA UpdatesHandling ==
  ASSUME IInv, Chained, Handling, Update
  PROVE  HInv'
<1>1. UNCHANGED log
  BY DEF Update, LogAnswered, LogDenied, IntegrateNext, StateAnswered, StateDenied,
         PreJoinAnswered, Left, RequestFails, UpdateGroup
<1>2. Chained'
  BY <1>1, SameIsLonger DEF Longer
<1>3. /\ task \in TaskType /\ group \in GroupType /\ Latest \in Nat
      /\ Latest \in 0..Latest /\ Latest \in Revisions
      /\ TypeOK /\ LogSound
  BY LogFacts DEF IInv, TypeOK
<1>4. CASE LogDenied
  <2>1. /\ task'.job = task.job /\ task'.newRevision = task.newRevision
        /\ task'.at = "state"
    BY <1>3, <1>4 DEF LogDenied, TaskType
  <2> QED
    BY <1>1, <1>2, <2>1, HandlingAsks DEF HInv
<1>5. CASE StateDenied
  <2>1. CASE Rejected
    BY <1>2, <2>1, NotHandling DEF Rejected, NoTask, HInv
  <2>2. CASE task' = [task EXCEPT !.at = "preJoin"]
    <3>1. /\ task'.job = task.job /\ task'.newRevision = task.newRevision
          /\ task'.at = "preJoin"
      BY <1>3, <2>2 DEF TaskType
    <3> QED
      BY <1>1, <1>2, <3>1, HandlingAsks DEF HInv
  <2> QED
    BY <1>5, <2>1, <2>2 DEF StateDenied
<1>6. CASE StateAnswered
  <2>1. Ready(applyState(group, Latest)) /\ applyState(group, Latest).revision = Latest
    BY <1>6 DEF StateAnswered, applyState
  <2>2. applyState(group, Latest) \in GroupType
    BY <1>3, StatesAreSound
  <2> QED
    BY <1>1, <1>2, <2>1, <2>2, ReadyHandling DEF HInv
<1>7. CASE PreJoinAnswered
  <2>1. Ready(preJoinGroup(group)) /\ preJoinGroup(group).revision = Latest
    BY <1>3, <1>7 DEF PreJoinAnswered, preJoinGroup, GroupType
  <2>2. preJoinGroup(group) \in GroupType
    BY <1>3, GroupChangesAssumption DEF preJoinGroup, GroupType, ListsType
  <2> QED
    BY <1>1, <1>2, <2>1, <2>2, ReadyHandling DEF HInv
<1>8. CASE Left
  <2>1. PICK revision \in {group.revision, Latest} : Ready(leftGroup(group, revision))
    BY <1>8 DEF Left
  <2>2. revision \in Revisions \cup {None}
    BY <1>3, <2>1 DEF GroupType
  <2>3. leftGroup(group, revision) \in GroupType /\ leftGroup(group, revision).left
    BY <1>3, <2>2, LeftIsTyped
  <2> QED
    BY <1>1, <1>2, <2>1, <2>3, ReadyHandling DEF HInv
<1>9. CASE RequestFails \/ UpdateGroup
  <2>1. task'.job # "message"
    BY <1>9 DEF RequestFails, Rejected, UpdateGroup, NoTask
  <2> QED
    BY <1>2, <2>1, NotHandling DEF HInv
<1> QED
  BY <1>2, <1>4, <1>5, <1>6, <1>7, <1>8, <1>9, LogAnsweredHandling, IntegrateNextHandling
  DEF Update, HInv

-----------------------------------------------------------------------------
(* The theorem *)

LEMMA InitHandling ==
  ASSUME Init
  PROVE  HInv
<1>1. Latest = 0
  BY DEF Init, Latest
<1> QED
  BY <1>1 DEF Init, HInv, Chained, Handling, NoTask

LEMMA NextHandling ==
  ASSUME IInv, HInv, [Next]_vars
  PROVE  Chained' /\ (Handling' \/ Linked')
<1>1. CASE UNCHANGED vars
  <2>1. UNCHANGED <<log, group, task>>
    BY <1>1 DEF vars
  <2> QED
    BY <2>1, SameIsLonger, HandlingWaits DEF HInv, Longer
<1>2. ASSUME NEW kind \in OthersKinds, NEW p \in People, NEW actor \in {p, None},
             OthersChange(kind, actor, p)
      PROVE  HInv'
  BY <1>2, OthersChangeHandling
<1>3. ASSUME NEW v \in Revisions, v <= Latest, NEW change \in Changes(v),
             StartMessage(v, change)
      PROVE  HInv'
  <2>1. UNCHANGED log
    BY <1>3 DEF StartMessage
  <2> QED
    BY <1>3, <2>1, SameIsLonger, StartMessageHandling DEF HInv, Longer
<1>4. ASSUME NEW kind \in OurKinds, NEW p \in People, UserModifies(kind, p)
      PROVE  HInv'
  <2>1. UNCHANGED <<log, group, task>>
    BY <1>4 DEF UserModifies
  <2> QED
    BY <2>1, SameIsLonger, HandlingWaits DEF HInv, Longer
<1>5. ASSUME NEW kind \in {"join", "addPendingApprovalRequest"}, JoinViaLink(kind)
      PROVE  Chained' /\ (Handling' \/ Linked')
  BY <1>5, JoinViaLinkHandling
<1>6. CASE StartFetch
  <2>1. UNCHANGED log /\ task'.job = "fetch"
    BY <1>6 DEF StartFetch, Fetch, NoTask
  <2> QED
    BY <2>1, SameIsLonger, NotHandling DEF HInv, Longer
<1> QED
  BY <1>1, <1>2, <1>3, <1>4, <1>5, <1>6, UpdatesHandling, UploadsHandling
  DEF Next, HInv

LEMMA HandlingInvariance == Spec => [](Chained /\ (Handling \/ Linked))
<1>1. IInv /\ Chained /\ (Handling \/ Linked) /\ [Next]_vars =>
          Chained' /\ (Handling' \/ Linked')
  <2>1. CASE IInv /\ HInv /\ [Next]_vars
    BY <2>1, NextHandling
  <2>2. CASE IInv /\ Chained /\ Linked /\ Next
    BY <2>2, LinkedStays
  <2>3. CASE IInv /\ Chained /\ Linked /\ UNCHANGED vars
    BY <2>3, SameIsLonger DEF Longer, Linked, JoinWaits, vars
  <2> QED
    BY <2>1, <2>2, <2>3 DEF HInv
<1> QED
  BY InitHandling, <1>1, Invariance, PTL DEF Spec, HInv

\* A message that is handled has brought the group to the revision it names or beyond,
\* or the device is known to be out of it, or joins by a link meanwhile; for any people,
\* log, page size and failures, and while others change the group.
THEOREM MessagesAreIncluded == Spec => []HandledIsIncluded
<1>1. Handling \/ Linked => HandledIsIncluded
  BY DEF Handling, Linked, InUpdate, Reached, HandledIsIncluded
<1> QED
  BY <1>1, HandlingInvariance, PTL

=============================================================================
