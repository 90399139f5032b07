---------------------------- MODULE GroupUpdates ----------------------------
(***************************************************************************)
(* One group of version 2 on one device (ts/groups.ts): the server keeps    *)
(* the group as a log of revisions, everybody changes it, and the device    *)
(* follows from the messages it gets, from the log, or from the whole       *)
(* state, and uploads changes of its own.  Messages, fetches and uploads    *)
(* are jobs of the conversation's queue, which runs one at a time; the      *)
(* server and joinViaLink do not wait for it.                               *)
(*                                                                          *)
(* The messages of the timeline that tell of a change are left out, and the *)
(* order in which jobs come into the queue: any job may be the next.  So    *)
(* are crashes: a restart finds attributes the device had before, and no    *)
(* job.                                                                     *)
(***************************************************************************)
EXTENDS GroupChanges, Naturals, FiniteSets, Sequences

CONSTANTS
    None,
    MaxAttempts,    \* MAX_ATTEMPTS of modifyGroupV2
    PageSize,       \* changes the server returns at a time
    InitLists,      \* the lists the group may be created with
    Unsupported,    \* revisions that may have a changeEpoch this device does not know
    OthersKinds,    \* bound: the changes that others make
    OurKinds,       \* bound: the changes that this device makes
    MaxRevision,    \* bound: changes of the group
    MaxTroubles     \* bound: failed requests and rejected credentials

ASSUME GroupUpdatesAssumption ==
    /\ None \notin People \cup Nat
    /\ MaxAttempts \in Nat \ {0} /\ PageSize \in Nat \ {0}
    /\ MaxRevision \in Nat /\ MaxTroubles \in Nat
    /\ Unsupported \subseteq Nat
    /\ OthersKinds \subseteq Kinds /\ OurKinds \subseteq Kinds
    /\ InitLists \subseteq {g \in ListsType : OnOneList(g)}

VARIABLES
    log,        \* of the server: log[v + 1] is revision v
    group,      \* attributes of the conversation
    task,       \* the job of the queue that runs
    mod,        \* the modifyGroupV2 under way
    troubles

vars == <<log, group, task, mod, troubles>>

Revisions == 0..MaxRevision
EntryType == [lists : ListsType, actions : ActionsType, supported : BOOLEAN]
Latest == Len(log) - 1
At(v) == log[v + 1].lists

\* presumed: history, what the device has is in part from preJoinInfo, from a request
\* it was refused, or from a change beyond the next one while it awaits approval
GroupType == [revision : Revisions \cup {None}, lists : ListsType,
              left : BOOLEAN, presumed : BOOLEAN]

ASSUME NoneAssumption == None \notin GroupType

Nobody == [members |-> {}, admins |-> {}, pending |-> {}, approval |-> {}, banned |-> {}]
Unknown == [revision |-> None, lists |-> Nobody, left |-> FALSE, presumed |-> FALSE]
Awaiting(g) == Us \in g.lists.approval

NoTask == [job |-> "none", at |-> "none", newRevision |-> None, change |-> None,
           from |-> None, todo |-> {}, states |-> {}, attributes |-> Unknown]
NoMod == [at |-> "none", kind |-> "modifyTitle", who |-> Us, attempt |-> 0]

Init ==
    /\ \E first \in InitLists :
          /\ log = <<[lists |-> first, actions |-> NoActions, supported |-> TRUE]>>
          /\ \/ group = Unknown
             \/ /\ Us \in first.members
                /\ group = [revision |-> 0, lists |-> first, left |-> FALSE,
                            presumed |-> FALSE]
    /\ task = NoTask /\ mod = NoMod
    /\ troubles = 0

Trouble ==
    /\ troubles < MaxTroubles
    /\ troubles' = troubles + 1

-----------------------------------------------------------------------------
(* The server and the others, who are outside of this repository *)

AppendChange(a, supported) ==
    log' = Append(log, [lists |-> AfterOnServer(At(Latest), a), actions |-> a,
                        supported |-> supported])

\* Somebody else, or another device of ours, changes the group.
OthersChange(kind, actor, p) ==
    LET a == ActionsFor(At(Latest), kind, actor, p)
    IN  /\ Latest < MaxRevision
        /\ kind \in OwnKinds => actor = p
        /\ StillWanted(At(Latest), kind, p) /\ ServerTakes(At(Latest), a)
        /\ \E supported \in {TRUE} \cup {Latest + 1 \notin Unsupported} :
              AppendChange(a, supported)
        /\ UNCHANGED <<group, task, mod, troubles>>

\* Who sends with revision v sends to members and invited, and to whom it has removed.
Addressed(v) ==
    \/ Us \in At(v).members \cup At(v).pending
    \/ v > 0 /\ Us \in At(v - 1).members \cup At(v - 1).pending \cup At(v - 1).approval

MayFetch == Us \in At(Latest).members \cup At(Latest).pending
MayReadLog(from) == Us \in At(Latest).members \cap At(from).members

\* joinedAtVersion
JoinedAt(v) ==
    /\ \A u \in v..Latest : Us \in At(u).members
    /\ v > 0 => Us \notin At(v - 1).members

-----------------------------------------------------------------------------
(* What an update makes of the attributes *)

applyState(g, v) ==
    [revision |-> v, lists |-> At(v), left |-> Us \notin At(v).members,
     presumed |-> FALSE]

WithChange(g, v) ==
    LET lists == applyGroupChange(g.lists, log[v + 1].actions)
    IN  [g EXCEPT !.revision = v, !.lists = lists, !.left = Us \notin lists.members,
                  !.presumed = @ \/ (Awaiting(g) /\ v # g.revision + 1)]

\* canApplyChange; only revision 0 is without a change.
canApplyChange(g, v) ==
    /\ v > 0 /\ log[v + 1].supported
    /\ g.revision # None /\ g.revision # v
    /\ v > g.revision + 1 => Awaiting(g)

\* The attributes after the change of revision v and, if the server sent it, the
\* state; None if it throws.
integrateGroupChange(g, v, withState, newRevision) ==
    IF v > 0 /\ \/ newRevision # None /\ v > newRevision
                \/ g.revision # None /\ v < g.revision
    THEN g
    ELSE IF \/ canApplyChange(g, v) /\ CannotApply(g.lists, log[v + 1].actions)
            \/ ~canApplyChange(g, v) /\ ~withState
    THEN None
    ELSE IF withState THEN applyState(g, v) ELSE WithChange(g, v)

WithoutUs(lists) ==
    [lists EXCEPT !.members = @ \ {Us}, !.admins = @ \ {Us},
                  !.pending = @ \ {Us}, !.approval = @ \ {Us}]

leftGroup(g, revision) ==
    [g EXCEPT !.revision = revision, !.left = TRUE, !.presumed = TRUE,
              !.lists = WithoutUs(@)]

\* members is emptied, which is a list of groups of version 1, but not membersV2.
preJoinGroup(g) ==
    [g EXCEPT !.revision = Latest, !.presumed = TRUE,
              !.lists.pending = {}, !.lists.approval = {Us}]

-----------------------------------------------------------------------------
(* Jobs *)

\* Mutant: the loop goes on at MAX_ATTEMPTS.
AfterRefetchOnceMore ==
    IF mod.attempt <= MaxAttempts THEN [mod EXCEPT !.at = "queued"] ELSE NoMod

AfterRefetch ==
    IF mod.attempt < MaxAttempts THEN [mod EXCEPT !.at = "queued"] ELSE NoMod

\* The job rejects: a message stays in the table of unprocessed ones, a failed fetch
\* is logged, and modifyGroupV2 passes the error on.
Rejected ==
    /\ task' = NoTask
    /\ mod' = CASE task.job = "modify" -> NoMod
                [] task.job = "refetch" -> AfterRefetch
                [] OTHER -> mod

Ready(attributes) == task' = [task EXCEPT !.at = "update", !.attributes = attributes,
                                          !.todo = {}, !.states = {}]

\* updateGroupViaSingleChange of a job t: one that was just let in fetches the state.
SingleChange(t) ==
    LET after == integrateGroupChange(group, t.change, FALSE, t.newRevision)
    IN  \/ /\ after = None
           /\ Rejected
        \/ /\ after # None
           /\ task' = [t EXCEPT !.attributes = after,
                                !.at = IF group.left /\ ~after.left
                                       THEN "joined" ELSE "update"]
           /\ UNCHANGED mod

FromLog(t) == [t EXCEPT !.at = "log", !.from = group.revision]

\* handleDataMessage: the message names a revision that is news, and may bring a change,
\* which has the signature of the server.  isInitialCreationMessage is about a change of
\* revision 0, and there is none.
StartMessage(v, change) ==
    /\ task = NoTask
    /\ v <= Latest /\ Addressed(v)
    /\ group.revision # None => v > group.revision
    /\ LET t == [NoTask EXCEPT !.job = "message", !.newRevision = v, !.change = change]
           single == /\ change # None /\ log[change + 1].supported
                     /\ group.revision # None
                     /\ Awaiting(group) \/ v = group.revision + 1
       IN  IF single THEN SingleChange(t)
                     ELSE task' = FromLog(t) /\ UNCHANGED mod
    /\ UNCHANGED <<log, group, troubles>>

\* A change comes with its own revision.  One who joins by a link or an invitation
\* fetches the state after its change, and sends the change with that revision.
Changes(v) ==
    {None} \cup {u \in 1..v : \/ u = v
                              \/ log[u + 1].actions.addMembers # {}
                              \/ log[u + 1].actions.promotePending # {}}

\* waitThenMaybeUpdateGroup: without a revision to reach
Fetch(job) == [NoTask EXCEPT !.job = job, !.from = group.revision,
                             !.at = IF group.revision = None THEN "state" ELSE "log"]

StartFetch ==
    /\ task = NoTask
    /\ task' = Fetch("fetch")
    /\ UNCHANGED <<log, group, mod, troubles>>

-----------------------------------------------------------------------------
(* getGroupUpdates: the log, else the state, else what those who are not in may see *)

\* Mutant: the page before the one with the revision is taken for enough.
EnoughOneEarly(to) ==
    to = Latest \/ (task.newRevision # None /\ to + 1 >= task.newRevision)

Enough(to) == to = Latest \/ (task.newRevision # None /\ to >= task.newRevision)

\* Where a page from..to has the state besides the change: maxSupportedChangeEpoch,
\* includeFirstState (of the first page) and includeLastState
WithState(from, to) ==
    {v \in from..to : v = to \/ ~log[v + 1].supported \/ (v = from /\ task.todo = {})}

\* From the revision the device has, or its first one; a page ends at to.
LogAnswered ==
    \E from, to \in 0..Latest :
        /\ task.at = "log"
        /\ IF task.from = None THEN JoinedAt(from) ELSE from = task.from
        /\ MayReadLog(from)
        /\ to = from + PageSize - 1 \/ (to = Latest /\ from + PageSize - 1 > Latest)
        /\ task' = [task EXCEPT !.at = IF Enough(to) THEN "integrate" ELSE "log",
                                !.from = to + 1, !.todo = @ \cup from..to,
                                !.states = @ \cup WithState(from, to),
                                !.attributes = group]
        /\ UNCHANGED <<log, group, mod, troubles>>

\* One turn of the loops of integrateGroupChanges, which logs what throws and goes on
IntegrateNext ==
    \E v \in task.todo :
        LET after == integrateGroupChange(task.attributes, v, v \in task.states,
                                          task.newRevision)
        IN  /\ task.at = "integrate"
            /\ \A u \in task.todo : v <= u
            /\ task' = [task EXCEPT !.todo = @ \ {v},
                                    !.attributes = IF after = None THEN @ ELSE after,
                                    !.at = IF task.todo = {v} THEN "update" ELSE @]
            /\ UNCHANGED <<log, group, mod, troubles>>

\* 403; 401 even with the credentials of tomorrow
LogDenied ==
    /\ task.at = "log"
    /\ \/ ~MayReadLog(IF task.from = None THEN Latest ELSE task.from) /\ UNCHANGED troubles
       \/ Trouble
    /\ task' = [task EXCEPT !.at = "state", !.todo = {}, !.states = {}]
    /\ UNCHANGED <<log, group, mod>>

StateAnswered ==
    /\ task.at \in {"state", "joined"}
    /\ MayFetch
    /\ Ready(applyState(group, Latest))
    /\ UNCHANGED <<log, group, mod, troubles>>

StateDenied ==
    /\ task.at \in {"state", "joined"}
    /\ ~MayFetch
    /\ IF task.at = "joined" THEN Rejected
                             ELSE task' = [task EXCEPT !.at = "preJoin"] /\ UNCHANGED mod
    /\ UNCHANGED <<log, group, troubles>>

\* Somebody asking to join may read preJoinInfo.
PreJoinAnswered ==
    /\ task.at = "preJoin"
    /\ Us \in At(Latest).approval
    /\ Ready(preJoinGroup(group))
    /\ UNCHANGED <<log, group, mod, troubles>>

\* Denied, or no approval is required: generateLeftGroupChanges, which looks for the
\* latest revision if there is an invite link.
Left ==
    /\ task.at = "preJoin"
    /\ \E revision \in {group.revision, Latest} : Ready(leftGroup(group, revision))
    /\ UNCHANGED <<log, group, mod, troubles>>

RequestFails ==
    /\ task.at \in {"log", "state", "joined", "preJoin"}
    /\ Trouble
    /\ Rejected
    /\ UNCHANGED <<log, group>>

-----------------------------------------------------------------------------
(* updateGroup, after the messages for the timeline are saved.  Those take time, in *)
(* which the conversation may change: it gets the attributes computed before.       *)

UpdateGroup ==
    /\ task.at = "update"
    /\ group' = task.attributes
    /\ task' = NoTask
    /\ mod' = CASE task.job = "modify" -> NoMod
                [] task.job = "refetch" -> AfterRefetch
                [] OTHER -> mod
    /\ UNCHANGED <<log, troubles>>

-----------------------------------------------------------------------------
(* modifyGroupV2 *)

Commands(kind, p) ==
    /\ StillWanted(group.lists, kind, p)
    /\ \/ kind = "promotePendingMember" /\ p = Us
       \/ kind \in EitherKinds /\ (p = Us \/ ~group.left)
       \/ kind \in MemberKinds /\ ~group.left
    /\ kind \in {"addMember", "addPendingMember"} => p \notin group.lists.members

UserModifies(kind, p) ==
    /\ mod = NoMod /\ group.revision # None
    /\ Commands(kind, p)
    /\ mod' = [at |-> "queued", kind |-> kind, who |-> p, attempt |-> 0]
    /\ UNCHANGED <<log, group, task, troubles>>

\* joinViaLink takes over the revision of preJoinInfo, which it read before its dialog,
\* outside of the queue, then joins or asks to.  If the device does not know the group
\* it makes a conversation that it has left.
JoinViaLink(kind) ==
    /\ mod = NoMod /\ Us \notin group.lists.members
    /\ kind = "addPendingApprovalRequest" => ~Awaiting(group)
    /\ \E seen \in Revisions :
          /\ seen <= Latest
          /\ group' = [group EXCEPT !.revision = seen, !.presumed = TRUE,
                                    !.left = @ \/ group.revision = None]
    /\ mod' = [at |-> "queued", kind |-> kind, who |-> Us, attempt |-> 0]
    /\ UNCHANGED <<log, task, troubles>>

NextRevision == (IF group.revision = None THEN 0 ELSE group.revision) + 1

\* An attempt runs: no change is built if what it was to change has changed.
StartModify ==
    /\ task = NoTask /\ mod.at = "queued"
    /\ IF StillWanted(group.lists, mod.kind, mod.who)
       THEN /\ task' = [NoTask EXCEPT !.job = "modify", !.at = "upload",
                                      !.newRevision = NextRevision,
                                      !.change = NextRevision]
            /\ mod' = [mod EXCEPT !.at = "running"]
       ELSE mod' = NoMod /\ UNCHANGED task
    /\ UNCHANGED <<log, group, troubles>>

Built == ActionsFor(group.lists, mod.kind, Us, mod.who)

\* The server lets us
MayUpload ==
    LET now == At(Latest)
    IN  \/ mod.kind \in OwnKinds /\ mod.who = Us
        \/ mod.kind \in EitherKinds /\ (mod.who = Us \/ Us \in now.members)
        \/ mod.kind \in MemberKinds /\ Us \in now.members

Accepts ==
    /\ task.at = "upload"
    /\ Latest < MaxRevision
    /\ task.newRevision = Latest + 1
    /\ MayUpload /\ ServerTakes(At(Latest), Built)
    /\ AppendChange(Built, TRUE)

\* The server answers with the change, which the job awaits no more to apply.
UploadAccepted ==
    /\ Accepts
    /\ task' = [task EXCEPT !.at = "apply"]
    /\ UNCHANGED <<group, mod, troubles>>

ApplyOwn ==
    /\ task.at = "apply"
    /\ SingleChange(task)
    /\ UNCHANGED <<log, group, troubles>>

\* 409: fetchLatestGroupV2Data, and again; after a minute, the error is passed on.
UploadConflict ==
    /\ task.at = "upload"
    /\ task.newRevision # Latest + 1
    /\ task' = NoTask
    /\ mod' \in {[mod EXCEPT !.at = "conflict", !.attempt = @ + 1], NoMod}
    /\ UNCHANGED <<log, group, troubles>>

\* The group may be blocked, in which case nothing is fetched.
StartRefetch ==
    /\ mod.at = "conflict"
    /\ \/ /\ task = NoTask
          /\ task' = Fetch("refetch")
          /\ mod' = [mod EXCEPT !.at = "running"]
       \/ mod' = AfterRefetch /\ UNCHANGED task
    /\ UNCHANGED <<log, group, troubles>>

\* Any other answer ends it.  joinGroupV2ViaLink takes "already asked to join" for done.
UploadRefused ==
    /\ task.at = "upload"
    /\ ~MayUpload \/ ~ServerTakes(At(Latest), Built)
    /\ task' = NoTask /\ mod' = NoMod
    /\ group' = IF mod.kind = "addPendingApprovalRequest" /\ Us \in At(Latest).approval
                THEN [group EXCEPT !.lists.approval = {Us}, !.presumed = TRUE]
                ELSE group
    /\ UNCHANGED <<log, troubles>>

\* The request fails, or only its answer is lost.
UploadFails ==
    /\ task.at = "upload"
    /\ Trouble
    /\ Accepts \/ UNCHANGED log
    /\ task' = NoTask /\ mod' = NoMod
    /\ UNCHANGED <<group>>

-----------------------------------------------------------------------------

Update ==
    \/ LogAnswered \/ LogDenied \/ IntegrateNext
    \/ StateAnswered \/ StateDenied \/ PreJoinAnswered \/ Left \/ RequestFails
    \/ UpdateGroup

Upload ==
    \/ StartModify \/ UploadAccepted \/ ApplyOwn \/ UploadConflict \/ StartRefetch
    \/ UploadRefused \/ UploadFails

Next ==
    \/ \E kind \in OthersKinds, p \in People : \E actor \in {p, None} :
          OthersChange(kind, actor, p)
    \/ \E v \in Revisions : v <= Latest /\ \E change \in Changes(v) : StartMessage(v, change)
    \/ \E kind \in OurKinds, p \in People : UserModifies(kind, p)
    \/ \E kind \in {"join", "addPendingApprovalRequest"} \cap OurKinds :
          JoinViaLink(kind)
    \/ StartFetch
    \/ Update \/ Upload

Spec == Init /\ [][Next]_vars

-----------------------------------------------------------------------------
(* Properties *)

Places == {"none", "log", "integrate", "state", "joined", "preJoin", "update",
           "upload", "apply"}

TaskType == [job : {"none", "message", "fetch", "refetch", "modify"}, at : Places,
             newRevision : Nat \cup {None}, change : Nat \cup {None},
             from : Nat \cup {None}, todo : SUBSET Revisions, states : SUBSET Revisions,
             attributes : GroupType]

ModType == [at : {"none", "queued", "running", "conflict"}, kind : Kinds,
            who : People, attempt : 0..MaxAttempts]

TypeOK ==
    /\ log \in Seq(EntryType) /\ Latest \in Revisions
    /\ group \in GroupType /\ task \in TaskType /\ mod \in ModType
    /\ troubles \in 0..MaxTroubles

\* The lists are those of the revision we are at, whatever mix of messages, pages of
\* the log, states and changes of our own they were made from.
UpToDate ==
    group.revision # None /\ ~group.presumed =>
        /\ group.revision <= Latest
        /\ group.lists = At(group.revision)
        /\ group.left <=> Us \notin group.lists.members

\* joinViaLink has taken over a revision, maybe an older one, and waits for the job.
JoinWaits == mod.at = "queued" /\ mod.kind \in {"join", "addPendingApprovalRequest"}

\* A message that is handled brings us to its revision or beyond, if we know the group
\* by then and the change it brings is that of its revision.  Exempt is a device that is
\* no member after it (left), which includes one that is invited or asks to join: it
\* cannot read the log, and takes what it may see.  So is one that joins by a link
\* meanwhile.
HandledIsIncluded ==
    task.job = "message" /\ task.at = "update" /\ task.attributes.revision # None
        /\ task.change \in {None, task.newRevision} =>
        \/ task.attributes.revision >= task.newRevision
        \/ task.attributes.left \/ JoinWaits

=============================================================================
