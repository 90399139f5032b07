---------------------------- MODULE GroupChanges ----------------------------
(***************************************************************************)
(* The lists of people of a group (ts/groups.ts): how a device builds a    *)
(* change of them, and how it applies one.  A change is a record with one  *)
(* set of people per list of Proto.GroupChange.Actions, for the lists that *)
(* say who is in the group, with what role, invited, asking to join, or    *)
(* banned.  Titles, timers and access rights change like a title does, by  *)
(* one assignment; here they are the change that leaves the lists alone.   *)
(***************************************************************************)
CONSTANTS
    People,
    Us

ASSUME GroupChangesAssumption == Us \in People

\* membersV2 with those whose role is ADMINISTRATOR, pendingMembersV2,
\* pendingAdminApprovalV2 and bannedMembersV2.
ListsType == [members : SUBSET People, admins : SUBSET People, pending : SUBSET People,
              approval : SUBSET People, banned : SUBSET People]

ActionsType ==
    [addMembers : SUBSET People, deleteMembers : SUBSET People,
     makeAdmins : SUBSET People, makeDefault : SUBSET People,
     addPending : SUBSET People, deletePending : SUBSET People,
     promotePending : SUBSET People,
     addApproval : SUBSET People, deleteApproval : SUBSET People,
     promoteApproval : SUBSET People,
     addBanned : SUBSET People, deleteBanned : SUBSET People]

\* A change of the title, say
NoActions ==
    [addMembers |-> {}, deleteMembers |-> {}, makeAdmins |-> {}, makeDefault |-> {},
     addPending |-> {}, deletePending |-> {}, promotePending |-> {},
     addApproval |-> {}, deleteApproval |-> {}, promoteApproval |-> {},
     addBanned |-> {}, deleteBanned |-> {}]

-----------------------------------------------------------------------------
(* Building a change from the lists g a device has *)

\* Whom the change of actor bans together with what it does to p.  That the oldest
\* are taken off a full list is left out.
maybeBuildAddBannedMember(g, actor, p) == {p} \ (g.banned \cup {actor})

buildAddMember(g, p) ==
    [NoActions EXCEPT !.addMembers = {p}, !.deleteBanned = {p} \cap g.banned]
\* Without a profile key of p, p is invited.
buildAddPendingMember(g, p) ==
    [NoActions EXCEPT !.addPending = {p}, !.deleteBanned = {p} \cap g.banned]
buildDeleteMember(g, actor, p) ==
    [NoActions EXCEPT !.deleteMembers = {p},
                      !.addBanned = maybeBuildAddBannedMember(g, actor, p)]
buildDeletePendingMember(p) == [NoActions EXCEPT !.deletePending = {p}]
buildPromoteMember(p) == [NoActions EXCEPT !.promotePending = {p}]
buildAddPendingAdminApprovalMember(p) == [NoActions EXCEPT !.addApproval = {p}]
buildDeletePendingAdminApprovalMember(g, actor, p) ==
    [NoActions EXCEPT !.deleteApproval = {p},
                      !.addBanned = maybeBuildAddBannedMember(g, actor, p)]
buildPromotePendingAdminApprovalMember(p) == [NoActions EXCEPT !.promoteApproval = {p}]
buildModifyMemberRole(g, p) ==
    IF p \in g.admins THEN [NoActions EXCEPT !.makeDefault = {p}]
                      ELSE [NoActions EXCEPT !.makeAdmins = {p}]
buildAddBannedMember(g, p) ==
    [NoActions EXCEPT !.addBanned = {p}, !.deleteApproval = {p} \cap g.approval]

\* What the commands of a conversation look for in the lists again at each attempt:
\* "This user's pending state may have changed in the time between the user's button
\* press and when we get here."  buildAddMembersChange does not look.
StillWanted(g, kind, p) ==
    CASE kind \in {"addMember", "addPendingMember", "modifyTitle"} -> TRUE
      [] kind = "join" -> p \notin g.members
      [] kind \in {"removeMember", "toggleAdmin"} -> p \in g.members
      [] kind \in {"promotePendingMember", "removePendingMember"} -> p \in g.pending
      [] kind = "addPendingApprovalRequest" -> p \notin g.approval
      [] kind \in {"denyPendingApprovalRequest", "approvePendingApprovalRequest"} ->
            p \in g.approval
      [] kind = "addBannedMember" ->
            p \notin g.members \cup g.pending \cup g.banned

\* By actor
ActionsFor(g, kind, actor, p) ==
    CASE kind \in {"addMember", "join"} -> buildAddMember(g, p)
      [] kind = "addPendingMember" -> buildAddPendingMember(g, p)
      [] kind = "removeMember" -> buildDeleteMember(g, actor, p)
      [] kind = "toggleAdmin" -> buildModifyMemberRole(g, p)
      [] kind = "promotePendingMember" -> buildPromoteMember(p)
      [] kind = "removePendingMember" -> buildDeletePendingMember(p)
      [] kind = "addPendingApprovalRequest" -> buildAddPendingAdminApprovalMember(p)
      [] kind = "denyPendingApprovalRequest" ->
            buildDeletePendingAdminApprovalMember(g, actor, p)
      [] kind = "approvePendingApprovalRequest" ->
            buildPromotePendingAdminApprovalMember(p)
      [] kind = "addBannedMember" -> buildAddBannedMember(g, p)
      [] kind = "modifyTitle" -> NoActions

\* Only somebody who is not a member does these, about themselves.
OwnKinds == {"join", "promotePendingMember", "addPendingApprovalRequest"}
\* These a member does to others, or somebody about themselves
EitherKinds == {"removePendingMember", "denyPendingApprovalRequest"}
MemberKinds == {"addMember", "addPendingMember", "removeMember", "toggleAdmin",
                "approvePendingApprovalRequest", "addBannedMember", "modifyTitle"}
Kinds == OwnKinds \cup EitherKinds \cup MemberKinds

-----------------------------------------------------------------------------
(* Applying a change, list after list in the order of the code *)

Members(g, a) == (g.members \cup a.addMembers) \ a.deleteMembers
Invited(g, a) == ((g.pending \ (a.addMembers \ g.members))
                    \cup (a.addPending \ Members(g, a))) \ a.deletePending
MembersThen(g, a) == Members(g, a) \cup a.promotePending
InvitedThen(g, a) == Invited(g, a) \ a.promotePending
\* Mutant: who is let in stays on the list.
AskingStill(g, a) == (g.approval \cup a.addApproval) \ a.deleteApproval

Asking(g, a) ==
    (g.approval \cup (a.addApproval \ (MembersThen(g, a) \cup InvitedThen(g, a))))
        \ (a.deleteApproval \cup a.promoteApproval)

\* applyGroupChange throws: a role for somebody unknown, or a promotion of one who
\* was never invited.
CannotApply(g, a) ==
    \/ ~(a.makeAdmins \cup a.makeDefault \subseteq Members(g, a))
    \/ ~(a.promotePending \subseteq Invited(g, a) \cup Members(g, a))

\* What the lists are after the change
applyGroupChange(g, a) ==
    [members |-> MembersThen(g, a) \cup a.promoteApproval,
     admins |-> ((g.admins \ a.deleteMembers) \cup a.makeAdmins) \ a.makeDefault,
     pending |-> InvitedThen(g, a),
     approval |-> Asking(g, a),
     banned |-> (g.banned \cup a.addBanned) \ a.deleteBanned]

-----------------------------------------------------------------------------
(* The server, which is not part of the repository, takes a change if each of its  *)
(* parts is about somebody on the list it names, and if nobody is on two lists      *)
(* after it.                                                                        *)

OnOneList(g) ==
    /\ g.admins \subseteq g.members
    /\ g.members \cap g.pending = {} /\ g.members \cap g.approval = {}
    /\ g.pending \cap g.approval = {}
    /\ g.banned \cap (g.members \cup g.pending \cup g.approval) = {}

AfterOnServer(g, a) ==
    [members |-> (g.members \cup a.addMembers \cup a.promotePending
                    \cup a.promoteApproval) \ a.deleteMembers,
     admins |-> (g.admins \cup a.makeAdmins) \ (a.makeDefault \cup a.deleteMembers),
     pending |-> (g.pending \cup a.addPending) \ (a.deletePending \cup a.promotePending),
     approval |-> (g.approval \cup a.addApproval)
                    \ (a.deleteApproval \cup a.promoteApproval),
     banned |-> (g.banned \cup a.addBanned) \ a.deleteBanned]

ServerTakes(g, a) ==
    /\ a.addMembers \cup a.addPending \cup a.addApproval
         \subseteq People \ (g.members \cup g.pending \cup g.approval)
    /\ a.deleteMembers \cup a.makeAdmins \cup a.makeDefault \subseteq g.members
    /\ a.deletePending \cup a.promotePending \subseteq g.pending
    /\ a.deleteApproval \cup a.promoteApproval \subseteq g.approval
    /\ OnOneList(AfterOnServer(g, a))

=============================================================================
