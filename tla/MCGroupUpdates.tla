--------------------------- MODULE MCGroupUpdates ---------------------------
(***************************************************************************)
(* Instances of GroupUpdates: ourselves and one other person, in a group    *)
(* that may have further members, who change it.                            *)
(***************************************************************************)
EXTENDS GroupUpdates

CONSTANTS us, other

Empty == [members |-> {}, admins |-> {}, pending |-> {}, approval |-> {}, banned |-> {}]

\* Both are in, only we are and the other asks to join, or neither is.
TheInitLists ==
    {[Empty EXCEPT !.members = {us, other}, !.admins = {us}],
     [Empty EXCEPT !.members = {us}, !.admins = {us}, !.approval = {other}],
     Empty}

\* The kinds that are left out are among the others for one of the two.
TheOthersKinds == Kinds \ {"join", "addBannedMember", "removePendingMember"}
TheOurKinds == {"join", "addPendingApprovalRequest", "promotePendingMember",
                "removeMember", "toggleAdmin", "approvePendingApprovalRequest"}

=============================================================================
