------------------------- MODULE MCConversationJobs -------------------------
(* Two conversations that share a contact, and three jobs. *)
EXTENDS ConversationJobs

CONSTANTS direct, group, alice

TheContacts == [c \in {direct, group} |-> {alice}]
TwoAndOne == <<direct, direct, group>>
=============================================================================
