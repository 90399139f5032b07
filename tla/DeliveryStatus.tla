--------------------------- MODULE DeliveryStatus ---------------------------
(***************************************************************************)
(* What the rows of the messages table promise about the delivery of one   *)
(* outgoing message, whoever sent it and whatever happens in between: a    *)
(* status only claims what has happened, and it never goes backwards.      *)
(***************************************************************************)
EXTENDS Integers

CONSTANTS
    Recipients,   \* the other members of the conversation
    Me,           \* our own conversation: stands for our other devices
    Receipts      \* receipts recipients may send: [from |-> , type |-> ]

VARIABLES
    status,     \* sendStateByConversationId in the table
    accepted,   \* recipients whose message the server has taken
    issued      \* receipts that recipients have sent

vars == <<status, accepted, issued>>

All == Recipients \cup {Me}
SendStatus == {"Failed", "Pending", "Sent", "Delivered", "Read", "Viewed"}

\* "none": there is no entry for the recipient, or no row yet.
STATUS_NUMBERS == [none |-> -1, Failed |-> 0, Pending |-> 1, Sent |-> 2,
                   Delivered |-> 3, Read |-> 4, Viewed |-> 5]
AtLeast(a, b) == STATUS_NUMBERS[a] >= STATUS_NUMBERS[b]
IsSent(a) == AtLeast(a, "Sent")

\* Only a recipient that was being tried may be given up.
Forward(old, new) == AtLeast(new, old) \/ (old = "Pending" /\ new = "Failed")

Claims(p, s) ==
    /\ s = "Sent" /\ p # Me => p \in accepted
    /\ AtLeast(s, "Delivered") => [from |-> p, type |-> s] \in issued

TypeOK ==
    /\ status \in [All -> SendStatus \cup {"none"}]
    /\ accepted \subseteq Recipients
    /\ issued \subseteq Receipts

Init ==
    /\ status = [p \in All |-> "none"]
    /\ accepted \in SUBSET Recipients   \* another device may have sent it already
    /\ issued = {}

Accept(p) ==
    /\ accepted' = accepted \cup {p}
    /\ UNCHANGED <<status, issued>>

Issue(k) ==
    /\ k.from \in accepted
    /\ issued' = issued \cup {k}
    /\ UNCHANGED <<status, accepted>>

\* One write of the row may move several recipients.
Write ==
    /\ status' \in [All -> SendStatus \cup {"none"}]
    /\ \A p \in All : Forward(status[p], status'[p]) /\ Claims(p, status'[p])
    /\ UNCHANGED <<accepted, issued>>

Next ==
    \/ \E p \in Recipients : Accept(p)
    \/ \E k \in Receipts : Issue(k)
    \/ Write

Spec == Init /\ [][Next]_vars

=============================================================================
