---------------------------- MODULE MCSendStates ----------------------------
(***************************************************************************)
(* Instances of SendStates: a group of two others, whose receipts overtake *)
(* one another.                                                            *)
(***************************************************************************)
EXTENDS SendStates

CONSTANTS alice, bob, me

Two == {alice, bob}
DeliveredAndRead ==
    {[from |-> alice, type |-> "Delivered"], [from |-> alice, type |-> "Read"]}
OneLeaves == {alice}

=============================================================================
