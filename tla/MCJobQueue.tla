----------------------------- MODULE MCJobQueue -----------------------------
(***************************************************************************)
(* Instances of JobQueue: jobs of a conversation and of another one.       *)
(***************************************************************************)
EXTENDS JobQueue

CONSTANTS alice, bob

ThreeKeys == <<alice, alice, bob>>

=============================================================================
