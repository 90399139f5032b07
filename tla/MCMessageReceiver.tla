-------------------------- MODULE MCMessageReceiver --------------------------
(***************************************************************************)
(* Instances of MessageReceiver: what the server holds for this device, in *)
(* the order it sends it, and the conversation each message is of.         *)
(***************************************************************************)
EXTENDS MessageReceiver

TwoMessages == <<"message", "message">>
ThreeMessages == <<"message", "message", "message">>
WithDrops == <<"unknownUuid", "blocked", "message", "message">>
WithFailures == <<"receipt", "message", "broken">>

OneOfTwo == <<"c1", "c1">>
OneOfThree == <<"c1", "c1", "c1">>
OneOfFour == <<"c1", "c1", "c1", "c1">>
TwoOfThree == <<"c1", "c2", "c1">>

=============================================================================
