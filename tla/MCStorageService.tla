-------------------------- MODULE MCStorageService --------------------------
(* Two devices and two conversations.  Both users change one of them, so that *)
(* changes cross; one changes the other, too, so that a change does not cross.*)
EXTENDS StorageService

CONSTANTS laptop, desktop, alice, bob, none

TheEdits == {<<laptop, alice>>, <<desktop, alice>>, <<desktop, bob>>}
TheFillingEdits == {<<desktop, alice>>}
=============================================================================
