------------------------ MODULE MCProtocolStoreZones ------------------------
(***************************************************************************)
(* Instances of ProtocolStoreZones: a batch of MessageReceiver whose two   *)
(* session jobs store sessions and whose last call stores the envelopes,   *)
(* against the calls the rest of the program makes in the default zone.    *)
(***************************************************************************)
EXTENDS ProtocolStoreZones

CONSTANTS
    batch, job, storeInJob, envelopes,    \* decryptAndCacheBatch
    batch2, storeInBatch2,                \* the next one, in a zone of its own
    send, senderKey, remove, removeAll,   \* calls in GLOBAL_ZONE
    zone1, zone2, global,
    session, row, session2, key, none

BatchCalls == {batch, job, storeInJob, envelopes}
Batch2Calls == {batch2, storeInBatch2}
GlobalCalls == {send, senderKey, remove, removeAll}

TheZoneOf(c) == CASE c \in BatchCalls -> zone1
                  [] c \in Batch2Calls -> zone2
                  [] OTHER -> global
TheParent(c) == CASE c \in {job, envelopes} -> batch
                  [] c = storeInJob -> job
                  [] c = storeInBatch2 -> batch2
                  [] OTHER -> none
TheKind(c) == CASE c \in {batch, job, batch2} -> "body"
                [] c = remove -> "removeSession"
                [] c = removeAll -> "removeAllSessions"
                [] c = senderKey -> "saveKey"
                [] OTHER -> "store"
TheKeyOf(c) == CASE c = envelopes -> row
                 [] c = storeInBatch2 -> session2
                 [] c = senderKey -> key
                 [] OTHER -> session

SafetyCalls == BatchCalls \cup Batch2Calls \cup {send, remove}
MemoryCalls == BatchCalls \cup {send, senderKey, remove, removeAll}
OverlapCalls == BatchCalls \cup {send}

AllZones == {zone1, zone2, global}
AllKeys == {session, row, session2, key}
TheCachedKeys == {session, session2, key}
TheFinal == {envelopes}

SafetyZoneOf == [c \in SafetyCalls |-> TheZoneOf(c)]
SafetyParent == [c \in SafetyCalls |-> TheParent(c)]
SafetyKind == [c \in SafetyCalls |-> TheKind(c)]
SafetyKeyOf == [c \in SafetyCalls |-> TheKeyOf(c)]

MemoryZoneOf == [c \in MemoryCalls |-> TheZoneOf(c)]
MemoryParent == [c \in MemoryCalls |-> TheParent(c)]
MemoryKind == [c \in MemoryCalls |-> TheKind(c)]
MemoryKeyOf == [c \in MemoryCalls |-> TheKeyOf(c)]

OverlapZoneOf == [c \in OverlapCalls |-> TheZoneOf(c)]
OverlapParent == [c \in OverlapCalls |-> TheParent(c)]
OverlapKind == [c \in OverlapCalls |-> TheKind(c)]
OverlapKeyOf == [c \in OverlapCalls |-> TheKeyOf(c)]

=============================================================================
