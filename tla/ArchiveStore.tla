---------------------------- MODULE ArchiveStore ----------------------------
(***************************************************************************)
(* What the SD card promises the player, with every update atomic: an      *)
(* archive appears whole and unnamed, is never rewritten, is renamed as    *)
(* one step and disappears as one step; the card gets one key, once.       *)
(* Crashes do not appear: nothing published is ever lost.                  *)
(***************************************************************************)
CONSTANTS StoreIds, Absent, Unnamed, KeyIdentities, Whole(_)

VARIABLES
  store,     \* id -> Absent or [file, name]
  storeKey,  \* [ready, id]
  wanted     \* [command, id, name]: what is being asked of the store

vars == <<store, storeKey>>

StoreInit ==
  /\ \A id \in StoreIds : store[id] # Absent => store[id].name = Unnamed
  /\ ~storeKey.ready

Publish(id) ==
  /\ wanted.command = "EXPORT" /\ wanted.id = id
  /\ store[id] = Absent
  /\ store'[id] # Absent
  /\ Whole(store'[id].file) /\ store'[id].name = Unnamed
  /\ store' = [store EXCEPT ![id] = store'[id]]
  /\ UNCHANGED storeKey

SetName(id) ==
  /\ wanted.command \in {"EXPORT", "RENAME"} /\ wanted.id = id
  /\ store[id] # Absent
  /\ store' = [store EXCEPT ![id].name = wanted.name]
  /\ UNCHANGED storeKey

Remove(id) ==
  /\ wanted.command = "DELETE" /\ wanted.id = id
  /\ store[id] # Absent
  /\ store' = [store EXCEPT ![id] = Absent]
  /\ UNCHANGED storeKey

CreateKey ==
  /\ wanted.command = "KEY"
  /\ ~storeKey.ready
  /\ \E k \in KeyIdentities : storeKey' = [ready |-> TRUE, id |-> k]
  /\ UNCHANGED store

StoreNext ==
  \/ \E id \in StoreIds : Publish(id) \/ SetName(id) \/ Remove(id)
  \/ CreateKey

StoreSpec == StoreInit /\ [][StoreNext]_vars
=============================================================================
