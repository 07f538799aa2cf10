---------------------------- MODULE LmStateClient ----------------------------
(***************************************************************************)
(* The game's side of state storage (lm_state.cpp, lm_state_storage.inc):  *)
(* the resident slot in MEM2, the one outstanding request, the cached      *)
(* catalogue page and the delete prompt.  Everything runs on one thread    *)
(* from tick() and the menu; the other processor runs between any two      *)
(* calls, so each call tick() makes is an action of its own.               *)
(***************************************************************************)
EXTENDS LmStateMailbox

CONSTANT UserCommands   \* requests the player makes in this instance
ASSUME UserAssumption == UserCommands \subseteq Commands

VARIABLES
  ppc,      \* sArchiveSession, sStorage*, sSlotInitialized, sMenuRequest,
            \* sArchiveId and sGeneration
  key,      \* sPersistentKeyReady, sPersistentKeyId, sPersistentConfigId
  slot,     \* ResidentSlot: rawSize # 0, and the packed copy of an import
  list,     \* sCatalog: the cached page and the request that read it
  prompt,   \* sDeletePrompt, with the print of the file it showed
  outcome   \* sStorageText: what the player was told last

clientVars == <<ppc, key, slot, list, prompt, outcome>>

Results == {"NONE", "DONE", "NAME NOT SAVED", "FAILED", "BAD RESPONSE"}

Ppcs == [session : Sessions, initialized : BOOLEAN, startup : BOOLEAN,
         slotInit : BOOLEAN, menu : {"None", "Save", "Load"}, seq : Seqs,
         command : Commands \cup {"NONE"}, id : 0 .. MaxId,
         archiveId : 0 .. MaxId, gen : 0 .. MaxGen]
KeyViews == [ready : BOOLEAN, id : KeyIds, config : Configs \cup {0}]
Slots == [raw : BOOLEAN, backup : Snapshots \cup {Blank}]
Lists == [seq : Seqs, cursor : 0 .. MaxId, entries : Seq(PageEntries), more : BOOLEAN]
Prompts == [active : BOOLEAN, id : 0 .. MaxId, token : Seqs, print : Prints]
Outcomes == [command : Commands \cup {"NONE"}, id : 0 .. MaxId + 1, result : Results]

ClientTypeOK ==
  /\ ppc \in Ppcs /\ key \in KeyViews /\ slot \in Slots
  /\ list \in Lists /\ prompt \in Prompts /\ outcome \in Outcomes

FreshPpc(session) ==
  [session |-> session, initialized |-> FALSE, startup |-> FALSE,
   slotInit |-> FALSE, menu |-> "None", seq |-> 0, command |-> "NONE", id |-> 0,
   archiveId |-> 0, gen |-> 0]
NoKey == [ready |-> FALSE, id |-> 0, config |-> 0]
EmptySlot == [raw |-> FALSE, backup |-> Blank]
NoList == [seq |-> 0, cursor |-> 0, entries |-> <<>>, more |-> FALSE]
NoPrompt == [active |-> FALSE, id |-> 0, token |-> 0, print |-> NoPrint]
NoOutcome == [command |-> "NONE", id |-> 0, result |-> "NONE"]

ClientInit ==
  /\ ppc = FreshPpc(1)
  /\ key = NoKey /\ slot = EmptySlot /\ list = NoList
  /\ prompt = NoPrompt /\ outcome = NoOutcome

\* The injected payload starts again with its statics as linked.
FreshProcess ==
  /\ ppc.session < MaxSession
  /\ ppc' = FreshPpc(ppc.session + 1)
  /\ key' = NoKey /\ slot' = EmptySlot /\ list' = NoList
  /\ prompt' = NoPrompt /\ outcome' = NoOutcome

StorageInFlight == ppc.command # "NONE" \/ ppc.startup

-----------------------------------------------------------------------------
(* Starting: claim the mailbox, wait for the old request, clear the slot.  *)

\* Variant: the old request is assumed to be over.
InitializeStorageEager ==
  /\ ~ppc.initialized
  /\ request' = [request EXCEPT !.session = ppc.session]
  /\ ppc' = [ppc EXCEPT !.initialized = TRUE, !.seq = request.seq]
  /\ UNCHANGED <<requestName, keySeed, deleteProof, header, snapshot>>
  /\ UNCHANGED <<key, slot, list, prompt, outcome>>

InitializeStorage ==
  /\ ~ppc.initialized
  /\ request' = [request EXCEPT !.session = ppc.session]
  /\ ppc' = [ppc EXCEPT !.initialized = TRUE, !.seq = request.seq,
                        !.startup = response.ack # request.seq]
  /\ UNCHANGED <<requestName, keySeed, deleteProof, header, snapshot>>
  /\ UNCHANGED <<key, slot, list, prompt, outcome>>

RefreshedKey ==
  IF keyLine.status = "READY"
  THEN [ready |-> TRUE, id |-> keyLine.id, config |-> keyLine.config]
  ELSE [key EXCEPT !.ready = FALSE]

\* The request line goes last: its sequence number publishes the request.
Issue(p, command, id) ==
  /\ request' = [request EXCEPT !.seq = NextSeq(p.seq), !.command = command, !.id = id]
  /\ ppc' = [p EXCEPT !.seq = NextSeq(p.seq), !.command = command, !.id = id]

StartupAssumed == TRUE               \* variant: the slot is taken without waiting

StorageStartupReady == ~ppc.startup \/ response.ack = ppc.seq

\* Variant: the commit word an earlier process left is kept.
InitializeSlotKeeping ==
  /\ ppc.initialized /\ ~ppc.slotInit
  /\ StorageStartupReady
  /\ key' = RefreshedKey
  /\ LET p == [ppc EXCEPT !.startup = FALSE, !.slotInit = TRUE]
     IN  IF keyLine.status = "MISSING"
         THEN keySeed' = ppc.session /\ Issue(p, "KEY", 0)
         ELSE ppc' = p /\ UNCHANGED <<keySeed, request>>
  /\ UNCHANGED <<requestName, deleteProof, header, snapshot, slot, list, prompt, outcome>>

InitializeSlot ==
  /\ ppc.initialized /\ ~ppc.slotInit
  /\ StorageStartupReady
  /\ key' = RefreshedKey
  /\ LET p == [ppc EXCEPT !.startup = FALSE, !.slotInit = TRUE]
     IN  IF keyLine.status = "MISSING"
         THEN keySeed' = ppc.session /\ Issue(p, "KEY", 0)
         ELSE ppc' = p /\ UNCHANGED <<keySeed, request>>
  /\ snapshot' = [snapshot EXCEPT ![1] = Blank]
  /\ UNCHANGED <<requestName, deleteProof, header, slot, list, prompt, outcome>>

-----------------------------------------------------------------------------
(* The slot.                                                               *)

\* The menus are modal: nothing else starts while a prompt is open.
MenuFree == ppc.slotInit /\ ~StorageInFlight /\ ppc.menu = "None" /\ ~prompt.active

RequestMenu(action) ==
  /\ MenuFree
  /\ ppc' = [ppc EXCEPT !.menu = action]
  /\ UNCHANGED <<ppcLines, header, snapshot, key, slot, list, prompt, outcome>>

\* saveState: a new generation, committed as a whole; the profile needs a key.
SaveState ==
  /\ ppc.gen < MaxGen
  /\ \E profile \in BOOLEAN :
       /\ profile => key.ready
       /\ snapshot' = [c \in Cells |-> [owner |-> ppc.session, gen |-> ppc.gen + 1,
                                        profile |-> profile]]
  /\ slot' = [slot EXCEPT !.raw = TRUE]
  /\ ppc' = [ppc EXCEPT !.menu = "None", !.gen = ppc.gen + 1]

\* Everything else tick() does with a menu request or a hotkey: a load, which
\* writes the game's memory and never the slot, or a refused save.
NoSave ==
  /\ ppc' = [ppc EXCEPT !.menu = "None"]
  /\ UNCHANGED <<snapshot, slot>>

ServiceMenu ==
  /\ ppc.slotInit /\ ~StorageInFlight /\ ~prompt.active
  /\ \E hotkey \in {"None", "Save", "Load"} :
       /\ {ppc.menu, hotkey} # {"None"}
       /\ \/ "Save" \in {ppc.menu, hotkey} /\ SaveState
          \/ NoSave
  /\ UNCHANGED <<ppcLines, header, key, list, prompt, outcome>>

\* Variant: the slot may be cleared while a transfer is under way.
ClearAnyTime ==
  /\ ppc.slotInit /\ ppc.menu = "None" /\ ~prompt.active
  /\ slot' = [slot EXCEPT !.raw = FALSE]
  /\ snapshot' = [snapshot EXCEPT ![1] = Blank]
  /\ UNCHANGED <<ppcLines, header, ppc, key, list, prompt, outcome>>

ClearSelectedSlot ==
  /\ MenuFree
  /\ slot' = [slot EXCEPT !.raw = FALSE]
  /\ snapshot' = [snapshot EXCEPT ![1] = Blank]
  /\ UNCHANGED <<ppcLines, header, ppc, key, list, prompt, outcome>>

-----------------------------------------------------------------------------
(* Requests: beginStorage.                                                 *)

CanBegin(command) == MenuFree /\ command \in UserCommands

Portable == key.ready /\ snapshot[1].profile

RequestExport ==
  /\ CanBegin("EXPORT")
  /\ slot.raw /\ Coherent(snapshot)
  /\ header' = [version |-> IF Portable THEN 2 ELSE 1,
                owner |-> IF Portable THEN key.id ELSE ppc.session,
                config |-> IF Portable THEN key.config ELSE 0,
                build |-> 1, state |-> snapshot[1]]
  /\ \E name \in Names : requestName' = name
  /\ Issue(ppc, "EXPORT", IF ppc.archiveId < MaxId THEN ppc.archiveId + 1 ELSE 1)
  /\ UNCHANGED <<keySeed, deleteProof, snapshot, key, slot, list, prompt, outcome>>

\* backupImportTarget packs a valid slot aside, outside the import window.
RequestImport ==
  /\ CanBegin("IMPORT")
  /\ slot.raw => Coherent(snapshot)
  /\ slot' = [slot EXCEPT !.backup = IF slot.raw THEN snapshot[1] ELSE Blank]
  /\ \E id \in Ids : Issue(ppc, "IMPORT", id)
  /\ UNCHANGED <<requestName, keySeed, deleteProof, header, snapshot>>
  /\ UNCHANGED <<key, list, prompt, outcome>>

ListedIds == {list.entries[i].id : i \in 1 .. Len(list.entries)}

RequestRename ==
  /\ CanBegin("RENAME")
  /\ \E name \in Names : requestName' = name
  /\ \E id \in ListedIds : Issue(ppc, "RENAME", id)
  /\ UNCHANGED <<keySeed, deleteProof, header, snapshot>>
  /\ UNCHANGED <<key, slot, list, prompt, outcome>>

NextCursor ==
  IF list.entries = <<>> THEN list.cursor ELSE list.entries[Len(list.entries)].id

RequestCatalog ==
  /\ CanBegin("CATALOG")
  /\ \E after \in {0, list.cursor} \cup (IF list.more THEN {NextCursor} ELSE {}) :
       /\ list' = [NoList EXCEPT !.cursor = after]
       /\ Issue(ppc, "CATALOG", after)
  /\ UNCHANGED <<requestName, keySeed, deleteProof, header, snapshot>>
  /\ UNCHANGED <<key, slot, prompt, outcome>>

OpenDeletePrompt ==
  /\ CanBegin("DELETE")
  /\ list.seq # 0
  /\ \E i \in 1 .. Len(list.entries) :
       prompt' = [active |-> TRUE, id |-> list.entries[i].id, token |-> list.seq,
                  print |-> list.entries[i].print]
  /\ UNCHANGED <<ppcLines, header, snapshot, ppc, key, slot, list, outcome>>

CancelPrompt ==
  /\ prompt.active
  /\ prompt' = [prompt EXCEPT !.active = FALSE]
  /\ UNCHANGED <<ppcLines, header, snapshot, ppc, key, slot, list, outcome>>

ConfirmDelete ==
  /\ prompt.active /\ ~StorageInFlight /\ ppc.menu = "None"
  /\ prompt.token # 0 /\ prompt.token = list.seq
  /\ \E i \in 1 .. Len(list.entries) :
       /\ list.entries[i].id = prompt.id
       /\ deleteProof' = [seq |-> prompt.token, print |-> list.entries[i].print]
  /\ prompt' = [prompt EXCEPT !.active = FALSE]
  /\ Issue(ppc, "DELETE", prompt.id)
  /\ UNCHANGED <<requestName, keySeed, header, snapshot>>
  /\ UNCHANGED <<key, slot, list, outcome>>

-----------------------------------------------------------------------------
(* Answers: serviceStorage.                                                *)

Answered(command) == ppc.command = command /\ response.ack = ppc.seq

Receipt == ReceiptMatches(ppc.seq, ppc.session, ppc.command, ppc.id)

NameOnlyFailure == ppc.command = "EXPORT" /\ response.status = "NAME_ERROR"

Verdict(valid) ==
  IF ~Receipt THEN "BAD RESPONSE"
  ELSE IF response.status = "OK" THEN IF valid THEN "DONE" ELSE "BAD RESPONSE"
  ELSE IF NameOnlyFailure THEN IF valid THEN "NAME NOT SAVED" ELSE "BAD RESPONSE"
  ELSE "FAILED"

TellRequested(result) ==    \* variant: the message names the id asked for
  outcome' = [command |-> ppc.command, id |-> ppc.id, result |-> result]

Tell(result) ==
  outcome' = [command |-> ppc.command, id |-> IF result \in {"DONE", "NAME NOT SAVED"}
                                              THEN response.resultId ELSE ppc.id,
              result |-> result]

Idle(p) == [p EXCEPT !.command = "NONE"]

CompleteKey ==
  /\ Answered("KEY")
  /\ key' = RefreshedKey
  /\ Tell(IF Verdict(response.transferred = 0 /\ response.resultId = 0) = "DONE" /\ ~key'.ready
          THEN "FAILED" ELSE Verdict(response.transferred = 0 /\ response.resultId = 0))
  /\ ppc' = Idle(ppc)
  /\ UNCHANGED <<ppcLines, header, snapshot, slot, list, prompt>>

CompleteDelete ==
  /\ Answered("DELETE")
  /\ Tell(Verdict(response.transferred = 0 /\ response.resultId = ppc.id))
  /\ list' = [list EXCEPT !.seq = 0, !.entries = <<>>, !.more = FALSE]
  /\ ppc' = Idle(ppc)
  /\ UNCHANGED <<ppcLines, header, snapshot, key, slot, prompt>>

PageValid ==
  /\ response.transferred = 0 /\ page.after = ppc.id
  /\ Len(page.entries) <= Capacity
  /\ page.more => Len(page.entries) = Capacity
  /\ \A i \in 1 .. Len(page.entries) :
       page.entries[i].id > (IF i = 1 THEN ppc.id ELSE page.entries[i - 1].id)

CompleteCatalog ==
  /\ Answered("CATALOG")
  /\ Tell(Verdict(PageValid))
  /\ list' = IF Verdict(PageValid) = "DONE"
             THEN [seq |-> ppc.seq, cursor |-> page.after, entries |-> page.entries,
                   more |-> page.more]
             ELSE list
  /\ ppc' = Idle(ppc)
  /\ UNCHANGED <<ppcLines, header, snapshot, key, slot, prompt>>

ResultValid ==
  /\ response.resultId \in Ids
  /\ CASE ppc.command = "EXPORT" -> response.resultId >= ppc.id /\ response.transferred = MaxCell
       [] ppc.command = "IMPORT" -> response.resultId = ppc.id /\ response.transferred = MaxCell
       [] OTHER                  -> response.resultId = ppc.id /\ response.transferred = 0

\* sArchiveId remembers the file a successful request was about.
Finished(result) ==
  IF result \in {"DONE", "NAME NOT SAVED"}
  THEN [Idle(ppc) EXCEPT !.archiveId = response.resultId] ELSE Idle(ppc)

CompleteExport ==
  /\ Answered("EXPORT")
  /\ Tell(Verdict(ResultValid))
  /\ ppc' = Finished(Verdict(ResultValid))
  /\ UNCHANGED <<ppcLines, header, snapshot, key, slot, list, prompt>>

CompleteRename ==
  /\ Answered("RENAME")
  /\ Tell(Verdict(ResultValid))
  /\ ppc' = Finished(Verdict(ResultValid))
  /\ list' = IF Verdict(ResultValid) = "DONE"
             THEN [list EXCEPT !.entries =
                    [i \in 1 .. Len(list.entries) |->
                      IF list.entries[i].id = ppc.id
                      THEN [list.entries[i] EXCEPT !.name = requestName]
                      ELSE list.entries[i]]]
             ELSE list
  /\ UNCHANGED <<ppcLines, header, snapshot, key, slot, prompt>>

\* importedArchiveError: this key and set-up or this session, this build, and
\* a payload that is the one the envelope's CRC and tag were made for.
ImportedArchiveOK ==
  /\ CASE header.version = 2 -> /\ key.ready /\ header.owner = key.id
                                /\ header.config = key.config
                                /\ header.state.profile
       [] header.version = 1 -> header.owner = ppc.session /\ header.config = 0
       [] OTHER              -> FALSE
  /\ header.build = 1
  /\ Holds(snapshot, header.state)

VerdictUnchecked == Verdict(ResultValid)   \* variant: the worker's word is enough

ImportVerdict ==
  IF Verdict(ResultValid) = "DONE" /\ ~ImportedArchiveOK THEN "FAILED"
  ELSE Verdict(ResultValid)

\* A refused import brings the packed slot back, or leaves an empty one.
CompleteImport ==
  /\ Answered("IMPORT")
  /\ Tell(ImportVerdict)
  /\ IF ImportVerdict = "DONE"
     THEN /\ slot' = [raw |-> TRUE, backup |-> Blank]
          /\ ppc' = [Finished("DONE") EXCEPT
                       !.gen = IF header.state.gen > ppc.gen THEN header.state.gen ELSE ppc.gen]
          /\ UNCHANGED snapshot
     ELSE /\ slot' = [raw |-> slot.backup # Blank, backup |-> Blank]
          /\ ppc' = Idle(ppc)
          /\ snapshot' = IF slot.backup # Blank THEN [c \in Cells |-> slot.backup]
                         ELSE [snapshot EXCEPT ![1] = Blank]
  /\ UNCHANGED <<ppcLines, header, key, list, prompt>>

-----------------------------------------------------------------------------
ServiceStorage ==
  \/ CompleteKey \/ CompleteDelete \/ CompleteCatalog
  \/ CompleteExport \/ CompleteRename \/ CompleteImport

Tick == InitializeStorage \/ InitializeSlot \/ ServiceStorage

Player ==
  \/ RequestMenu("Save") \/ RequestMenu("Load") \/ ServiceMenu \/ ClearSelectedSlot
  \/ RequestExport \/ RequestImport \/ RequestRename \/ RequestCatalog
  \/ OpenDeletePrompt \/ CancelPrompt \/ ConfirmDelete

\* The game never writes a line the worker owns.
ClientNext == (Tick \/ Player) /\ UNCHANGED armLines
=============================================================================
