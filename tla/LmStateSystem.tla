---------------------------- MODULE LmStateSystem ----------------------------
(***************************************************************************)
(* State storage as a whole: the game's processor and the kernel's archive *)
(* worker step in any order, the player may reset the game at any moment   *)
(* (the kernel, the mailbox and MEM2 survive) and the power may fail (only *)
(* the card survives).                                                     *)
(***************************************************************************)
EXTENDS LmStateStorage, LmStateClient

CONSTANT PowerFails   \* whether the power may fail
ASSUME PowerAssumption == PowerFails \in BOOLEAN

vars == <<mailboxVars, storageVars, clientVars>>

Init == StorageInit /\ ClientInit

Worker == StorageNext /\ UNCHANGED clientVars

Game == ClientNext /\ UNCHANGED storageVars

\* A soft reset: the payload is injected again, the worker carries on.
Reset == FreshProcess /\ UNCHANGED <<mailboxVars, storageVars>>

PowerLoss == PowerFails /\ FreshProcess /\ StorageRestart

Next == Worker \/ Game \/ Reset \/ PowerLoss

\* The kernel's main loop calls the worker whenever it has work and nothing of
\* higher priority does; the game calls tick() every frame.
Fairness ==
  /\ WF_vars(Worker)
  /\ WF_vars(InitializeStorage /\ UNCHANGED armLines /\ UNCHANGED storageVars)
  /\ WF_vars(InitializeSlot /\ UNCHANGED armLines /\ UNCHANGED storageVars)
  /\ WF_vars(ServiceStorage /\ UNCHANGED armLines /\ UNCHANGED storageVars)

Spec == Init /\ [][Next]_vars
FairSpec == Spec /\ Fairness

TypeOK == MailboxTypeOK /\ StorageTypeOK /\ ClientTypeOK

-----------------------------------------------------------------------------
(* The protocol.                                                           *)

\* Once a process has claimed the mailbox the sequence number it will count
\* from is the one in the request line (sStorageSeq = m->requestSeq).
SequenceOwned == ppc.initialized => ppc.seq = request.seq

\* The request line holds the request the process is waiting for, under its
\* own session, until serviceStorage has read the answer.
RequestOutstanding ==
  ppc.command # "NONE" =>
    /\ ppc.slotInit
    /\ request = [seq |-> ppc.seq, command |-> ppc.command, id |-> ppc.id,
                  session |-> ppc.session]

\* The game never begins a request, a save or an import backup while the
\* worker still has something of an earlier request to do.
WorkerIdleBetweenRequests ==
  ppc.slotInit /\ ppc.command = "NONE" => arm.phase = "IDLE" /\ response.ack = ppc.seq

\* An answered request carries its own receipt: a process is never shown the
\* answer to a request of a process before it ("BAD RESPONSE").
NoBadResponse ==
  ppc.command # "NONE" /\ response.ack = ppc.seq =>
    receipt = [session |-> ppc.session, command |-> ppc.command, id |-> ppc.id,
               seq |-> ppc.seq]

\* The worker writes MEM2 only for the import this process asked for, or before
\* the process has taken its slot over (the comment in initializeStorage).
SlotOwnership ==
  arm.phase = "TRANSFER" /\ arm.command = "IMPORT" /\ ~Superseded =>
    \/ ~ppc.slotInit
    \/ ppc.command = "IMPORT" /\ response.ack # ppc.seq

\* Outside an import the slot is whole or marked empty, never half written:
\* what loadState, and an export, read.
SlotIntact ==
  ppc.slotInit /\ ppc.command # "IMPORT" =>
    IF slot.raw THEN Coherent(snapshot) ELSE snapshot[1] = Blank

\* Every archive the worker publishes holds the state its envelope was made
\* for, whatever the player or a reset did while the slices were written.
WholeFile(file) ==
  file.complete /\ ValidHeader(file.header) /\ Holds(file.payload, file.header.state)

PublishedWhole ==
  [][\A id \in Ids : ~Exists(id) /\ Exists(id)' => WholeFile(archives'[id])]_vars

-----------------------------------------------------------------------------
(* What keeps the protocol true: the inductive strengthening of the proofs.  *)

\* Every phase that names a file has one, and slices stay inside the image.
WorkerShape ==
  /\ \/ arm.phase \in {"HEADER", "TRANSFER", "CLOSE", "PUBLISH",
                       "DROPNAME0", "DROPNAME1", "WRITENAME", "PLACENAME"}
     \/ arm.phase = "OPEN" /\ arm.command \notin {"CATALOG", "KEY"}
     => arm.fileId \in Ids
  /\ arm.phase \in {"OPEN", "HEADER"} => arm.offset = 0
  /\ arm.phase = "TRANSFER" => arm.offset < MaxCell

\* A process is starting, waiting for an old answer, or in service.
StartupOrder ==
  /\ ppc.initialized => ppc.seq = request.seq /\ request.session = ppc.session
  /\ ppc.slotInit => ppc.initialized /\ ~ppc.startup
  /\ prompt.active => ppc.slotInit
  /\ ~ppc.slotInit => ppc.command = "NONE"
  /\ ppc.initialized /\ ~ppc.startup /\ ppc.command = "NONE" => response.ack = ppc.seq

\* A busy worker owes an answer, to the request that is still in the line.
WorkerOwes ==
  arm.phase # "IDLE" =>
    /\ response.ack # request.seq
    /\ arm.seq = request.seq /\ arm.command = request.command
    /\ arm.requestId = request.id
    /\ ppc.command # "NONE" => arm.session = ppc.session
    /\ arm.phase = "ACK" => receipt = [session |-> arm.session, command |-> arm.command,
                                      id |-> arm.requestId, seq |-> arm.seq]

\* The whole protocol: a process starts, waits, then serves; it has at most one
\* request out, the worker owes at most the answer to that one, and an answer
\* that is there is the process's own.  What no single handler can see.
Protocol ==
  StartupOrder /\ WorkerOwes /\ RequestOutstanding /\ NoBadResponse

-----------------------------------------------------------------------------
(* What the player is told.                                                *)

Finishes(command) ==
  /\ ppc.command = command /\ ppc'.command = "NONE"
  /\ ppc'.session = ppc.session

\* EXPORTED, and also NAME NOT SAVED: the card holds the state that is in the
\* slot now, under the id the message shows; EXPORTED vouches for the name too.
ExportTruth ==
  [][Finishes("EXPORT") /\ outcome'.result \in {"DONE", "NAME NOT SAVED"} =>
       LET id == outcome'.id
           file == archives[id]
       IN  /\ slot.raw /\ WholeFile(file)
           /\ file.payload = snapshot
           /\ outcome'.result = "DONE" => LatestName(id, file.header).name = requestName
    ]_vars

\* An import is all or nothing.  READY - PRESS LOAD: the slot holds the file
\* the player chose, made by this process or under this card's key and set-up.
\* Anything else: the slot is back to what it was when the import began.
ImportAtomic ==
  [][Finishes("IMPORT") =>
       IF outcome'.result = "DONE"
       THEN LET file == archives[ppc.id]
            IN  /\ WholeFile(file) /\ snapshot' = file.payload
                /\ IdentityStatus(file.header, ppc.session) = "OK"
       ELSE IF slot.raw
            THEN slot'.raw /\ slot.backup # Blank /\ Holds(snapshot', slot.backup)
            ELSE ~slot'.raw /\ snapshot'[1] = Blank
    ]_vars

\* Only the file the player saw in the prompt, as it was when listed, is ever
\* removed, and only for the process whose player confirmed it, unless that
\* process was reset and its successor has not claimed the mailbox yet.
DeleteExact ==
  [][\A id \in Ids : Exists(id) /\ ~Exists(id)' =>
       \/ ~ppc.initialized
       \/ /\ ppc.command = "DELETE" /\ ppc.id = id /\ prompt.id = id
          /\ PrintOf(archives[id]) = prompt.print
    ]_vars

\* A page shown to the player lists exactly the Capacity smallest archives
\* above its cursor, each with its newest name, and admits to more exactly
\* when there are more.
Above(cursor) == {id \in Ids : Exists(id) /\ id > cursor}
PageExact ==
  [][Finishes("CATALOG") /\ outcome'.result = "DONE" =>
       LET ids == {list'.entries[i].id : i \in 1 .. Len(list'.entries)}
       IN  /\ ids \subseteq Above(list'.cursor)
           /\ list'.more <=> ids # Above(list'.cursor)
           /\ \A id \in ids, other \in Above(list'.cursor) \ ids : id < other
           /\ list'.more => Len(list'.entries) = Capacity
           /\ \A i \in 1 .. Len(list'.entries) :
                LET e == list'.entries[i]
                IN  /\ e.print = PrintOf(archives[e.id])
                    /\ e.name \in {LatestName(e.id, archives[e.id].header).name}
                                    \cup (IF IoFaults THEN {NoName} ELSE {})
    ]_vars

\* The key of every reboot archive this card has is on the card: no order of
\* failures, resets and power cuts publishes an archive whose key is lost.
KeyOutlivesArchives ==
  \A id \in Ids :
    Exists(id) /\ archives[id].header.version = 2 /\ archives[id].header.owner # 0 =>
      ResolvedKey(keyFiles) = [status |-> "READY", id |-> archives[id].header.owner]

-----------------------------------------------------------------------------
(* The card as the abstract store.                                         *)

Gone == [file |-> NoFile, name |-> NoName]
StoreOf(id) ==
  IF Exists(id)
  THEN [file |-> archives[id], name |-> LatestName(id, archives[id].header).name]
  ELSE Gone

Store == INSTANCE ArchiveStore WITH
  StoreIds <- Ids, Absent <- Gone, Unnamed <- NoName, KeyIdentities <- KeyIds,
  Whole <- WholeFile,
  store <- [id \in Ids |-> StoreOf(id)],
  storeKey <- [ready |-> ResolvedKey(keyFiles).status = "READY",
               id |-> ResolvedKey(keyFiles).id],
  wanted <- [command |-> arm.command, id |-> arm.fileId, name |-> job.name]

\* Through every service call, failure and power cut the card behaves as the
\* abstract store: archives never change, a rename is atomic although it takes
\* two directory updates, a deleted archive's names never return.
StoreImplemented == Store!StoreSpec

-----------------------------------------------------------------------------
(* Progress.                                                               *)

\* Every request is answered and its answer read.
RequestsEnd == (ppc.command # "NONE") ~> (ppc.command = "NONE")

\* A reset at any moment still gets its slot back.
StartupEnds == (~ppc.slotInit) ~> ppc.slotInit

-----------------------------------------------------------------------------
\* The comment in initializeStorage: "A reset cancels any old in-flight ARM
\* transfer before it can touch the new process's slot."  Nothing is moved for
\* a request of an earlier process once the new one has claimed the mailbox.
ResetCancelsTransfers ==
  [][ppc.initialized /\ snapshot' # snapshot /\ arm.phase = "TRANSFER"
       /\ arm'.offset > arm.offset => ppc.command = "IMPORT"]_vars
=============================================================================
