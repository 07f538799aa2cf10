-------------------------- MODULE LmStateOutcomeProofs --------------------------
(***************************************************************************)
(* What the player is told is true: an import took the chosen file whole   *)
(* or brought the slot back, an export is on the card under the id it      *)
(* names, a deletion removed what the prompt showed, and a page lists what *)
(* is on the card.                                                         *)
(***************************************************************************)
EXTENDS LmStateStoreProofs, WellFoundedInduction

\* The request line and what belongs to it wait for their answer.
Unanswered == response.ack # request.seq

-----------------------------------------------------------------------------
(* What the game leaves alone while a request is unanswered.               *)

\* The game changes the slot's memory, the envelope, the lines of a request and
\* the slot's own record only in a process in service that waits for nothing,
\* or to read an answer.
LEMMA GameWaits ==
  ASSUME StoreInv, ClientNext, Unanswered
  PROVE  /\ UNCHANGED <<snapshot, header, requestName, keySeed, deleteProof, slot>>
         /\ request'.seq = request.seq /\ request'.command = request.command
         /\ request'.id = request.id
         /\ ppc'.command = ppc.command /\ ppc'.id = ppc.id /\ ppc'.session = ppc.session
<1>1. ppc \in Ppcs /\ request \in Requests
  BY DEF StoreInv, KeyInv, TypeInv, TypeOK, MailboxTypeOK, ClientTypeOK
<1>2. /\ ppc.initialized => ppc.seq = request.seq
      /\ ppc.slotInit => ppc.initialized /\ ~ppc.startup
      /\ ppc.initialized /\ ~ppc.startup /\ ppc.command = "NONE" => response.ack = ppc.seq
      /\ ~ppc.slotInit => ppc.command = "NONE"
      /\ prompt.active => ppc.slotInit
  BY DEF StoreInv, ProtocolInv, Protocol, StartupOrder
<1>3. ~MenuFree /\ ~(ppc.slotInit /\ ~StorageInFlight)
  BY <1>2 DEF MenuFree, StorageInFlight, Unanswered
<1>4. ~(ppc.initialized /\ ~ppc.slotInit /\ StorageStartupReady)
  BY <1>2 DEF StorageStartupReady, Unanswered
<1>5. ~ServiceStorage
  <2>1. \A command \in Commands : ~Answered(command)
    BY <1>2 DEF Answered, Unanswered, Commands
  <2> QED
    BY <2>1 DEF ServiceStorage, CompleteKey, CompleteDelete, CompleteCatalog, CompleteExport,
                CompleteRename, CompleteImport, Commands
<1>6. InitializeStorage \/ CancelPrompt
  BY <1>2, <1>3, <1>4, <1>5
     DEF ClientNext, Tick, Player, InitializeSlot, RequestMenu, ServiceMenu, ClearSelectedSlot,
         RequestExport, RequestImport, RequestRename, RequestCatalog, OpenDeletePrompt,
         ConfirmDelete, CanBegin
<1>7. CASE InitializeStorage
  BY <1>1, <1>7 DEF InitializeStorage, Requests, Ppcs
<1>8. CASE CancelPrompt
  BY <1>8 DEF CancelPrompt, ppcLines
<1> QED BY <1>6, <1>7, <1>8

\* A process that waits for an answer keeps everything until it reads it.
LEMMA GameReads ==
  ASSUME StoreInv, ClientNext, ppc.command # "NONE"
  PROVE  \/ ServiceStorage /\ ppc'.command = "NONE"
         \/ UNCHANGED <<ppc, snapshot, header, request, requestName, keySeed, deleteProof, slot>>
<1>1. ppc \in Ppcs
  BY DEF StoreInv, KeyInv, TypeInv, TypeOK, ClientTypeOK
<1>2. ppc.slotInit /\ ppc.initialized /\ ~MenuFree /\ StorageInFlight
  BY DEF StoreInv, ProtocolInv, Protocol, StartupOrder, MenuFree, StorageInFlight
<1>3. ServiceStorage \/ CancelPrompt
  BY <1>2 DEF ClientNext, Tick, Player, InitializeStorage, InitializeSlot, RequestMenu,
              ServiceMenu, ClearSelectedSlot, RequestExport, RequestImport, RequestRename,
              RequestCatalog, OpenDeletePrompt, ConfirmDelete, CanBegin
<1>4. ServiceStorage => ppc'.command = "NONE"
  <2>1. Idle(ppc).command = "NONE" /\ \A result : Finished(result).command = "NONE"
    BY <1>1 DEF Idle, Finished, Ppcs
  <2>2. \A result, gen : [Finished(result) EXCEPT !.gen = gen].command = "NONE"
    BY <1>1 DEF Idle, Finished, Ppcs
  <2> QED
    BY <2>1, <2>2 DEF ServiceStorage, CompleteKey, CompleteDelete, CompleteCatalog,
                      CompleteExport, CompleteRename, CompleteImport
<1>5. CASE CancelPrompt
  BY <1>5 DEF CancelPrompt, ppcLines
<1> QED BY <1>3, <1>4, <1>5

\* A new request is not answered by the answer to the last one.
LEMMA GameAsks ==
  ASSUME StoreInv, ClientNext, ppc.command = "NONE", ppc'.command # "NONE"
  PROVE  /\ response'.ack # ppc'.seq
         /\ ppc'.command = "IMPORT" => RequestImport
         /\ ppc'.command = "EXPORT" => RequestExport
         /\ ppc'.command = "DELETE" => ConfirmDelete
<1>1. ppc \in Ppcs
  BY DEF StoreInv, KeyInv, TypeInv, TypeOK, ClientTypeOK
<1>2. Issues
  <2>1. Claim \/ Issues \/ Rests \/ UNCHANGED <<ppc, request>>
    BY GameMoves DEF StoreInv, ProtocolInv
  <2> QED BY <1>1, <2>1 DEF Claim, Rests, Ppcs
<1>3. PICK p, command, id : InService(p) /\ Issue(p, command, id)
  BY <1>2 DEF Issues
<1>4. response'.ack # ppc'.seq
  <2>1. response.ack = ppc.seq /\ ppc.seq \in Seqs /\ UNCHANGED response
    BY <1>1, <1>2 DEF Issues, MayIssue, StorageStartupReady, StoreInv, ProtocolInv, Protocol,
                      StartupOrder, Ppcs, ClientNext, armLines
  <2>2. ppc'.seq = NextSeq(ppc.seq)
    BY <1>3 DEF InService, Issue, Ppcs
  <2> QED BY <2>1, <2>2, NextSeqType
<1>5. \A c, i : Issue(ppc, c, i) => ppc'.command = c
  BY <1>1 DEF Issue, Ppcs
<1>6. RequestImport => ppc'.command = "IMPORT"
  BY <1>5 DEF RequestImport
<1>7. RequestExport => ppc'.command = "EXPORT"
  BY <1>5 DEF RequestExport
<1>8. ConfirmDelete => ppc'.command = "DELETE"
  BY <1>5 DEF ConfirmDelete
<1>9. RequestRename => ppc'.command = "RENAME"
  BY <1>5 DEF RequestRename
<1>10. RequestCatalog => ppc'.command = "CATALOG"
  BY <1>5 DEF RequestCatalog
<1>11. InitializeSlot => ppc'.command = "KEY"
  <2> DEFINE q == [ppc EXCEPT !.startup = FALSE, !.slotInit = TRUE]
  <2>1. q \in Ppcs /\ q.command = "NONE"
    BY <1>1 DEF Ppcs
  <2>2. InitializeSlot => ppc' = q \/ Issue(q, "KEY", 0)
    BY DEF InitializeSlot
  <2> HIDE DEF q
  <2> QED BY <2>1, <2>2 DEF Issue, Ppcs
<1>12. \/ RequestImport \/ RequestExport \/ ConfirmDelete \/ RequestRename \/ RequestCatalog
       \/ InitializeSlot
  <2>1. ~ServiceStorage
    BY DEF ServiceStorage, CompleteKey, CompleteDelete, CompleteCatalog, CompleteExport,
           CompleteRename, CompleteImport, Answered
  <2>2. ~(InitializeStorage \/ RequestMenu("Save") \/ RequestMenu("Load") \/ ServiceMenu)
    BY <1>1 DEF InitializeStorage, RequestMenu, ServiceMenu, SaveState, NoSave, Ppcs
  <2>3. ~(ClearSelectedSlot \/ OpenDeletePrompt \/ CancelPrompt)
    BY DEF ClearSelectedSlot, OpenDeletePrompt, CancelPrompt
  <2> QED BY <2>1, <2>2, <2>3 DEF ClientNext, Tick, Player
<1> QED BY <1>4, <1>6, <1>7, <1>8, <1>9, <1>10, <1>11, <1>12

-----------------------------------------------------------------------------
(* The worker, between two requests and inside one.                        *)

\* What an answer is about, and what a next phase is.
LEMMA FinishFields ==
  ASSUME NEW a \in Arms, NEW s, Finish(a, s)
  PROVE  /\ arm'.phase = "ACK" /\ arm'.status = s /\ arm'.command = a.command
         /\ arm'.requestId = a.requestId /\ arm'.fileId = a.fileId
         /\ arm'.session = a.session /\ arm'.offset = a.offset
BY DEF Finish, Arms

LEMMA ContinueFields ==
  ASSUME NEW a \in Arms, NEW p, Continue(a, p)
  PROVE  /\ arm'.phase = p /\ arm'.status = a.status /\ arm'.command = a.command
         /\ arm'.requestId = a.requestId /\ arm'.fileId = a.fileId
         /\ arm'.session = a.session /\ arm'.offset = a.offset
BY DEF Continue, Arms

\* The worker does nothing more for a request it has answered.
LEMMA AnswerStands ==
  ASSUME StoreInv, StorageStep, ppc.command # "NONE"
  PROVE  response.ack # ppc.seq
<1>1. SUFFICES ASSUME response.ack = ppc.seq PROVE FALSE
  OBVIOUS
<1>2. request.seq = ppc.seq /\ arm.phase = "IDLE"
  BY <1>1 DEF StoreInv, ProtocolInv, Protocol, RequestOutstanding, WorkerOwes
<1>3. PublishAck \/ Latch \/ Serve
  BY WorkerServes DEF StoreInv, ProtocolInv
<1> QED BY <1>1, <1>2, <1>3 DEF PublishAck, Latch, Serve

\* The phases of a key or of a removal are those of its command, and only an
\* export moves on from the id it was asked for.
Errand ==
  /\ arm.phase \in {"KEYCOPY0", "KEYCOPY1"} => arm.command = "KEY"
  /\ arm.phase \in {"DROPNAME0", "DROPNAME1"} => arm.command = "DELETE"
  /\ arm.command # "EXPORT" => arm.fileId = arm.requestId

LEMMA WorkerErrand ==
  ASSUME StoreInv, Errand, StorageStep
  PROVE  Errand'
<1>1. arm \in Arms
  BY DEF StoreInv, KeyInv, TypeInv, TypeOK, StorageTypeOK
<1>2. ASSUME NEW a \in Arms, a.command = arm.command,
             a.command # "EXPORT" => a.fileId = a.requestId,
             \/ \E s : Finish(a, s)
             \/ \E p \in {"OPEN", "HEADER", "TRANSFER", "CLOSE", "PUBLISH", "WRITENAME",
                         "PLACENAME"} : Continue(a, p)
      PROVE  Errand'
  BY <1>2, FinishFields, ContinueFields DEF Errand
<1>3. CASE PublishAck
  BY <1>1, <1>3 DEF PublishAck, Arms, Errand
<1>4. CASE Latch
  <2>1. Latched \in Arms /\ Latched.fileId = Latched.requestId
    BY BoundsAssumption
       DEF StoreInv, KeyInv, TypeInv, TypeOK, MailboxTypeOK, Latched, Requests, Arms,
           ServicePhases, Statuses
  <2> QED BY <1>4, <2>1, FinishFields, ContinueFields DEF Latch, Errand
<1>5. CASE OpenKey
  <2>1. CASE keyLine'.status = "READY"
    <3>1. Finish(arm, "OK")
      BY <1>5, <2>1 DEF OpenKey
    <3> QED BY <1>1, <1>2, <3>1 DEF Errand
  <2>2. CASE keyLine'.status = "MISSING"
    <3>1. Continue(arm, "KEYCOPY0") /\ arm.command = "KEY"
      BY <1>5, <2>2 DEF OpenKey, Working
    <3> QED BY <1>1, <3>1, ContinueFields DEF Errand
  <2>3. CASE keyLine'.status # "READY" /\ keyLine'.status # "MISSING"
    <3>1. Finish(arm, "KEY_ERROR")
      BY <1>5, <2>3 DEF OpenKey
    <3> QED BY <1>1, <1>2, <3>1 DEF Errand
  <2> QED BY <2>1, <2>2, <2>3
<1>6. CASE WriteKeyCopy0 \/ WriteKeyCopy1
  <2>1. arm.command = "KEY" /\ (\/ Continue(arm, "KEYCOPY1") \/ \E s : Finish(arm, s))
    BY <1>6 DEF WriteKeyCopy0, WriteKeyCopy1, Errand
  <2> QED BY <1>1, <1>2, <2>1, ContinueFields DEF Errand
<1>7. CASE OpenCatalog
  <2>1. CASE arm' = [arm EXCEPT !.phase = "SCAN"]
    BY <1>1, <2>1 DEF Arms, Errand
  <2>2. CASE Finish(arm, "IO_ERROR")
    BY <1>1, <1>2, <2>2 DEF Errand
  <2> QED BY <1>7, <2>1, <2>2 DEF OpenCatalog
<1>8. CASE ScanEntry
  BY <1>8 DEF ScanEntry, Errand
<1>9. CASE DeleteArchive
  <2>1. arm.command = "DELETE" /\ (\/ Continue(arm, "DROPNAME0") \/ \E s : Finish(arm, s))
    BY <1>9 DEF DeleteArchive, Working
  <2> QED BY <1>1, <1>2, <2>1, ContinueFields DEF Errand
<1>10. CASE DropName0
  <2>1. PICK stays \in BOOLEAN :
          Continue([arm EXCEPT !.status = Cleanup(stays)], "DROPNAME1")
    BY <1>10 DEF DropName0
  <2>2. arm'.phase = "DROPNAME1" /\ arm'.command = arm.command
        /\ arm'.fileId = arm.fileId /\ arm'.requestId = arm.requestId
    BY <1>1, <2>1 DEF Continue, Arms
  <2> QED BY <1>10, <2>2 DEF DropName0, Errand
<1>11. CASE OpenExport
  <2>1. arm.command = "EXPORT" /\ arm.fileId \in Ids
    BY <1>11 DEF OpenExport, Working, StoreInv, KeyInv, TypeInv, WorkerShape
  <2>2. arm'.command = "EXPORT" /\ arm'.phase \in {"OPEN", "HEADER", "ACK"}
    <3>1. [arm EXCEPT !.fileId = arm.fileId + 1] \in Arms
      <4>1. arm.fileId + 1 \in 0 .. MaxId + 1
        BY <2>1, BoundsAssumption DEF Ids
      <4> QED BY <1>1, <4>1 DEF Arms
    <3>2. [arm EXCEPT !.fileId = arm.fileId + 1].command = "EXPORT"
      BY <1>1, <2>1 DEF Arms
    <3> QED BY <1>1, <1>11, <2>1, <3>1, <3>2, FinishFields, ContinueFields DEF OpenExport
  <2> QED BY <2>2 DEF Errand
<1>12. CASE Transfer
  <2>1. Continue(Advanced, "CLOSE") \/ Continue(Advanced, "TRANSFER") \/ Finish(arm, "IO_ERROR")
    BY <1>12 DEF Transfer
  <2>2. arm'.phase \in {"CLOSE", "TRANSFER", "ACK"} /\ arm'.command = arm.command
        /\ arm'.fileId = arm.fileId /\ arm'.requestId = arm.requestId
    BY <1>1, <2>1, FinishFields DEF Continue, Advanced, Arms
  <2> QED BY <2>2 DEF Errand
<1>13. CASE \/ Cancel \/ EndScan \/ DropName1 \/ OpenRename \/ RemoveOldName \/ PlaceName
            \/ OpenImport \/ WriteHeader \/ ReadHeader \/ Close \/ PublishExport
            \/ PublishImport
  <2>1. \/ \E s : Finish(arm, s)
        \/ \E p \in {"OPEN", "HEADER", "TRANSFER", "CLOSE", "PUBLISH", "WRITENAME",
                    "PLACENAME"} : Continue(arm, p)
    BY <1>13 DEF Cancel, EndScan, DropName1, OpenRename, RemoveOldName, PlaceName, OpenImport,
                 WriteHeader, ReadHeader, Close, PublishExport, PublishImport
  <2> QED BY <1>1, <1>2, <2>1 DEF Errand
<1> QED
  BY <1>3, <1>4, <1>5, <1>6, <1>7, <1>8, <1>9, <1>10, <1>11, <1>12, <1>13 DEF StorageStep

\* No step of the system changes the errand in the middle.
LEMMA ErrandStep ==
  ASSUME StoreInv, Errand, [Next]_vars
  PROVE  Errand'
<1>1. CASE Worker
  BY <1>1, WorkerErrand DEF Worker, StorageNext
<1>2. CASE Game \/ Reset \/ UNCHANGED vars
  <2>1. UNCHANGED arm
    BY <1>2 DEF Game, Reset, vars, storageVars
  <2> QED BY <2>1 DEF Errand
<1>3. CASE PowerLoss
  BY <1>3 DEF PowerLoss, StorageRestart, IdleArm, Errand
<1> QED BY <1>1, <1>2, <1>3 DEF Next

-----------------------------------------------------------------------------
(* Imports.                                                                *)

\* The worker is copying an import to the slot, or has copied all of it.
Importing ==
  /\ arm.command = "IMPORT"
  /\ \/ arm.phase \in {"TRANSFER", "CLOSE", "PUBLISH"}
     \/ arm.phase = "ACK" /\ arm.status = "OK"

\* What it has copied is the file it was asked for, which is whole and this
\* process's to load, and the envelope it hands over is that file's.
ImportWhole ==
  Importing =>
    /\ arm.fileId \in Ids
    /\ Readable(archives[arm.fileId]) /\ job.header = archives[arm.fileId].header
    /\ IdentityStatus(job.header, arm.session) = "OK"
    /\ \A c \in 1 .. arm.offset : snapshot[c] = archives[arm.fileId].payload[c]
    /\ arm.phase # "TRANSFER" => arm.offset = MaxCell
    /\ arm.phase = "ACK" => header = job.header

\* The same, once the answer is there and until the process has read it.
ImportTold ==
  ppc.command = "IMPORT" /\ response.ack = ppc.seq /\ response.status = "OK" =>
    /\ Readable(archives[ppc.id]) /\ header = archives[ppc.id].header
    /\ IdentityStatus(header, ppc.session) = "OK"
    /\ snapshot = archives[ppc.id].payload

\* A process that waits for an import has its slot packed aside.
BackupKept == ppc.command = "IMPORT" => (slot.raw <=> slot.backup # Blank)

ImportInv == ImportWhole /\ ImportTold /\ BackupKept

\* Whose an archive is depends on the key line only.
LEMMA SameIdentity ==
  ASSUME UNCHANGED keyLine
  PROVE  \A h, s : IdentityStatus(h, s)' = IdentityStatus(h, s)
BY DEF IdentityStatus

\* An import ends without success unless it was published.
LEMMA ImportEnds ==
  ASSUME \/ arm'.command # "IMPORT"
         \/ arm'.phase \in {"IDLE", "OPEN", "HEADER", "SCAN"}
         \/ arm'.phase = "ACK" /\ arm'.status # "OK"
  PROVE  ImportWhole'
BY DEF ImportWhole, Importing

LEMMA TransferImports ==
  ASSUME StoreInv, ImportWhole, Transfer
  PROVE  ImportWhole'
<1>1. /\ arm \in Arms /\ snapshot \in Memory /\ MaxCell \in Nat /\ arm.phase = "TRANSFER"
      /\ UNCHANGED <<job, archives, keyLine>>
  BY BoundsAssumption
     DEF StoreInv, KeyInv, TypeInv, TypeOK, MailboxTypeOK, StorageTypeOK, Transfer, Working, card,
         Quiet
<1>2. NextSlice \in Cells /\ NextSlice = arm.offset + 1
  BY <1>1 DEF StoreInv, KeyInv, TypeInv, WorkerShape, NextSlice, Arms, Cells
<1>3. CASE Finish(arm, "IO_ERROR")
  BY <1>1, <1>3, FinishFields, ImportEnds
<1>4. CASE Continue(Advanced, IF NextSlice = MaxCell THEN "CLOSE" ELSE "TRANSFER")
  <2>1. /\ arm'.phase = IF NextSlice = MaxCell THEN "CLOSE" ELSE "TRANSFER"
        /\ arm'.command = arm.command /\ arm'.fileId = arm.fileId /\ arm'.offset = NextSlice
        /\ arm'.session = arm.session
    BY <1>1, <1>4 DEF Continue, Advanced, Arms
  <2>2. CASE arm.command # "IMPORT"
    BY <2>1, <2>2, ImportEnds
  <2>3. CASE arm.command = "IMPORT"
    <3>1. snapshot' = [snapshot EXCEPT ![NextSlice] = archives[arm.fileId].payload[NextSlice]]
      BY <1>1, <2>1, <2>3 DEF Transfer, Finish, Arms
    <3>2. /\ arm.fileId \in Ids
          /\ Readable(archives[arm.fileId]) /\ job.header = archives[arm.fileId].header
          /\ IdentityStatus(job.header, arm.session) = "OK"
          /\ \A c \in 1 .. arm.offset : snapshot[c] = archives[arm.fileId].payload[c]
      BY <1>1, <2>3 DEF ImportWhole, Importing
    <3>3. ASSUME NEW c \in 1 .. NextSlice
          PROVE  snapshot'[c] = archives[arm.fileId].payload[c]
      <4>1. CASE c = NextSlice
        BY <1>1, <1>2, <3>1, <4>1 DEF Memory
      <4>2. CASE c # NextSlice
        <5>1. c \in 1 .. arm.offset /\ c \in Cells
          BY <1>1, <1>2, <4>2 DEF Arms, Cells
        <5> QED BY <1>1, <3>1, <3>2, <4>2, <5>1 DEF Memory
      <4> QED BY <4>1, <4>2
    <3>4. IdentityStatus(job.header, arm.session)' = "OK"
      <4>1. PICK h, s : h = job.header /\ s = arm.session
        OBVIOUS
      <4>2. h = job'.header /\ s = arm'.session
        BY <1>1, <2>1, <4>1
      <4> QED BY <1>1, <3>2, <4>1, <4>2, SameIdentity DEF IdentityStatus
    <3>5. arm'.phase # "TRANSFER" => arm'.offset = MaxCell
      BY <2>1
    <3>6. Readable(archives[arm.fileId])'
      BY <1>1, <2>1, <3>2 DEF Readable, ValidHeader
    <3> QED BY <1>1, <2>1, <3>2, <3>3, <3>4, <3>5, <3>6 DEF ImportWhole
  <2> QED BY <2>2, <2>3
<1> QED BY <1>3, <1>4 DEF Transfer

\* Reading the header, closing the file and handing the envelope over.
LEMMA ReadImports ==
  ASSUME StoreInv, ImportWhole, ReadHeader \/ Close \/ PublishImport
  PROVE  ImportWhole'
<1>1. arm \in Arms /\ job \in Jobs /\ WorkerShape /\ UNCHANGED <<archives, snapshot>>
  BY DEF StoreInv, KeyInv, TypeInv, TypeOK, StorageTypeOK, ReadHeader, Close, PublishImport, card
<1>2. UNCHANGED keyLine
  BY DEF ReadHeader, Close, PublishImport, Quiet
<1>3. CASE Finish(arm, "IO_ERROR")
  BY <1>1, <1>3, FinishFields, ImportEnds
<1>4. CASE ReadHeader
  <2> DEFINE file == archives[arm.fileId]
             s    == IF ~Readable(file) THEN "BAD_FILE"
                     ELSE IdentityStatus(file.header, arm.session)
  <2>1. s # "OK" /\ Finish(arm, s) => ImportWhole'
    BY <1>1, FinishFields, ImportEnds
  <2>2. CASE s = "OK" /\ Continue(arm, "TRANSFER")
    <3>1. /\ arm.fileId \in Ids /\ arm.offset = 0 /\ arm.command = "IMPORT"
          /\ Readable(file) /\ IdentityStatus(file.header, arm.session) = "OK"
      BY <1>1, <1>4, <2>2 DEF ReadHeader, Working, WorkerShape
    <3>2. job' = [job EXCEPT !.header = file.header]
      BY <1>4 DEF ReadHeader
    <3>3. job'.header = file.header
      BY <1>1, <3>2 DEF Jobs
    <3>4. /\ arm'.phase = "TRANSFER" /\ arm'.fileId = arm.fileId /\ arm'.offset = 0
          /\ arm'.session = arm.session
      BY <1>1, <2>2, <3>1, ContinueFields
    <3>5. IdentityStatus(job.header, arm.session)' = "OK"
      <4>1. PICK h, i : h = file.header /\ i = arm.session
        OBVIOUS
      <4>2. h = job'.header /\ i = arm'.session
        BY <3>3, <3>4, <4>1
      <4> QED BY <1>2, <3>1, <4>1, <4>2, SameIdentity DEF IdentityStatus
    <3>6. Readable(archives[arm.fileId])' /\ job'.header = archives'[arm'.fileId].header
      BY <1>1, <3>1, <3>3, <3>4 DEF Readable, ValidHeader
    <3>7. \A c \in 1 .. arm'.offset : snapshot'[c] = archives'[arm'.fileId].payload[c]
      BY <3>4
    <3> QED BY <3>1, <3>4, <3>5, <3>6, <3>7 DEF ImportWhole
  <2> HIDE DEF s
  <2>3. \/ s = "OK" /\ Continue(arm, "TRANSFER")
        \/ s # "OK" /\ Finish(arm, s)
        \/ Finish(arm, "IO_ERROR")
    BY <1>4 DEF ReadHeader, s
  <2> QED BY <1>3, <2>1, <2>2, <2>3
<1>5. CASE (Close /\ Continue(arm, "PUBLISH")) \/ PublishImport
  <2>1. arm.phase \in {"CLOSE", "PUBLISH"} /\ UNCHANGED job
    BY <1>5 DEF Close, PublishImport, Working, workVars
  <2>2. CASE arm.command # "IMPORT"
    <3>1. Continue(arm, "PUBLISH")
      BY <1>5, <2>2 DEF PublishImport, Working
    <3> QED BY <1>1, <2>2, <3>1, ContinueFields, ImportEnds
  <2>3. CASE arm.command = "IMPORT"
    <3>1. /\ arm.fileId \in Ids
          /\ Readable(archives[arm.fileId]) /\ job.header = archives[arm.fileId].header
          /\ IdentityStatus(job.header, arm.session) = "OK"
          /\ \A c \in 1 .. arm.offset : snapshot[c] = archives[arm.fileId].payload[c]
          /\ arm.offset = MaxCell
      BY <2>1, <2>3 DEF ImportWhole, Importing
    <3>2. /\ arm'.fileId = arm.fileId /\ arm'.offset = arm.offset /\ arm'.session = arm.session
          /\ arm'.phase = "ACK" => header' = job.header
      BY <1>1, <1>5, FinishFields, ContinueFields DEF PublishImport
    <3>3. IdentityStatus(job.header, arm.session)' = "OK"
      <4>1. PICK h, i : h = job.header /\ i = arm.session
        OBVIOUS
      <4>2. h = job'.header /\ i = arm'.session
        BY <2>1, <3>2, <4>1
      <4> QED BY <1>2, <3>1, <4>1, <4>2, SameIdentity DEF IdentityStatus
    <3>4. Readable(archives[arm.fileId])'
      BY <1>1, <3>1, <3>2 DEF Readable, ValidHeader
    <3> QED BY <1>1, <2>1, <3>1, <3>2, <3>3, <3>4 DEF ImportWhole
  <2> QED BY <2>2, <2>3
<1> QED BY <1>3, <1>4, <1>5 DEF Close

\* No other step of the worker starts an import or ends one well.
LEMMA WorkerImports ==
  ASSUME StoreInv, Errand, ImportWhole, StorageStep
  PROVE  ImportWhole'
<1>1. arm \in Arms
  BY DEF StoreInv, KeyInv, TypeInv, TypeOK, StorageTypeOK
<1>2. CASE PublishAck
  <2>1. arm'.phase = "IDLE"
    BY <1>1, <1>2 DEF PublishAck, Arms
  <2> QED BY <2>1, ImportEnds
<1>3. CASE Latch
  <2>1. Latched \in Arms
    BY BoundsAssumption
       DEF StoreInv, KeyInv, TypeInv, TypeOK, MailboxTypeOK, Latched, Requests, Arms,
           ServicePhases, Statuses
  <2> QED BY <1>3, <2>1, FinishFields, ContinueFields, ImportEnds DEF Latch
<1>4. CASE Cancel \/ OpenImport
  <2>1. \/ Finish(arm, "CANCELLED") \/ Finish(arm, "NOT_FOUND") \/ Finish(arm, "IO_ERROR")
        \/ Continue(arm, "HEADER")
    BY <1>4 DEF Cancel, OpenImport
  <2> QED BY <1>1, <2>1, FinishFields, ContinueFields, ImportEnds
<1>5. CASE Transfer \/ ReadHeader \/ Close \/ PublishImport
  BY <1>5, TransferImports, ReadImports
<1>6. CASE ~(\/ PublishAck \/ Latch \/ Cancel \/ OpenImport \/ Transfer \/ ReadHeader \/ Close
             \/ PublishImport)
  <2>1. arm.command # "IMPORT"
    BY <1>6 DEF StorageStep, OpenKey, WriteKeyCopy0, WriteKeyCopy1, OpenCatalog, ScanEntry,
                EndScan, DeleteArchive, DropName0, DropName1, OpenRename, RemoveOldName,
                PlaceName, OpenExport, WriteHeader, PublishExport, Working, Errand,
                StoreInv, TargetKnown
  <2>2. Serve
    BY <1>6, WorkerServes DEF StoreInv, ProtocolInv
  <2> QED BY <2>1, <2>2, ImportEnds DEF Serve, SameRequest
<1> QED BY <1>2, <1>3, <1>4, <1>5, <1>6

\* The answer says what the worker did.
LEMMA AnswerImports ==
  ASSUME StoreInv, Errand, ImportWhole, Worker
  PROVE  ImportTold'
<1>1. StorageStep /\ UNCHANGED ppc /\ UNCHANGED request
  BY DEF Worker, StorageNext, clientVars, ppcLines
<1>2. SUFFICES ASSUME ppc.command = "IMPORT", response'.ack = ppc.seq, response'.status = "OK"
               PROVE  ImportTold'
  BY <1>1 DEF ImportTold
<1>3. PublishAck
  <2>1. response.ack # ppc.seq
    BY <1>1, <1>2, AnswerStands
  <2>2. PublishAck \/ Latch \/ Serve
    BY <1>1, WorkerServes DEF StoreInv, ProtocolInv
  <2> QED BY <1>2, <2>1, <2>2 DEF Latch, Quiet, Serve
<1>4. /\ UNCHANGED <<archives, header, snapshot, keyLine>>
      /\ arm.phase = "ACK" /\ arm.status = "OK"
  BY <1>2, <1>3 DEF PublishAck, card
<1>5. /\ request.command = ppc.command /\ request.id = ppc.id
      /\ arm.command = request.command /\ arm.requestId = request.id
      /\ arm.session = ppc.session
  BY <1>2, <1>4 DEF StoreInv, ProtocolInv, Protocol, RequestOutstanding, WorkerOwes
<1>6. /\ arm.fileId = ppc.id /\ arm.fileId \in Ids
      /\ Readable(archives[arm.fileId]) /\ job.header = archives[arm.fileId].header
      /\ IdentityStatus(job.header, arm.session) = "OK"
      /\ \A c \in 1 .. arm.offset : snapshot[c] = archives[arm.fileId].payload[c]
      /\ arm.offset = MaxCell /\ header = job.header
  BY <1>2, <1>4, <1>5 DEF ImportWhole, Importing, Errand
<1>7. snapshot = archives[ppc.id].payload
  <2>1. snapshot \in Memory /\ archives[ppc.id].payload \in Memory
    BY <1>6 DEF StoreInv, KeyInv, TypeInv, TypeOK, MailboxTypeOK, StorageTypeOK, Files
  <2>2. PICK payload : payload = archives[ppc.id].payload
    OBVIOUS
  <2>3. \A c \in Cells : snapshot[c] = payload[c]
    BY <1>6, <2>2 DEF Cells
  <2>4. payload \in Memory
    BY <2>1, <2>2
  <2>5. snapshot = payload
    BY <2>1, <2>3, <2>4 DEF Memory
  <2> QED BY <2>2, <2>5
<1>8. Readable(archives[ppc.id])' /\ header' = archives'[ppc'.id].header
  BY <1>1, <1>4, <1>6 DEF Readable, ValidHeader
<1>9. IdentityStatus(header, ppc.session)' = "OK"
  <2>1. PICK h, s : h = header /\ s = ppc.session
    OBVIOUS
  <2>2. h = header' /\ s = ppc'.session
    BY <1>1, <1>4, <2>1
  <2> QED BY <1>4, <1>5, <1>6, <2>1, <2>2, SameIdentity DEF IdentityStatus
<1> QED BY <1>1, <1>4, <1>7, <1>8, <1>9 DEF ImportTold

\* The game leaves the import alone until it has the answer, and packs the slot
\* aside before it asks.
LEMMA GameImports ==
  ASSUME StoreInv, ImportInv, Game
  PROVE  ImportInv'
<1>1. /\ ClientNext /\ UNCHANGED <<arm, job, archives, response, keyLine>>
      /\ slot \in Slots /\ snapshot \in Memory /\ 1 \in Cells
  BY BoundsAssumption
     DEF Game, storageVars, workVars, card, ClientNext, armLines, StoreInv, KeyInv, TypeInv,
         TypeOK, MailboxTypeOK, ClientTypeOK, Cells
<1>2. ImportWhole'
  <2>1. SUFFICES ASSUME Importing PROVE ImportWhole'
    BY <1>1 DEF ImportWhole, Importing
  <2>2. UNCHANGED <<snapshot, header>>
    <3>1. Unanswered
      BY <2>1 DEF Importing, StoreInv, ProtocolInv, Protocol, WorkerOwes, Unanswered
    <3> QED BY <1>1, <3>1, GameWaits
  <2>3. IdentityStatus(job.header, arm.session)' = IdentityStatus(job.header, arm.session)
    BY <1>1 DEF IdentityStatus
  <2>4. Readable(archives[arm.fileId])' = Readable(archives[arm.fileId])
    BY <1>1 DEF Readable, ValidHeader
  <2> QED BY <1>1, <2>1, <2>2, <2>3, <2>4 DEF ImportInv, ImportWhole
<1>3. CASE ppc.command = "NONE"
  <2>1. SUFFICES ASSUME ppc'.command = "IMPORT" PROVE BackupKept' /\ ImportTold'
    BY <1>2 DEF ImportInv, BackupKept, ImportTold
  <2>2. ImportTold'
    BY <1>1, <1>3, <2>1, GameAsks DEF ImportTold
  <2>3. RequestImport
    BY <1>1, <1>3, <2>1, GameAsks
  <2>4. slot' = [slot EXCEPT !.backup = IF slot.raw THEN snapshot[1] ELSE Blank]
        /\ (slot.raw => Coherent(snapshot))
    BY <2>3 DEF RequestImport
  <2>5. slot'.raw = slot.raw /\ slot'.backup = IF slot.raw THEN snapshot[1] ELSE Blank
    BY <1>1, <2>4 DEF Slots
  <2>6. BackupKept'
    BY <2>4, <2>5 DEF BackupKept, Coherent
  <2> QED BY <2>2, <2>6
<1>4. CASE ppc.command # "NONE"
  <2>1. CASE ppc'.command = "NONE"
    BY <1>2, <2>1 DEF ImportInv, BackupKept, ImportTold
  <2>2. CASE ppc'.command # "NONE"
    <3>1. UNCHANGED <<ppc, snapshot, header, slot>>
      BY <1>1, <1>4, <2>2, GameReads
    <3>2. IdentityStatus(header, ppc.session)' = IdentityStatus(header, ppc.session)
      BY <1>1, <3>1 DEF IdentityStatus
    <3>3. Readable(archives[ppc.id])' = Readable(archives[ppc.id])
      BY <1>1, <3>1 DEF Readable, ValidHeader
    <3>4. ImportTold'
      BY <1>1, <3>1, <3>2, <3>3 DEF ImportInv, ImportTold
    <3>5. BackupKept'
      BY <3>1 DEF ImportInv, BackupKept
    <3> QED BY <1>2, <3>4, <3>5 DEF ImportInv
  <2> QED BY <2>1, <2>2
<1> QED BY <1>2, <1>3, <1>4 DEF ImportInv

\* A reset forgets what was asked; a power cut forgets everything.
LEMMA ImportStep ==
  ASSUME StoreInv, Errand, ImportInv, [Next]_vars
  PROVE  ImportInv'
<1>1. CASE Worker
  <2>1. StorageStep /\ UNCHANGED <<ppc, slot>>
    BY <1>1 DEF Worker, StorageNext, clientVars
  <2>2. ImportWhole' /\ ImportTold'
    BY <1>1, <2>1, WorkerImports, AnswerImports DEF ImportInv
  <2>3. BackupKept'
    BY <2>1 DEF ImportInv, BackupKept
  <2> QED BY <2>2, <2>3 DEF ImportInv
<1>2. CASE Game
  BY <1>2, GameImports
<1>3. CASE Reset \/ UNCHANGED vars
  <2>1. UNCHANGED <<arm, job, archives, response, keyLine, header, snapshot>>
    BY <1>3 DEF Reset, vars, mailboxVars, armLines, storageVars, workVars, card
  <2>2. ImportWhole'
    <3>1. IdentityStatus(job.header, arm.session)' = IdentityStatus(job.header, arm.session)
      BY <2>1 DEF IdentityStatus
    <3>2. Readable(archives[arm.fileId])' = Readable(archives[arm.fileId])
      BY <2>1 DEF Readable, ValidHeader
    <3> QED BY <2>1, <3>1, <3>2 DEF ImportInv, ImportWhole, Importing
  <2>3. CASE Reset
    <3>1. ppc'.command = "NONE"
      BY <2>3 DEF Reset, FreshProcess, FreshPpc
    <3> QED BY <2>2, <3>1 DEF ImportInv, ImportTold, BackupKept
  <2>4. CASE UNCHANGED vars
    <3>1. UNCHANGED <<ppc, slot>>
      BY <2>4 DEF vars, clientVars
    <3>2. IdentityStatus(header, ppc.session)' = IdentityStatus(header, ppc.session)
      BY <2>1, <3>1 DEF IdentityStatus
    <3>3. Readable(archives[ppc.id])' = Readable(archives[ppc.id])
      BY <2>1, <3>1 DEF Readable, ValidHeader
    <3> QED BY <2>1, <2>2, <3>1, <3>2, <3>3 DEF ImportInv, ImportTold, BackupKept
  <2> QED BY <1>3, <2>3, <2>4
<1>4. CASE PowerLoss
  <2>1. arm'.phase = "IDLE" /\ ppc'.command = "NONE"
    BY <1>4 DEF PowerLoss, StorageRestart, IdleArm, FreshProcess, FreshPpc
  <2> QED BY <2>1, ImportEnds DEF ImportInv, ImportTold, BackupKept
<1> QED BY <1>1, <1>2, <1>3, <1>4 DEF Next

\* Only the process itself ends its request, by reading the answer.
LEMMA RequestFinishes ==
  ASSUME StoreInv, [Next]_vars, NEW command \in Commands, Finishes(command)
  PROVE  Game /\ ServiceStorage
<1>1. ppc \in Ppcs /\ ppc.command # "NONE" /\ ppc' # ppc /\ ppc'.session = ppc.session
  BY DEF Finishes, Commands, StoreInv, KeyInv, TypeInv, TypeOK, ClientTypeOK
<1>2. ~(Reset \/ PowerLoss)
  <2>1. ~FreshProcess
    BY <1>1 DEF FreshProcess, FreshPpc, Ppcs, Sessions
  <2> QED BY <2>1 DEF Reset, PowerLoss
<1>3. Game
  BY <1>1, <1>2 DEF Next, Worker, vars, clientVars
<1> QED BY <1>1, <1>3, GameReads DEF Game

LEMMA ImportEndsWell ==
  ASSUME StoreInv, ImportInv, [Next]_vars, Finishes("IMPORT")
  PROVE  IF outcome'.result = "DONE"
         THEN LET file == archives[ppc.id]
              IN  /\ WholeFile(file) /\ snapshot' = file.payload
                  /\ IdentityStatus(file.header, ppc.session) = "OK"
         ELSE IF slot.raw
              THEN slot'.raw /\ slot.backup # Blank /\ Holds(snapshot', slot.backup)
              ELSE ~slot'.raw /\ snapshot'[1] = Blank
<1>1. /\ ppc.command = "IMPORT" /\ snapshot \in Memory /\ 1 \in Cells
      /\ slot.raw <=> slot.backup # Blank
  BY BoundsAssumption
     DEF Finishes, StoreInv, KeyInv, TypeInv, TypeOK, MailboxTypeOK, Cells, ImportInv, BackupKept
<1>2. CompleteImport
  <2>1. ServiceStorage
    BY RequestFinishes DEF Commands
  <2> QED
    BY <1>1, <2>1 DEF ServiceStorage, CompleteKey, CompleteDelete, CompleteCatalog,
                      CompleteExport, CompleteRename, Answered
<1>3. outcome'.result = ImportVerdict
  BY <1>2 DEF CompleteImport, Tell
<1>4. CASE ImportVerdict = "DONE"
  <2>1. response.ack = ppc.seq /\ response.status = "OK"
    BY <1>1, <1>2, <1>4 DEF CompleteImport, Answered, ImportVerdict, Verdict, NameOnlyFailure
  <2>2. /\ Readable(archives[ppc.id]) /\ header = archives[ppc.id].header
        /\ IdentityStatus(header, ppc.session) = "OK"
        /\ snapshot = archives[ppc.id].payload
    BY <1>1, <2>1 DEF ImportInv, ImportTold
  <2>3. Holds(snapshot, header.state)
    BY <1>4 DEF ImportVerdict, ImportedArchiveOK
  <2>4. snapshot' = snapshot
    BY <1>2, <1>4 DEF CompleteImport
  <2>5. WholeFile(archives[ppc.id])
    <3>1. Holds(archives[ppc.id].payload, archives[ppc.id].header.state)
      BY <2>2, <2>3
    <3> QED BY <2>2, <3>1 DEF WholeFile, Readable
  <2> QED BY <1>3, <1>4, <2>2, <2>4, <2>5
<1>5. CASE ImportVerdict # "DONE"
  <2>1. /\ slot' = [raw |-> slot.backup # Blank, backup |-> Blank]
        /\ snapshot' = IF slot.backup # Blank THEN [c \in Cells |-> slot.backup]
                       ELSE [snapshot EXCEPT ![1] = Blank]
    BY <1>2, <1>5 DEF CompleteImport
  <2>2. slot'.raw = (slot.backup # Blank)
    BY <2>1
  <2>3. CASE slot.raw
    <3>1. slot'.raw /\ slot.backup # Blank
      BY <1>1, <2>2, <2>3
    <3>2. Holds(snapshot', slot.backup)
      BY <2>1, <3>1 DEF Holds
    <3> QED BY <1>3, <1>5, <2>3, <3>1, <3>2
  <2>4. CASE ~slot.raw
    <3>1. ~slot'.raw /\ slot.backup = Blank
      BY <1>1, <2>2, <2>4
    <3>2. snapshot'[1] = Blank
      BY <1>1, <2>1, <3>1 DEF Memory
    <3> QED BY <1>3, <1>5, <2>4, <3>1, <3>2
  <2> QED BY <2>3, <2>4
<1> QED BY <1>4, <1>5

-----------------------------------------------------------------------------
(* Exports.                                                                *)

NamingPhases == {"WRITENAME", "PLACENAME"}

\* The worker has published the file; what is left is its name, or the answer.
Exported ==
  /\ arm.command = "EXPORT"
  /\ \/ arm.phase \in NamingPhases
     \/ arm.phase = "ACK" /\ arm.status \in {"OK", "NAME_ERROR"}

\* An archive is the state in the slot, whole; its name is the one given.
OnCard(id) == id \in Ids /\ WholeFile(archives[id]) /\ archives[id].payload = snapshot
Named(id) == LatestName(id, archives[id].header).name = requestName

ExportWhole ==
  /\ arm.command = "EXPORT" /\ arm.phase \in ExportPhases \cup NamingPhases =>
       job.name = requestName
  /\ Exported => OnCard(arm.fileId)
  /\ Exported /\ arm.phase = "ACK" /\ arm.status = "OK" => Named(arm.fileId)

\* The same, once the answer is there and until the process has read it.
ExportTold ==
  ppc.command = "EXPORT" /\ response.ack = ppc.seq =>
    /\ response.status \in {"OK", "NAME_ERROR"} => OnCard(response.resultId)
    /\ response.status = "OK" => Named(response.resultId)

\* Only a slot that holds a state is exported.
SlotExported == ppc.command = "EXPORT" => slot.raw

ExportInv == ExportWhole /\ ExportTold /\ SlotExported

LEMMA CardStays ==
  ASSUME UNCHANGED <<archives, labels, snapshot, requestName>>
  PROVE  \A id : (OnCard(id)' <=> OnCard(id)) /\ (Named(id)' <=> Named(id))
<1>1. \A id, h : LatestName(id, h)' = LatestName(id, h)
  BY DEF LatestName, LatestCopy, NamesOf
<1>2. ASSUME NEW id PROVE Named(id)' <=> Named(id)
  <2>1. PICK h : h = archives[id].header
    OBVIOUS
  <2> QED BY <1>1, <2>1 DEF Named, LatestName, LatestCopy, NamesOf
<1>3. ASSUME NEW id PROVE OnCard(id)' <=> OnCard(id)
  BY DEF OnCard, WholeFile, ValidHeader, Holds
<1> QED BY <1>2, <1>3

\* The worker has given the export up, or does something else.
LEMMA ExportEnds ==
  ASSUME \/ arm'.command # "EXPORT"
         \/ arm'.phase \in {"IDLE", "SCAN"}
         \/ arm'.phase = "ACK" /\ arm'.status \notin {"OK", "NAME_ERROR"}
  PROVE  ExportWhole'
BY DEF ExportWhole, Exported, ExportPhases, NamingPhases

\* Nothing is on the card yet: the name is kept for later.
LEMMA ExportGoesOn ==
  ASSUME StoreInv, ExportWhole, UNCHANGED <<job, requestName>>,
         arm.command = "EXPORT", arm.phase \in ExportPhases, arm'.phase \in ExportPhases
  PROVE  ExportWhole'
BY DEF ExportWhole, Exported, ExportPhases, NamingPhases

\* Opening, writing and closing the temporary file.
LEMMA DraftExports ==
  ASSUME StoreInv, ExportWhole, UNCHANGED requestName, arm.command = "EXPORT",
         OpenExport \/ WriteHeader \/ Transfer \/ Close
  PROVE  ExportWhole'
<1>1. arm \in Arms /\ UNCHANGED job /\ arm.phase \in ExportPhases
  BY DEF StoreInv, KeyInv, TypeInv, TypeOK, StorageTypeOK, OpenExport, WriteHeader, Transfer,
         Close, Working, workVars, ExportPhases
<1>2. ASSUME NEW a \in Arms, a.command = "EXPORT",
             \/ \E s \in {"IO_ERROR", "FULL"} : Finish(a, s)
             \/ \E p \in ExportPhases : Continue(a, p)
      PROVE  ExportWhole'
  <2>1. CASE \E s \in {"IO_ERROR", "FULL"} : Finish(a, s)
    BY <1>2, <2>1, FinishFields, ExportEnds
  <2>2. CASE \E p \in ExportPhases : Continue(a, p)
    <3>1. arm'.phase \in ExportPhases
      BY <1>2, <2>2, ContinueFields
    <3> QED BY <1>1, <3>1, ExportGoesOn
  <2> QED BY <1>2, <2>1, <2>2
<1>3. CASE OpenExport
  <2>1. arm.fileId \in Ids
    BY <1>3 DEF OpenExport, Working, StoreInv, KeyInv, TypeInv, WorkerShape
  <2>2. /\ [arm EXCEPT !.fileId = arm.fileId + 1] \in Arms
        /\ [arm EXCEPT !.fileId = arm.fileId + 1].command = "EXPORT"
    <3>1. arm.fileId + 1 \in 0 .. MaxId + 1
      BY <2>1, BoundsAssumption DEF Ids
    <3> QED BY <1>1, <3>1 DEF Arms
  <2> QED BY <1>1, <1>2, <1>3, <2>2 DEF OpenExport, ExportPhases
<1>4. CASE Transfer
  <2>1. CASE Finish(arm, "IO_ERROR")
    BY <1>1, <1>2, <2>1
  <2>2. CASE Continue(Advanced, IF NextSlice = MaxCell THEN "CLOSE" ELSE "TRANSFER")
    <3>1. arm'.phase \in {"CLOSE", "TRANSFER"}
      BY <1>1, <2>2 DEF Continue, Advanced, Arms
    <3> QED BY <1>1, <3>1, ExportGoesOn DEF ExportPhases
  <2> QED BY <1>4, <2>1, <2>2 DEF Transfer
<1>5. CASE WriteHeader \/ Close
  <2>1. \/ \E s \in {"IO_ERROR", "FULL"} : Finish(arm, s)
        \/ \E p \in ExportPhases : Continue(arm, p)
    BY <1>5 DEF WriteHeader, Close, ExportPhases
  <2> QED BY <1>1, <1>2, <2>1
<1> QED BY <1>3, <1>4, <1>5

\* The file that is published is the slot, slice by slice.
LEMMA PublishExports ==
  ASSUME StoreInv, ExportWhole, UNCHANGED requestName, PublishExport
  PROVE  ExportWhole'
<1>1. /\ arm \in Arms /\ arm.command = "EXPORT" /\ arm.phase = "PUBLISH" /\ arm.fileId \in Ids
      /\ archives \in [Ids -> Files] /\ draft \in Memory /\ snapshot \in Memory
      /\ UNCHANGED <<job, snapshot>>
  BY DEF PublishExport, Working, StoreInv, KeyInv, TypeInv, TypeOK, MailboxTypeOK, StorageTypeOK,
         WorkerShape, workVars
<1>2. CASE Finish(arm, "IO_ERROR")
  BY <1>1, <1>2, FinishFields, ExportEnds
<1>3. CASE /\ Continue(arm, "WRITENAME")
           /\ archives' = [archives EXCEPT ![arm.fileId] =
                [header |-> job.header, complete |-> TRUE, payload |-> draft]]
  <2>1. /\ arm'.phase = "WRITENAME" /\ arm'.fileId = arm.fileId /\ job'.name = requestName'
    BY <1>1, <1>3, ContinueFields DEF ExportWhole, ExportPhases
  <2>2. archives'[arm.fileId] = [header |-> job.header, complete |-> TRUE, payload |-> draft]
    BY <1>1, <1>3
  <2>3. /\ job.header = header /\ ValidHeader(header) /\ arm.offset = MaxCell
        /\ \A c \in 1 .. arm.offset : draft[c] = job.header.state
    BY <1>1 DEF StoreInv, DraftWhole, ExportPhases
  <2>4. Holds(snapshot, header.state)
    BY <1>1 DEF StoreInv, ProtocolInv, Protocol, WorkerOwes, PendingWhole
  <2>5. Holds(draft, header.state)
    BY <2>3 DEF Holds, Cells
  <2>6. draft = snapshot
    <3>1. PICK state : state = header.state
      OBVIOUS
    <3>2. \A c \in Cells : draft[c] = snapshot[c]
      BY <2>4, <2>5, <3>1 DEF Holds
    <3> QED BY <1>1, <3>2 DEF Memory
  <2>7. OnCard(arm.fileId)'
    BY <1>1, <2>1, <2>2, <2>3, <2>5, <2>6 DEF OnCard, WholeFile, ValidHeader, Holds
  <2> QED BY <2>1, <2>7 DEF ExportWhole
<1> QED BY <1>2, <1>3 DEF PublishExport

\* Naming leaves the file alone and, when all goes well, names it.
LEMMA NameExports ==
  ASSUME StoreInv, ExportWhole, UNCHANGED requestName, arm.command = "EXPORT",
         RemoveOldName \/ PlaceName
  PROVE  ExportWhole'
<1>1. /\ arm \in Arms /\ StorageTypeOK /\ arm.phase \in NamingPhases /\ arm.fileId \in Ids
      /\ UNCHANGED <<job, snapshot, archives>> /\ NameFailure = "NAME_ERROR"
      /\ archives[arm.fileId].header = job.header
  BY DEF RemoveOldName, PlaceName, StoreInv, KeyInv, TypeInv, TypeOK, StorageTypeOK, WorkerShape,
         TargetKnown, workVars, NameFailure, NamingPhases
<1>2. job.name = requestName /\ OnCard(arm.fileId)
  BY <1>1 DEF ExportWhole, Exported
<1>3. PICK id \in Ids : id = arm.fileId
  BY <1>1
<1>4. OnCard(id)'
  BY <1>1, <1>2, <1>3 DEF OnCard, WholeFile, ValidHeader, Holds
<1>5. CASE Continue(arm, "PLACENAME") \/ Finish(arm, "NAME_ERROR")
  <2>1. arm'.fileId = id /\ (arm'.phase = "PLACENAME" \/ arm'.status = "NAME_ERROR")
    BY <1>1, <1>3, <1>5, FinishFields, ContinueFields
  <2>2. arm'.phase \in {"PLACENAME", "ACK"} /\ (arm'.phase = "ACK" => arm'.status = "NAME_ERROR")
    BY <1>1, <1>5, FinishFields, ContinueFields
  <2> QED BY <1>1, <1>2, <1>4, <2>1, <2>2 DEF ExportWhole
<1>6. CASE PlaceName /\ Finish(arm, "OK")
  <2>1. arm'.fileId = id /\ arm'.phase = "ACK"
    BY <1>1, <1>3, <1>6, FinishFields
  <2>2. PICK h, name : h = job.header /\ name = job.name
    OBVIOUS
  <2>3. labels' = [labels EXCEPT ![id][1 - LatestCopy(id, h)] =
                     [gen |-> LatestName(id, h).gen + 1, name |-> name, header |-> h]]
    <3>1. arm'.status = "OK"
      BY <1>1, <1>6, FinishFields
    <3>2. ~Finish(arm, NameFailure)
      <4>1. ASSUME Finish(arm, "NAME_ERROR") PROVE arm'.status = "NAME_ERROR"
        BY <1>1, <4>1, FinishFields
      <4> QED BY <1>1, <3>1, <4>1
    <3> QED BY <1>3, <1>6, <2>2, <3>2 DEF PlaceName
  <2>4. LatestName(id, h)'.name = name
    BY <1>1, <2>3, NewNameWins
  <2>5. Named(id)'
    <3>1. archives'[id].header = h
      BY <1>1, <1>3, <2>2
    <3> QED BY <1>2, <2>2, <2>4, <3>1 DEF Named, LatestName, LatestCopy, NamesOf
  <2> QED BY <1>1, <1>2, <1>4, <2>1, <2>5 DEF ExportWhole, ExportPhases, NamingPhases
<1> QED BY <1>1, <1>5, <1>6 DEF RemoveOldName, PlaceName

\* No other step of the worker starts an export or ends one well.
LEMMA WorkerExports ==
  ASSUME StoreInv, Errand, ExportWhole, UNCHANGED requestName, StorageStep
  PROVE  ExportWhole'
<1>1. arm \in Arms
  BY DEF StoreInv, KeyInv, TypeInv, TypeOK, StorageTypeOK
<1>2. CASE PublishAck
  <2>1. arm'.phase = "IDLE"
    BY <1>1, <1>2 DEF PublishAck, Arms
  <2> QED BY <2>1, ExportEnds
<1>3. CASE Latch
  <2>1. Latched \in Arms
    BY BoundsAssumption
       DEF StoreInv, KeyInv, TypeInv, TypeOK, MailboxTypeOK, Latched, Requests, Arms,
           ServicePhases, Statuses
  <2>2. CASE LatchStatus # "OK"
    <3>1. LatchStatus \notin {"OK", "NAME_ERROR"}
      BY <2>2 DEF LatchStatus, IdentityStatus
    <3> QED BY <1>3, <2>1, <2>2, <3>1, FinishFields, ExportEnds DEF Latch
  <2>3. CASE LatchStatus = "OK"
    <3>1. arm'.phase = "OPEN" /\ arm'.command = request.command
      BY <1>3, <2>1, <2>3, ContinueFields DEF Latch, Latched
    <3>2. request.command = "EXPORT" => job'.name = requestName
      BY <1>3, <2>3 DEF Latch, LatchStatus, LatchedJob
    <3> QED BY <3>1, <3>2 DEF ExportWhole, Exported, NamingPhases
  <2> QED BY <2>2, <2>3
<1>4. CASE Cancel
  BY <1>1, <1>4, FinishFields, ExportEnds DEF Cancel
<1>5. CASE /\ arm.command = "EXPORT"
           /\ \/ OpenExport \/ WriteHeader \/ Transfer \/ Close
              \/ PublishExport \/ RemoveOldName \/ PlaceName
  BY <1>5, DraftExports, PublishExports, NameExports
<1>6. CASE arm.command # "EXPORT" /\ ~PublishAck /\ ~Latch
  <2>1. Serve
    BY <1>6, WorkerServes DEF StoreInv, ProtocolInv
  <2> QED BY <1>6, <2>1, ExportEnds DEF Serve, SameRequest
<1>7. arm.command = "EXPORT" =>
        \/ PublishAck \/ Latch \/ Cancel \/ OpenExport \/ WriteHeader \/ Transfer \/ Close
        \/ PublishExport \/ RemoveOldName \/ PlaceName
  BY DEF StorageStep, OpenKey, WriteKeyCopy0, WriteKeyCopy1, OpenCatalog, ScanEntry, EndScan,
         DeleteArchive, DropName0, DropName1, OpenRename, OpenImport, ReadHeader, PublishImport,
         Working, Errand
<1> QED BY <1>2, <1>3, <1>4, <1>5, <1>6, <1>7

\* The answer names the file the worker published.
LEMMA AnswerExports ==
  ASSUME StoreInv, ExportWhole, Worker
  PROVE  ExportTold'
<1>1. StorageStep /\ UNCHANGED <<ppc, request, requestName>>
  BY DEF Worker, StorageNext, clientVars, ppcLines
<1>2. SUFFICES ASSUME ppc.command = "EXPORT", response'.ack = ppc.seq
               PROVE  ExportTold'
  BY <1>1 DEF ExportTold
<1>3. PublishAck
  <2>1. response.ack # ppc.seq
    BY <1>1, <1>2, AnswerStands
  <2>2. PublishAck \/ Latch \/ Serve
    BY <1>1, WorkerServes DEF StoreInv, ProtocolInv
  <2> QED BY <1>2, <2>1, <2>2 DEF Latch, Quiet, Serve
<1>4. /\ UNCHANGED <<archives, labels, snapshot, requestName>>
      /\ arm.phase = "ACK" /\ response'.status = arm.status /\ response'.resultId = arm.fileId
  BY <1>1, <1>3 DEF PublishAck, card
<1>5. arm.command = "EXPORT"
  BY <1>2, <1>4 DEF StoreInv, ProtocolInv, Protocol, RequestOutstanding, WorkerOwes
<1>6. /\ arm.status \in {"OK", "NAME_ERROR"} => OnCard(arm.fileId)
      /\ arm.status = "OK" => Named(arm.fileId)
  BY <1>4, <1>5 DEF ExportWhole, Exported
<1>7. PICK id : id = arm.fileId
  OBVIOUS
<1>8. /\ arm.status \in {"OK", "NAME_ERROR"} => OnCard(id)'
      /\ arm.status = "OK" => Named(id)'
  BY <1>4, <1>6, <1>7, CardStays
<1>9. OnCard(response.resultId)' <=> OnCard(id)'
  BY <1>4, <1>7 DEF OnCard
<1>10. Named(response.resultId)' <=> Named(id)'
  BY <1>4, <1>7 DEF Named, LatestName, LatestCopy, NamesOf
<1> QED BY <1>1, <1>4, <1>8, <1>9, <1>10 DEF ExportTold

ExportUnderWay == arm.command = "EXPORT" /\ (Exported \/ arm.phase \in ExportPhases)

\* A step that leaves all of an export alone keeps what is known of it.
LEMMA ExportStays ==
  ASSUME ExportInv, UNCHANGED <<arm, job, archives, labels, response>>,
         ExportUnderWay => UNCHANGED <<snapshot, requestName>>
  PROVE  ExportWhole'
<1>1. SUFFICES ASSUME ExportUnderWay
               PROVE  ExportWhole'
  BY DEF ExportWhole, Exported, ExportUnderWay, NamingPhases
<1>2. PICK id : id = arm.fileId
  OBVIOUS
<1>3. (OnCard(id)' <=> OnCard(id)) /\ (Named(id)' <=> Named(id))
  BY <1>1, CardStays
<1>4. OnCard(arm.fileId)' <=> OnCard(id)'
  BY <1>2 DEF OnCard
<1>5. Named(arm.fileId)' <=> Named(id)'
  BY <1>2 DEF Named, LatestName, LatestCopy, NamesOf
<1>6. (OnCard(arm.fileId) <=> OnCard(id)) /\ (Named(arm.fileId) <=> Named(id))
  BY <1>2
<1>7. Exported' <=> Exported
  BY DEF Exported
<1> QED BY <1>1, <1>3, <1>4, <1>5, <1>6, <1>7 DEF ExportInv, ExportWhole

LEMMA ToldStays ==
  ASSUME ExportInv, UNCHANGED <<archives, labels, response, ppc, snapshot, requestName, slot>>
  PROVE  ExportTold' /\ SlotExported'
<1>1. PICK id : id = response.resultId
  OBVIOUS
<1>2. (OnCard(id)' <=> OnCard(id)) /\ (Named(id)' <=> Named(id))
  BY CardStays
<1>3. OnCard(response.resultId)' <=> OnCard(id)'
  BY <1>1 DEF OnCard
<1>4. Named(response.resultId)' <=> Named(id)'
  BY <1>1 DEF Named, LatestName, LatestCopy, NamesOf
<1>5. (OnCard(response.resultId) <=> OnCard(id)) /\ (Named(response.resultId) <=> Named(id))
  BY <1>1
<1> QED BY <1>2, <1>3, <1>4, <1>5 DEF ExportInv, ExportTold, SlotExported

\* The game leaves the export alone until it has the answer.
LEMMA GameExports ==
  ASSUME StoreInv, ExportInv, Game
  PROVE  ExportInv'
<1>1. /\ ClientNext /\ UNCHANGED <<arm, job, archives, labels, response>> /\ slot \in Slots
  BY DEF Game, storageVars, workVars, card, ClientNext, armLines, StoreInv, KeyInv, TypeInv,
         TypeOK, ClientTypeOK
<1>2. ExportWhole'
  <2>1. ASSUME ExportUnderWay
        PROVE  UNCHANGED <<snapshot, requestName>>
    <3>1. arm.phase # "IDLE"
      BY <2>1 DEF ExportUnderWay, Exported, ExportPhases, NamingPhases
    <3>2. Unanswered
      BY <3>1 DEF StoreInv, ProtocolInv, Protocol, WorkerOwes, Unanswered
    <3> QED BY <1>1, <3>2, GameWaits
  <2> QED BY <1>1, <2>1, ExportStays
<1>3. CASE ppc.command = "NONE"
  <2>1. SUFFICES ASSUME ppc'.command = "EXPORT" PROVE ExportTold' /\ SlotExported'
    BY <1>2 DEF ExportInv, ExportTold, SlotExported
  <2>2. RequestExport /\ response'.ack # ppc'.seq
    BY <1>1, <1>3, <2>1, GameAsks
  <2> QED BY <2>2 DEF RequestExport, ExportTold, SlotExported
<1>4. CASE ppc.command # "NONE"
  <2>1. CASE ppc'.command = "NONE"
    BY <1>2, <2>1 DEF ExportInv, ExportTold, SlotExported
  <2>2. CASE ppc'.command # "NONE"
    <3>1. UNCHANGED <<ppc, snapshot, requestName, slot>>
      BY <1>1, <1>4, <2>2, GameReads
    <3> QED BY <1>1, <1>2, <3>1, ToldStays DEF ExportInv
  <2> QED BY <2>1, <2>2
<1> QED BY <1>2, <1>3, <1>4 DEF ExportInv

\* A reset forgets what was asked; a power cut forgets everything but the card.
LEMMA ExportStep ==
  ASSUME StoreInv, Errand, ExportInv, [Next]_vars
  PROVE  ExportInv'
<1>1. CASE Worker
  <2>1. StorageStep /\ UNCHANGED <<ppc, slot, requestName>>
    BY <1>1 DEF Worker, StorageNext, clientVars, ppcLines
  <2>2. ExportWhole' /\ ExportTold'
    BY <1>1, <2>1, WorkerExports, AnswerExports DEF ExportInv
  <2>3. SlotExported'
    BY <2>1 DEF ExportInv, SlotExported
  <2> QED BY <2>2, <2>3 DEF ExportInv
<1>2. CASE Game
  BY <1>2, GameExports
<1>3. CASE Reset \/ UNCHANGED vars
  <2>1. UNCHANGED <<arm, job, archives, labels, response, snapshot, requestName>>
    BY <1>3 DEF Reset, vars, mailboxVars, ppcLines, armLines, storageVars, workVars, card
  <2>2. ExportWhole'
    BY <2>1, ExportStays
  <2>3. CASE Reset
    <3>1. ppc'.command = "NONE"
      BY <2>3 DEF Reset, FreshProcess, FreshPpc
    <3> QED BY <2>2, <3>1 DEF ExportInv, ExportTold, SlotExported
  <2>4. CASE UNCHANGED vars
    <3>1. UNCHANGED <<ppc, slot>>
      BY <2>4 DEF vars, clientVars
    <3> QED BY <2>1, <2>2, <3>1, ToldStays DEF ExportInv
  <2> QED BY <1>3, <2>3, <2>4
<1>4. CASE PowerLoss
  <2>1. arm'.phase = "IDLE" /\ ppc'.command = "NONE"
    BY <1>4 DEF PowerLoss, StorageRestart, IdleArm, FreshProcess, FreshPpc
  <2> QED BY <2>1, ExportEnds DEF ExportInv, ExportTold, SlotExported
<1> QED BY <1>1, <1>2, <1>3, <1>4 DEF Next

LEMMA ExportEndsTrue ==
  ASSUME StoreInv, ExportInv, [Next]_vars, Finishes("EXPORT"),
         outcome'.result \in {"DONE", "NAME NOT SAVED"}
  PROVE  LET id == outcome'.id
             file == archives[id]
         IN  /\ slot.raw /\ WholeFile(file)
             /\ file.payload = snapshot
             /\ outcome'.result = "DONE" => LatestName(id, file.header).name = requestName
<1>1. ppc.command = "EXPORT" /\ slot.raw
  BY DEF Finishes, ExportInv, SlotExported
<1>2. CompleteExport
  <2>1. ServiceStorage
    BY RequestFinishes DEF Commands
  <2> QED
    BY <1>1, <2>1 DEF ServiceStorage, CompleteKey, CompleteDelete, CompleteCatalog,
                      CompleteImport, CompleteRename, Answered
<1>3. /\ response.ack = ppc.seq
      /\ outcome' = [command |-> ppc.command,
                     id |-> IF Verdict(ResultValid) \in {"DONE", "NAME NOT SAVED"}
                            THEN response.resultId ELSE ppc.id,
                     result |-> Verdict(ResultValid)]
  BY <1>2 DEF CompleteExport, Answered, Tell
<1>4. outcome'.result = Verdict(ResultValid) /\ outcome'.id = response.resultId
  <2>1. outcome'.result = Verdict(ResultValid)
    BY <1>3
  <2> QED BY <1>3, <2>1
<1>5. /\ response.status \in {"OK", "NAME_ERROR"}
      /\ outcome'.result = "DONE" => response.status = "OK"
  BY <1>4 DEF Verdict, NameOnlyFailure
<1>6. OnCard(response.resultId) /\ (outcome'.result = "DONE" => Named(response.resultId))
  BY <1>1, <1>3, <1>5 DEF ExportInv, ExportTold
<1> QED BY <1>1, <1>4, <1>6 DEF OnCard, Named

-----------------------------------------------------------------------------
(* Deletions.                                                              *)

\* A session the worker remembers is an earlier process's until this one has
\* claimed the mailbox.
SessionOrder ==
  /\ arm.session <= ppc.session /\ cat.session <= ppc.session /\ request.session <= ppc.session
  /\ ~ppc.initialized =>
       arm.session < ppc.session /\ cat.session < ppc.session /\ request.session < ppc.session

\* A deletion that was under way, or only queued, when the game was reset stays
\* the earlier process's: it is cancelled, or its page is not this process's.
OldDelete ==
  ppc.startup =>
    /\ request.command = "DELETE" => cat.session # ppc.session
    /\ arm.command = "DELETE" /\ arm.phase \notin {"IDLE", "ACK"} => arm.session # ppc.session

\* A page lists an archive once.
Unique(entries) ==
  \A i, j \in 1 .. Len(entries) : entries[i].id = entries[j].id => i = j

\* The prompt shows an entry of the cached page, and the deletion it becomes
\* carries the proof of that entry to the worker.
PromptTrue ==
  /\ Unique(list.entries)
  /\ prompt.active =>
       /\ ppc.command = "NONE"
       /\ \E i \in 1 .. Len(list.entries) :
            list.entries[i].id = prompt.id /\ list.entries[i].print = prompt.print
  /\ ppc.command = "DELETE" => prompt.id = ppc.id /\ deleteProof.print = prompt.print

ProofLatched ==
  arm.command = "DELETE" /\ arm.phase \notin {"IDLE", "ACK"} => job.print = deleteProof.print

DeleteInv == SessionOrder /\ OldDelete /\ PromptTrue /\ ProofLatched

-----------------------------------------------------------------------------
\* The natural numbers are well ordered: what stands in for an induction here.
LessThan == {ss \in Nat \X Nat : ss[1] < ss[2]}

LEMMA LeastNatural ==
  ASSUME NEW T \in SUBSET Nat, T # {}
  PROVE  \E m \in T : \A n \in T : m <= n
<1>1. IsWellFoundedOn(LessThan, Nat)
  BY NatLessThanWellFounded DEF OpToRel, LessThan
<1>2. PICK m \in T : \A n \in T : <<n, m>> \notin LessThan
  <2>1. T \subseteq Nat
    OBVIOUS
  <2> QED BY <1>1, <2>1, WFMin
<1>3. \A n \in T : ~(n < m)
  BY <1>2 DEF LessThan
<1> QED BY <1>3

\* A page whose neighbours ascend, which is what the game checks, lists an
\* archive once.
LEMMA AscendingIsUnique ==
  ASSUME NEW entries \in Seq(PageEntries),
         \A i \in 2 .. Len(entries) : entries[i].id > entries[i - 1].id
  PROVE  Unique(entries)
<1> DEFINE id(i) == entries[i].id
<1>1. Len(entries) \in Nat /\ \A i \in 1 .. Len(entries) : id(i) \in Nat
  <2>1. \A i \in 1 .. Len(entries) : entries[i] \in PageEntries
    OBVIOUS
  <2> QED BY <2>1, BoundsAssumption DEF PageEntries, Ids
<1>2. ASSUME NEW i \in 1 .. Len(entries), NEW j \in 1 .. Len(entries), i < j
      PROVE  id(i) < id(j)
  <2> DEFINE wrong == {k \in i + 1 .. Len(entries) : ~(id(i) < id(k))}
  <2>1. SUFFICES ASSUME j \in wrong PROVE FALSE
    BY <1>1, <1>2
  <2>2. PICK k \in wrong : \A n \in wrong : k <= n
    <3>1. wrong \in SUBSET Nat
      <4>1. \A k \in i + 1 .. Len(entries) : k \in Nat
        BY <1>1
      <4> QED BY <4>1
    <3> HIDE DEF wrong
    <3> QED BY <2>1, <3>1, LeastNatural
  <2>3. id(k) > id(k - 1) /\ k - 1 \in 1 .. Len(entries)
    BY <1>1
  <2>4. k - 1 = i \/ id(i) < id(k - 1)
    BY <1>1, <2>2
  <2>5. id(i) < id(k)
    <3>1. id(i) \in Nat /\ id(k) \in Nat /\ id(k - 1) \in Nat
      BY <1>1, <2>3
    <3> HIDE DEF id
    <3> QED BY <2>3, <2>4, <3>1
  <2> QED BY <2>5
<1>3. ASSUME NEW i \in 1 .. Len(entries), NEW j \in 1 .. Len(entries), id(i) = id(j)
      PROVE  i = j
  <2>1. id(i) \in Nat /\ id(j) \in Nat
    BY <1>1
  <2>2. i < j => id(i) < id(j)
    BY <1>2
  <2>3. j < i => id(j) < id(i)
    BY <1>2
  <2> HIDE DEF id
  <2> QED BY <1>1, <1>3, <2>1, <2>2, <2>3
<1> QED BY <1>3 DEF Unique

\* A page belongs to the session of the request that listed it, or to none.
LEMMA FinishCat ==
  ASSUME NEW a \in Arms, NEW s, cat \in Cats, Finish(a, s)
  PROVE  cat'.session \in {cat.session, 0} \/ (a.command = "CATALOG" /\ cat'.session = a.session)
<1>1. CASE a.command = "CATALOG" /\ s = "OK"
  <2>1. cat' = [cat EXCEPT !.seq = a.seq, !.session = a.session]
    BY <1>1 DEF Finish
  <2> QED BY <1>1, <2>1 DEF Cats
<1>2. CASE (a.command = "CATALOG" /\ s # "OK") \/ a.command = "DELETE"
  <2>1. cat' = [cat EXCEPT !.seq = 0, !.session = 0]
    BY <1>2 DEF Finish
  <2> QED BY <2>1 DEF Cats
<1>3. CASE a.command \notin {"CATALOG", "DELETE"}
  <2>1. cat' = cat
    BY <1>3 DEF Finish
  <2> QED BY <2>1
<1> QED BY <1>1, <1>2, <1>3

LEMMA CatMoves ==
  ASSUME StoreInv, StorageStep
  PROVE  \/ cat'.session \in {cat.session, 0}
         \/ arm'.command = "CATALOG" /\ cat'.session = arm'.session
<1>1. arm \in Arms /\ cat \in Cats
  BY DEF StoreInv, KeyInv, TypeInv, TypeOK, StorageTypeOK
<1>2. ASSUME NEW a \in Arms, NEW s, Finish(a, s)
      PROVE  \/ cat'.session \in {cat.session, 0}
             \/ arm'.command = "CATALOG" /\ cat'.session = arm'.session
  <2>1. arm'.command = a.command /\ arm'.session = a.session
    BY <1>2, FinishFields
  <2> QED BY <1>1, <1>2, <2>1, FinishCat
<1>3. CASE UNCHANGED cat
  BY <1>3
<1>4. CASE Latch
  <2>1. Latched \in Arms
    BY BoundsAssumption
       DEF StoreInv, KeyInv, TypeInv, TypeOK, MailboxTypeOK, Latched, Requests, Arms,
           ServicePhases, Statuses
  <2>2. (\E s : Finish(Latched, s)) \/ UNCHANGED cat
    BY <1>4 DEF Latch, Continue
  <2> QED BY <1>2, <1>3, <2>1, <2>2
<1>5. CASE OpenCatalog
  <2>1. cat' = [entries |-> <<>>, more |-> FALSE, seq |-> 0, session |-> 0]
        \/ Finish(arm, "IO_ERROR")
    BY <1>5 DEF OpenCatalog
  <2> QED BY <1>1, <1>2, <2>1
<1>6. CASE ScanEntry
  <2>1. UNCHANGED cat \/ \E entries, more : cat' = [cat EXCEPT !.entries = entries, !.more = more]
    BY <1>6 DEF ScanEntry
  <2> QED BY <1>1, <2>1 DEF Cats
<1>7. CASE OpenKey
  <2>1. CASE keyLine'.status \in {"READY", "MISSING"}
    BY <1>1, <1>2, <1>3, <1>7, <2>1 DEF OpenKey, Continue
  <2>2. CASE keyLine'.status \notin {"READY", "MISSING"}
    BY <1>1, <1>2, <1>3, <1>7, <2>2 DEF OpenKey
  <2> QED BY <2>1, <2>2
<1>8. CASE OpenExport
  <2>1. [arm EXCEPT !.fileId = arm.fileId + 1] \in Arms
    <3>1. arm.fileId \in Ids
      BY <1>8 DEF OpenExport, Working, StoreInv, KeyInv, TypeInv, WorkerShape
    <3>2. arm.fileId + 1 \in 0 .. MaxId + 1
      BY <3>1, BoundsAssumption DEF Ids
    <3> QED BY <1>1, <3>2 DEF Arms
  <2> QED BY <1>1, <1>2, <1>3, <1>8, <2>1 DEF OpenExport, Continue
<1>9. CASE DropName1
  <2>1. \E s : Finish(arm, s)
    BY <1>9 DEF DropName1
  <2> QED BY <1>1, <1>2, <2>1
<1>10. CASE \/ PublishAck \/ Cancel \/ WriteKeyCopy0 \/ WriteKeyCopy1 \/ EndScan \/ DeleteArchive
            \/ DropName0 \/ OpenRename \/ RemoveOldName \/ PlaceName \/ OpenImport
            \/ WriteHeader \/ ReadHeader \/ Transfer \/ Close \/ PublishExport \/ PublishImport
  <2>1. UNCHANGED cat \/ \E s : Finish(arm, s)
    BY <1>10 DEF PublishAck, Cancel, WriteKeyCopy0, WriteKeyCopy1, EndScan, DeleteArchive,
                 DropName0, OpenRename, RemoveOldName, PlaceName, OpenImport, WriteHeader,
                 ReadHeader, Transfer, Close, PublishExport, PublishImport, Continue
  <2> QED BY <1>1, <1>2, <1>3, <2>1
<1> QED BY <1>4, <1>5, <1>6, <1>7, <1>8, <1>9, <1>10 DEF StorageStep

\* Only latching a request changes the proof the worker holds.
LEMMA ProofStays ==
  ASSUME StoreInv, StorageStep, ~Latch
  PROVE  job'.print = job.print
<1>1. job \in Jobs
  BY DEF StoreInv, KeyInv, TypeInv, TypeOK, StorageTypeOK
<1>2. UNCHANGED job \/ \E h : job' = [job EXCEPT !.header = h]
  BY DEF StorageStep, PublishAck, Cancel, OpenKey, WriteKeyCopy0, WriteKeyCopy1, OpenCatalog,
         ScanEntry, EndScan, DeleteArchive, DropName0, DropName1, DropName, OpenRename,
         RemoveOldName, PlaceName, OpenExport, OpenImport, WriteHeader, ReadHeader, Transfer,
         Close, PublishExport, PublishImport, workVars
<1> QED BY <1>1, <1>2 DEF Jobs

\* The worker only latches a deletion whose proof is of the page of the session
\* in the request line.
LEMMA WorkerDeletes ==
  ASSUME StoreInv, DeleteInv, Worker
  PROVE  DeleteInv'
<1>1. /\ StorageStep /\ UNCHANGED <<ppc, request, deleteProof, list, prompt>>
      /\ arm \in Arms /\ cat \in Cats /\ request \in Requests /\ ppc \in Ppcs
  BY DEF Worker, StorageNext, clientVars, ppcLines, StoreInv, KeyInv, TypeInv, TypeOK,
         MailboxTypeOK, StorageTypeOK, ClientTypeOK
<1>2. PromptTrue'
  BY <1>1 DEF DeleteInv, PromptTrue, Unique
<1>3. /\ arm.session \in Nat /\ cat.session \in Nat /\ request.session \in Nat
      /\ ppc.session \in Nat /\ ppc.session > 0
  BY <1>1, BoundsAssumption DEF Arms, Cats, Requests, Ppcs, Sessions
<1>4. arm.phase # "IDLE" => arm.command = request.command
  BY DEF StoreInv, ProtocolInv, Protocol, WorkerOwes
<1>5. CASE Latch
  <2>1. Latched \in Arms
    BY BoundsAssumption
       DEF StoreInv, KeyInv, TypeInv, TypeOK, MailboxTypeOK, Latched, Requests, Arms,
           ServicePhases, Statuses
  <2>2. arm'.session = request.session /\ arm'.command = request.command
    BY <1>5, <2>1, FinishFields, ContinueFields DEF Latch, Latched
  <2>3. \/ cat'.session \in {cat.session, 0}
        \/ arm'.command = "CATALOG" /\ cat'.session = arm'.session
    BY <1>1, CatMoves
  <2>4. SessionOrder'
    BY <1>1, <1>3, <2>2, <2>3 DEF DeleteInv, SessionOrder
  <2>5. arm'.phase \notin {"IDLE", "ACK"} => LatchStatus = "OK"
    BY <1>5, <2>1, FinishFields DEF Latch
  <2>6. request.command = "DELETE" /\ LatchStatus = "OK" => ProofCurrent /\ WellFormed
    BY DEF LatchStatus
  <2>7. OldDelete'
    BY <1>1, <1>3, <2>2, <2>3, <2>5, <2>6 DEF DeleteInv, OldDelete, ProofCurrent
  <2>8. ProofLatched'
    <3>1. SUFFICES ASSUME request.command = "DELETE", ProofCurrent, WellFormed
                   PROVE  job'.print = deleteProof.print
      BY <1>1, <2>2, <2>5, <2>6 DEF ProofLatched
    <3> QED BY <1>5, <3>1 DEF Latch, LatchedJob
  <2> QED BY <1>2, <2>4, <2>7, <2>8 DEF DeleteInv
<1>6. CASE ~Latch
  <2>1. arm'.session = arm.session /\ arm'.command = arm.command
    <3>1. PublishAck \/ Serve
      BY <1>1, <1>6, WorkerServes DEF StoreInv, ProtocolInv
    <3> QED BY <1>1, <3>1 DEF PublishAck, Serve, SameRequest, Arms
  <2>2. arm'.phase \notin {"IDLE", "ACK"} => arm.phase \notin {"IDLE", "ACK"}
    <3>1. PublishAck \/ Serve
      BY <1>1, <1>6, WorkerServes DEF StoreInv, ProtocolInv
    <3> QED BY <1>1, <3>1 DEF PublishAck, Serve, Arms
  <2>3. \/ cat'.session \in {cat.session, 0}
        \/ arm.command = "CATALOG" /\ cat'.session = arm.session /\ request.command = "CATALOG"
    <3>1. arm.phase # "IDLE"
      <4>1. PublishAck \/ Serve
        BY <1>1, <1>6, WorkerServes DEF StoreInv, ProtocolInv
      <4> QED BY <4>1 DEF PublishAck, Serve
    <3> QED BY <1>1, <1>4, <2>1, <3>1, CatMoves
  <2>4. SessionOrder'
    BY <1>1, <1>3, <2>1, <2>3 DEF DeleteInv, SessionOrder
  <2>5. OldDelete'
    BY <1>1, <1>3, <2>1, <2>2, <2>3 DEF DeleteInv, OldDelete
  <2>6. ProofLatched'
    BY <1>1, <1>6, <2>1, <2>2, ProofStays DEF DeleteInv, ProofLatched
  <2> QED BY <1>2, <2>4, <2>5, <2>6 DEF DeleteInv
<1> QED BY <1>5, <1>6

\* Claiming the mailbox puts the new session in the request line; nothing else
\* the game does changes whose request it is.
LEMMA GameSessions ==
  ASSUME StoreInv, DeleteInv, Game
  PROVE  SessionOrder' /\ OldDelete' /\ ProofLatched'
<1>1. /\ ClientNext /\ UNCHANGED <<arm, cat, job>>
      /\ arm \in Arms /\ cat \in Cats /\ request \in Requests /\ ppc \in Ppcs
  BY DEF Game, storageVars, workVars, StoreInv, KeyInv, TypeInv, TypeOK, MailboxTypeOK,
         StorageTypeOK, ClientTypeOK
<1>2. /\ arm.session \in Nat /\ cat.session \in Nat /\ request.session \in Nat
      /\ ppc.session \in Nat
  BY <1>1, BoundsAssumption DEF Arms, Cats, Requests, Ppcs, Sessions
<1>3. ProofLatched'
  <2>1. SUFFICES ASSUME arm.phase # "IDLE" PROVE UNCHANGED deleteProof
    BY <1>1 DEF DeleteInv, ProofLatched
  <2>2. Unanswered
    BY <2>1 DEF StoreInv, ProtocolInv, Protocol, WorkerOwes, Unanswered
  <2> QED BY <1>1, <2>2, GameWaits
<1>4. Claim \/ Issues \/ Rests \/ UNCHANGED <<ppc, request>>
  BY <1>1, GameMoves DEF StoreInv, ProtocolInv
<1>5. CASE Claim
  <2>1. /\ request'.session = ppc.session /\ request'.command = request.command
        /\ ppc'.session = ppc.session /\ ppc'.initialized /\ ~ppc.initialized
    BY <1>1, <1>5 DEF Claim, Requests, Ppcs
  <2> QED BY <1>1, <1>2, <1>3, <2>1 DEF DeleteInv, SessionOrder, OldDelete
<1>6. CASE Issues
  <2>1. PICK p, command, id : InService(p) /\ Issue(p, command, id)
    BY <1>6 DEF Issues
  <2>2. /\ ~ppc'.startup /\ ppc'.session = ppc.session /\ ppc'.initialized = ppc.initialized
        /\ request'.session = request.session
    BY <1>1, <2>1 DEF Issue, InService, Ppcs, Requests
  <2> QED BY <1>1, <1>3, <2>2 DEF DeleteInv, SessionOrder, OldDelete
<1>7. CASE Rests
  BY <1>1, <1>3, <1>7 DEF Rests, InService, DeleteInv, SessionOrder, OldDelete
<1>8. CASE UNCHANGED <<ppc, request>>
  BY <1>1, <1>3, <1>8 DEF DeleteInv, SessionOrder, OldDelete
<1> QED BY <1>4, <1>5, <1>6, <1>7, <1>8

\* The page changes only while no prompt is open, and stays without repetition.
LEMMA AnswerLists ==
  ASSUME StoreInv, Unique(list.entries), ServiceStorage
  PROVE  Unique(list'.entries)
<1>1. list \in Lists /\ page \in Pages
  BY DEF StoreInv, KeyInv, TypeInv, TypeOK, MailboxTypeOK, ClientTypeOK
<1>2. CASE UNCHANGED list
  BY <1>2
<1>3. CASE CompleteDelete
  <2>1. list'.entries = <<>>
    BY <1>1, <1>3 DEF CompleteDelete, Lists
  <2> QED BY <2>1 DEF Unique
<1>4. CASE CompleteCatalog /\ Verdict(PageValid) = "DONE"
  <2>1. list'.entries = page.entries
    BY <1>4 DEF CompleteCatalog
  <2>2. page.entries \in Seq(PageEntries)
    BY <1>1 DEF Pages
  <2>3. PageValid
    BY <1>4 DEF Verdict
  <2>4. \A i \in 2 .. Len(page.entries) : page.entries[i].id > page.entries[i - 1].id
    BY <2>2, <2>3 DEF PageValid
  <2> QED BY <2>1, <2>2, <2>4, AscendingIsUnique
<1>5. CASE CompleteRename /\ Verdict(ResultValid) = "DONE"
  <2>1. PICK entries \in Seq(PageEntries) : entries = list.entries
    BY <1>1 DEF Lists
  <2> DEFINE renamed == [i \in 1 .. Len(entries) |->
                          IF entries[i].id = ppc.id THEN [entries[i] EXCEPT !.name = requestName]
                          ELSE entries[i]]
  <2>2. list'.entries = renamed
    BY <1>1, <1>5, <2>1 DEF CompleteRename, Lists
  <2>3. Len(renamed) = Len(entries)
    OBVIOUS
  <2>4. \A i \in 1 .. Len(entries) : renamed[i].id = entries[i].id
    <3>1. \A i \in 1 .. Len(entries) : entries[i] \in PageEntries
      OBVIOUS
    <3> QED BY <3>1 DEF PageEntries
  <2> HIDE DEF renamed
  <2> QED BY <2>1, <2>2, <2>3, <2>4 DEF Unique
<1>6. CASE \/ CompleteKey \/ CompleteExport \/ CompleteImport
           \/ CompleteCatalog /\ Verdict(PageValid) # "DONE"
           \/ CompleteRename /\ Verdict(ResultValid) # "DONE"
  <2>1. UNCHANGED list
    BY <1>6 DEF CompleteKey, CompleteExport, CompleteImport, CompleteCatalog, CompleteRename
  <2> QED BY <1>2, <2>1
<1> QED BY <1>3, <1>4, <1>5, <1>6 DEF ServiceStorage

\* What the player confirms is what the prompt showed.
LEMMA GamePrompts ==
  ASSUME StoreInv, PromptTrue, ClientNext
  PROVE  PromptTrue'
<1>1. /\ ppc \in Ppcs /\ list \in Lists /\ prompt \in Prompts /\ deleteProof \in Proofs
      /\ request \in Requests
  BY DEF StoreInv, KeyInv, TypeInv, TypeOK, MailboxTypeOK, ClientTypeOK
<1>2. /\ prompt.active => ppc.slotInit
      /\ ~ppc.slotInit => ppc.command = "NONE"
      /\ ppc.slotInit => ppc.initialized
  BY DEF StoreInv, ProtocolInv, Protocol, StartupOrder
<1>3. \A c, i : Issue(ppc, c, i) => ppc'.command = c /\ ppc'.id = i
  BY <1>1 DEF Issue, Ppcs
<1>4. CASE InitializeStorage \/ InitializeSlot
  <2>1. ~prompt.active /\ ppc.command = "NONE" /\ UNCHANGED <<list, prompt>>
    BY <1>2, <1>4 DEF InitializeStorage, InitializeSlot
  <2>2. ppc'.command \in {"NONE", "KEY"}
    <3>1. CASE InitializeStorage
      BY <1>1, <2>1, <3>1 DEF InitializeStorage, Ppcs
    <3>2. CASE InitializeSlot
      <4> DEFINE q == [ppc EXCEPT !.startup = FALSE, !.slotInit = TRUE]
      <4>1. q \in Ppcs /\ q.command = "NONE"
        BY <1>1, <2>1 DEF Ppcs
      <4>2. ppc' = q \/ Issue(q, "KEY", 0)
        BY <3>2 DEF InitializeSlot
      <4> HIDE DEF q
      <4> QED BY <4>1, <4>2 DEF Issue, Ppcs
    <3> QED BY <1>4, <3>1, <3>2
  <2> QED BY <2>1, <2>2 DEF PromptTrue, Unique
<1>5. CASE RequestMenu("Save") \/ RequestMenu("Load") \/ ServiceMenu \/ ClearSelectedSlot
  <2>1. UNCHANGED <<list, prompt, deleteProof>>
    BY <1>5 DEF RequestMenu, ServiceMenu, ClearSelectedSlot, ppcLines
  <2>2. ppc'.command = ppc.command /\ ppc'.id = ppc.id
    BY <1>1, <1>5 DEF RequestMenu, ServiceMenu, ClearSelectedSlot, SaveState, NoSave, Ppcs
  <2> QED BY <2>1, <2>2 DEF PromptTrue, Unique
<1>6. CASE RequestExport \/ RequestImport \/ RequestRename
  <2>1. ~prompt.active /\ UNCHANGED <<list, prompt>>
    BY <1>6 DEF RequestExport, RequestImport, RequestRename, CanBegin, MenuFree
  <2>2. ppc'.command \in {"EXPORT", "IMPORT", "RENAME"}
    BY <1>3, <1>6 DEF RequestExport, RequestImport, RequestRename
  <2> QED BY <2>1, <2>2 DEF PromptTrue, Unique
<1>7. CASE RequestCatalog
  <2>1. ~prompt.active /\ UNCHANGED prompt
    BY <1>7 DEF RequestCatalog, CanBegin, MenuFree
  <2>2. ppc'.command = "CATALOG"
    BY <1>3, <1>7 DEF RequestCatalog
  <2>3. list'.entries = <<>>
    BY <1>7 DEF RequestCatalog, NoList
  <2> QED BY <2>1, <2>2, <2>3 DEF PromptTrue, Unique
<1>8. CASE OpenDeletePrompt
  <2>1. ppc.command = "NONE" /\ UNCHANGED <<ppc, list>>
    BY <1>8 DEF OpenDeletePrompt, CanBegin, MenuFree, StorageInFlight
  <2>2. PICK i \in 1 .. Len(list.entries) :
          prompt' = [active |-> TRUE, id |-> list.entries[i].id, token |-> list.seq,
                     print |-> list.entries[i].print]
    BY <1>8 DEF OpenDeletePrompt
  <2>3. list.entries[i].id = prompt'.id /\ list.entries[i].print = prompt'.print
    BY <2>2
  <2> QED BY <2>1, <2>3 DEF PromptTrue, Unique
<1>9. CASE CancelPrompt
  <2>1. ~prompt'.active /\ prompt'.id = prompt.id /\ prompt'.print = prompt.print
    BY <1>1, <1>9 DEF CancelPrompt, Prompts
  <2>2. UNCHANGED <<ppc, list, deleteProof>>
    BY <1>9 DEF CancelPrompt, ppcLines
  <2> QED BY <2>1, <2>2 DEF PromptTrue, Unique
<1>10. CASE ConfirmDelete
  <2>1. ~prompt'.active /\ prompt'.id = prompt.id /\ prompt'.print = prompt.print
    BY <1>1, <1>10 DEF ConfirmDelete, Prompts
  <2>2. PICK i \in 1 .. Len(list.entries) :
          /\ list.entries[i].id = prompt.id
          /\ deleteProof' = [seq |-> prompt.token, print |-> list.entries[i].print]
    BY <1>10 DEF ConfirmDelete
  <2>3. PICK j \in 1 .. Len(list.entries) :
          list.entries[j].id = prompt.id /\ list.entries[j].print = prompt.print
    BY <1>10 DEF ConfirmDelete, PromptTrue
  <2>4. i = j
    BY <2>2, <2>3 DEF PromptTrue, Unique
  <2>5. deleteProof'.print = prompt.print
    BY <2>2, <2>3, <2>4
  <2>6. ppc'.command = "DELETE" /\ ppc'.id = prompt.id /\ UNCHANGED list
    BY <1>3, <1>10 DEF ConfirmDelete
  <2> QED BY <2>1, <2>5, <2>6 DEF PromptTrue, Unique
<1>11. CASE ServiceStorage
  <2>1. ppc.command # "NONE"
    BY <1>11 DEF ServiceStorage, CompleteKey, CompleteDelete, CompleteCatalog, CompleteExport,
                 CompleteRename, CompleteImport, Answered
  <2>2. ppc'.command = "NONE"
    <3>1. ASSUME UNCHANGED ppc PROVE FALSE
      <4>1. Idle(ppc).command = "NONE" /\ \A result : Finished(result).command = "NONE"
        BY <1>1 DEF Idle, Finished, Ppcs
      <4>2. \A result, gen : [Finished(result) EXCEPT !.gen = gen].command = "NONE"
        BY <1>1 DEF Idle, Finished, Ppcs
      <4> QED
        BY <1>11, <2>1, <3>1, <4>1, <4>2
           DEF ServiceStorage, CompleteKey, CompleteDelete, CompleteCatalog, CompleteExport,
               CompleteRename, CompleteImport
    <3> QED BY <2>1, <3>1, GameReads
  <2>3. ~prompt.active /\ UNCHANGED prompt
    BY <1>11, <2>1 DEF PromptTrue, ServiceStorage, CompleteKey, CompleteDelete, CompleteCatalog,
                       CompleteExport, CompleteRename, CompleteImport
  <2>4. Unique(list.entries)'
    <3>1. Unique(list'.entries)
      BY <1>11, AnswerLists DEF PromptTrue
    <3> QED BY <3>1 DEF Unique
  <2> QED BY <2>2, <2>3, <2>4 DEF PromptTrue
<1> QED
  BY <1>4, <1>5, <1>6, <1>7, <1>8, <1>9, <1>10, <1>11 DEF ClientNext, Tick, Player

\* A reset makes every session the worker knows an earlier one's.
LEMMA DeleteStep ==
  ASSUME StoreInv, DeleteInv, [Next]_vars
  PROVE  DeleteInv'
<1>1. CASE Worker
  BY <1>1, WorkerDeletes
<1>2. CASE Game
  BY <1>2, GameSessions, GamePrompts DEF Game, DeleteInv
<1>3. CASE Reset \/ PowerLoss
  <2>1. /\ ppc.session \in Nat /\ arm.session \in Nat /\ cat.session \in Nat
        /\ request.session \in Nat
    BY BoundsAssumption
       DEF StoreInv, KeyInv, TypeInv, TypeOK, MailboxTypeOK, StorageTypeOK, ClientTypeOK,
           Arms, Cats, Requests, Ppcs, Sessions
  <2>2. /\ ppc'.session = ppc.session + 1 /\ ~ppc'.startup /\ ppc'.command = "NONE"
        /\ list'.entries = <<>> /\ ~prompt'.active
    BY <1>3 DEF Reset, PowerLoss, FreshProcess, FreshPpc, NoList, NoPrompt
  <2>3. PromptTrue' /\ OldDelete'
    BY <2>2 DEF PromptTrue, OldDelete, Unique
  <2>4. CASE Reset
    <3>1. UNCHANGED <<arm, cat, job, request, deleteProof>>
      BY <2>4 DEF Reset, mailboxVars, ppcLines, storageVars, workVars
    <3> QED BY <2>1, <2>2, <2>3, <3>1 DEF DeleteInv, SessionOrder, ProofLatched
  <2>5. CASE PowerLoss
    <3>1. arm'.session = 0 /\ cat'.session = 0 /\ request'.session = 0 /\ arm'.phase = "IDLE"
      BY <2>5 DEF PowerLoss, StorageRestart, IdleArm, NoCat, NoRequest
    <3> QED BY <2>1, <2>2, <2>3, <3>1 DEF DeleteInv, SessionOrder, ProofLatched
  <2> QED BY <1>3, <2>4, <2>5
<1>4. CASE UNCHANGED vars
  <2>1. UNCHANGED <<arm, cat, job, request, deleteProof, ppc, list, prompt>>
    BY <1>4 DEF vars, mailboxVars, ppcLines, storageVars, workVars, clientVars
  <2> QED BY <2>1 DEF DeleteInv, SessionOrder, OldDelete, PromptTrue, ProofLatched, Unique
<1> QED BY <1>1, <1>2, <1>3, <1>4 DEF Next

LEMMA DeletesOnlyThat ==
  ASSUME StoreInv, Errand, DeleteInv, [Next]_vars, NEW id \in Ids, Exists(id), ~Exists(id)',
         ppc.initialized
  PROVE  /\ ppc.command = "DELETE" /\ ppc.id = id /\ prompt.id = id
         /\ PrintOf(archives[id]) = prompt.print
<1>1. archives' # archives /\ archives \in [Ids -> Files]
  BY DEF Exists, StoreInv, KeyInv, TypeInv, TypeOK, StorageTypeOK
<1>2. StorageStep
  BY <1>1 DEF Next, Worker, StorageNext, Game, Reset, PowerLoss, StorageRestart, vars,
              storageVars, card
<1>3. DeleteArchive \/ PublishExport
  BY <1>1, <1>2, OthersImplement
     DEF RemoveOldName, PlaceName, DropName0, DropName1, DropName, WriteKeyCopy0, WriteKeyCopy1
<1>4. ~PublishExport
  <2>1. SUFFICES ASSUME PublishExport PROVE FALSE
    OBVIOUS
  <2>2. PICK file : /\ file = [header |-> job.header, complete |-> TRUE, payload |-> draft]
                    /\ archives' = [archives EXCEPT ![arm.fileId] = file]
    BY <1>1, <2>1 DEF PublishExport
  <2>3. file # NoFile
    BY <2>2 DEF NoFile
  <2> QED BY <1>1, <2>2, <2>3 DEF Exists
<1>5. /\ Working("OPEN", {"DELETE"}) /\ DeleteStatus = "OK"
      /\ archives' = [archives EXCEPT ![arm.fileId] = NoFile]
  BY <1>1, <1>3, <1>4 DEF DeleteArchive
<1>6. id = arm.fileId /\ PrintOf(archives[id]) = job.print
  <2>1. id = arm.fileId
    BY <1>1, <1>5 DEF Exists
  <2> QED BY <1>5, <2>1 DEF DeleteStatus
<1>7. /\ arm.phase = "OPEN" /\ arm.command = "DELETE" /\ arm.fileId = arm.requestId
      /\ request.session = arm.session /\ request.session = ppc.session
      /\ response.ack # request.seq /\ arm.command = request.command /\ arm.requestId = request.id
  BY <1>5 DEF Working, Superseded, Errand, StoreInv, ProtocolInv, Protocol, StartupOrder, WorkerOwes
<1>8. ppc.command # "NONE"
  <2>1. ~ppc.startup
    BY <1>7 DEF DeleteInv, OldDelete
  <2>2. ppc.seq = request.seq
    BY DEF StoreInv, ProtocolInv, Protocol, StartupOrder
  <2> QED BY <1>7, <2>1, <2>2 DEF StoreInv, ProtocolInv, Protocol, StartupOrder
<1>9. ppc.command = "DELETE" /\ ppc.id = id
  BY <1>6, <1>7, <1>8 DEF StoreInv, ProtocolInv, Protocol, RequestOutstanding
<1>10. prompt.id = id /\ job.print = prompt.print
  BY <1>7, <1>9 DEF DeleteInv, PromptTrue, ProofLatched
<1> QED BY <1>6, <1>9, <1>10

-----------------------------------------------------------------------------
(* Pages.                                                                  *)

PageIds(entries) == {entries[i].id : i \in 1 .. Len(entries)}
Ascending(entries) == \A i, j \in 1 .. Len(entries) : i < j => entries[i].id < entries[j].id

\* The entry goes where as many smaller ones are before it.
LEMMA PlaceOfEntry ==
  ASSUME NEW entries \in Seq(PageEntries), Ascending(entries), NEW entry \in PageEntries,
         entry.id \notin PageIds(entries)
  PROVE  LET pos == Cardinality({i \in 1 .. Len(entries) : entries[i].id < entry.id})
         IN  /\ pos \in 0 .. Len(entries)
             /\ \A i \in 1 .. Len(entries) :
                  IF i <= pos THEN entries[i].id < entry.id ELSE entry.id < entries[i].id
<1> DEFINE id(i) == entries[i].id
           n == Len(entries)
           smaller == {i \in 1 .. n : id(i) < entry.id}
           others == {i \in 1 .. n + 1 : i \notin smaller}
<1>1. /\ n \in Nat /\ entry.id \in Nat
      /\ \A i \in 1 .. n : id(i) \in Nat /\ id(i) # entry.id
      /\ \A i, j \in 1 .. n : i < j => id(i) < id(j)
  <2>1. \A i \in 1 .. n : entries[i] \in PageEntries
    OBVIOUS
  <2> QED BY <2>1, BoundsAssumption DEF PageEntries, Ids, PageIds, Ascending
<1>2. PICK m \in others : \A k \in others : m <= k
  <2>1. n + 1 \in others /\ others \in SUBSET Nat
    BY <1>1
  <2> HIDE DEF others
  <2> QED BY <2>1, LeastNatural
<1>3. m \in 1 .. n + 1 /\ \A i \in 1 .. n : i < m <=> i \in smaller
  <2>1. m \in 1 .. n + 1
    OBVIOUS
  <2>2. ASSUME NEW i \in 1 .. n, i < m PROVE i \in smaller
    BY <1>1, <1>2, <2>2
  <2>3. ASSUME NEW i \in 1 .. n, ~(i < m) PROVE i \notin smaller
    <3>1. m \in 1 .. n /\ ~(id(m) < entry.id) /\ (m = i \/ m < i)
      BY <1>1, <2>1, <2>3
    <3>2. id(m) \in Nat /\ id(i) \in Nat /\ (m < i => id(m) < id(i))
      BY <1>1, <3>1
    <3> HIDE DEF id
    <3> QED BY <1>1, <3>1, <3>2
  <2> QED BY <2>1, <2>2, <2>3
<1>4. smaller = 1 .. m - 1
  BY <1>1, <1>3
<1>5. Cardinality(smaller) = m - 1
  <2>1. m - 1 \in Int /\ Cardinality(1 .. m - 1) = IF 1 > m - 1 THEN 0 ELSE m - 1 - 1 + 1
    BY <1>1, <1>3, FS_Interval
  <2> HIDE DEF smaller
  <2>2. Cardinality(smaller) = Cardinality(1 .. m - 1)
    BY <1>4
  <2>3. (IF 1 > m - 1 THEN 0 ELSE m - 1 - 1 + 1) = m - 1
    BY <1>1, <1>3
  <2> QED BY <2>1, <2>2, <2>3
<1>6. \A i \in 1 .. n : IF i <= m - 1 THEN id(i) < entry.id ELSE entry.id < id(i)
  <2> TAKE i \in 1 .. n
  <2>1. i <= m - 1 <=> id(i) < entry.id
    BY <1>1, <1>3
  <2>2. id(i) \in Nat /\ id(i) # entry.id
    BY <1>1
  <2> HIDE DEF id
  <2> QED BY <1>1, <2>1, <2>2
<1> QED
  <2> HIDE DEF id
  <2>1. m - 1 \in 0 .. n
    BY <1>1, <1>3
  <2> QED BY <1>5, <1>6, <2>1 DEF id

\* The entries with one more in its place.
LEMMA Placed ==
  ASSUME NEW entries \in Seq(PageEntries), NEW entry \in PageEntries, NEW pos \in 0 .. Len(entries)
  PROVE  LET all == SubSeq(entries, 1, pos) \o <<entry>> \o SubSeq(entries, pos + 1, Len(entries))
         IN  /\ all \in Seq(PageEntries) /\ Len(all) = Len(entries) + 1
             /\ \A i \in 1 .. pos : all[i] = entries[i]
             /\ all[pos + 1] = entry
             /\ \A i \in pos + 2 .. Len(entries) + 1 : all[i] = entries[i - 1]
<1> DEFINE n == Len(entries)
           front == SubSeq(entries, 1, pos)
           back == SubSeq(entries, pos + 1, n)
<1>1. n \in Nat /\ pos \in Nat /\ pos <= n /\ \A i \in 1 .. n : entries[i] \in PageEntries
  BY LenProperties
<1>2. /\ front \in Seq(PageEntries) /\ Len(front) = pos
      /\ \A i \in 1 .. pos : front[i] = entries[i]
  BY <1>1, SubSeqProperties
<1>3. /\ back \in Seq(PageEntries) /\ Len(back) = n - pos
      /\ \A i \in 1 .. n - pos : back[i] = entries[pos + i]
  BY <1>1, SubSeqProperties
<1>4. PICK f \in Seq(PageEntries), b \in Seq(PageEntries) : f = front /\ b = back
  BY <1>2, <1>3
<1> DEFINE start == f \o <<entry>>
           all == start \o b
<1>5. /\ start \in Seq(PageEntries) /\ Len(start) = pos + 1 /\ start[pos + 1] = entry
      /\ \A i \in 1 .. pos : start[i] = f[i]
  BY <1>1, <1>2, <1>4
<1>6. /\ all \in Seq(PageEntries) /\ Len(all) = n + 1
      /\ \A i \in 1 .. n + 1 : all[i] = IF i <= pos + 1 THEN start[i] ELSE b[i - (pos + 1)]
  <2>1. /\ start \o b \in Seq(PageEntries) /\ Len(start \o b) = Len(start) + Len(b)
        /\ \A i \in 1 .. Len(start) + Len(b) :
             (start \o b)[i] = IF i <= Len(start) THEN start[i] ELSE b[i - Len(start)]
    <3> HIDE DEF start
    <3> QED BY <1>4, <1>5, ConcatProperties
  <2> HIDE DEF start
  <2>2. Len(start) = pos + 1 /\ Len(b) = n - pos
    BY <1>3, <1>4, <1>5
  <2>3. Len(start) + Len(b) = n + 1
    <3> HIDE DEF n
    <3> QED BY <1>1, <2>2
  <2> QED BY <2>1, <2>2, <2>3
<1>7. \A i \in 1 .. pos : all[i] = entries[i]
  <2> HIDE DEF all, start
  <2> QED BY <1>1, <1>2, <1>4, <1>5, <1>6
<1>8. all[pos + 1] = entry
  <2> HIDE DEF all, start
  <2> QED BY <1>1, <1>5, <1>6
<1>9. \A i \in pos + 2 .. n + 1 : all[i] = entries[i - 1]
  <2> HIDE DEF all, start
  <2> TAKE i \in pos + 2 .. n + 1
  <2>1. i - (pos + 1) \in 1 .. n - pos /\ pos + (i - (pos + 1)) = i - 1
    BY <1>1
  <2>2. all[i] = b[i - (pos + 1)] /\ ~(i <= pos + 1)
    BY <1>1, <1>6
  <2> QED BY <1>3, <1>4, <2>1, <2>2
<1> HIDE DEF n, front, back
<1> QED BY <1>4, <1>6, <1>7, <1>8, <1>9 DEF n, front, back

\* Inserting keeps a page in order, and a full page gives up its largest entry.
LEMMA InsertedFacts ==
  ASSUME NEW entries \in Seq(PageEntries), Ascending(entries), Len(entries) <= Capacity,
         NEW entry \in PageEntries, entry.id \notin PageIds(entries)
  PROVE  LET new == Inserted(entries, entry)
             ids == PageIds(entries) \cup {entry.id}
         IN  /\ Ascending(new)
             /\ Len(new) = IF Len(entries) = Capacity THEN Capacity ELSE Len(entries) + 1
             /\ \A i \in 1 .. Len(new) : new[i] = entry \/ \E j \in 1 .. Len(entries) : new[i] = entries[j]
             /\ Len(entries) # Capacity => PageIds(new) = ids
             /\ Len(entries) = Capacity =>
                  \E last \in ids : /\ PageIds(new) = ids \ {last}
                                    /\ \A id \in PageIds(new) : id < last
<1> DEFINE n == Len(entries)
           pos == Cardinality({i \in 1 .. Len(entries) : entries[i].id < entry.id})
           all == SubSeq(entries, 1, pos) \o <<entry>> \o SubSeq(entries, pos + 1, Len(entries))
           m == IF n + 1 > Capacity THEN Capacity ELSE n + 1
           new == Inserted(entries, entry)
           ids == PageIds(entries) \cup {entry.id}
<1>1. /\ n \in Nat /\ Capacity \in Nat /\ 1 <= Capacity /\ entry.id \in Nat
      /\ \A i \in 1 .. n : entries[i].id \in Nat
  <2>1. \A i \in 1 .. n : entries[i] \in PageEntries
    OBVIOUS
  <2> QED BY <2>1, BoundsAssumption DEF PageEntries, Ids
<1>2. /\ pos \in 0 .. n
      /\ \A i \in 1 .. n : IF i <= pos THEN entries[i].id < entry.id ELSE entry.id < entries[i].id
  BY PlaceOfEntry
<1>3. /\ all \in Seq(PageEntries) /\ Len(all) = n + 1
      /\ \A i \in 1 .. pos : all[i] = entries[i]
      /\ all[pos + 1] = entry
      /\ \A i \in pos + 2 .. n + 1 : all[i] = entries[i - 1]
  <2> HIDE DEF pos
  <2> QED BY <1>2, Placed
<1>4. new = SubSeq(all, 1, m)
  <2>1. new = SubSeq(all, 1, IF Len(all) > Capacity THEN Capacity ELSE Len(all))
    BY DEF Inserted
  <2> HIDE DEF all, new
  <2> QED BY <1>3, <2>1
<1>5. m \in Nat /\ m <= n + 1 /\ Len(new) = m /\ \A i \in 1 .. m : new[i] = all[i]
  <2>1. m \in 1 .. n + 1
    BY <1>1
  <2>2. \A i \in 1 .. m : all[i] \in PageEntries
    <3> HIDE DEF all, m
    <3> QED BY <1>3, <2>1
  <2>3. Len(SubSeq(all, 1, m)) = m /\ \A i \in 1 .. m : SubSeq(all, 1, m)[i] = all[i]
    <3> HIDE DEF all, m
    <3> QED BY <2>1, <2>2, SubSeqProperties
  <2> HIDE DEF all, m, new
  <2> QED BY <1>1, <1>4, <2>1, <2>3
<1> HIDE DEF pos, all, new
<1>6. \A i, j \in 1 .. n + 1 : i < j => all[i].id < all[j].id
  <2> SUFFICES ASSUME NEW i \in 1 .. n + 1, NEW j \in 1 .. n + 1, i < j
               PROVE  all[i].id < all[j].id
    OBVIOUS
  <2>1. CASE j <= pos
    <3>1. i \in 1 .. pos /\ j \in 1 .. pos /\ i \in 1 .. n /\ j \in 1 .. n
      BY <1>1, <1>2, <2>1
    <3>2. all[i] = entries[i] /\ all[j] = entries[j]
      BY <1>3, <3>1
    <3> QED BY <3>1, <3>2 DEF Ascending
  <2>2. CASE j = pos + 1
    <3>1. i \in 1 .. pos /\ i \in 1 .. n
      BY <1>1, <1>2, <2>2
    <3>2. all[i] = entries[i] /\ all[j] = entry /\ entries[i].id < entry.id
      BY <1>2, <1>3, <2>2, <3>1
    <3> QED BY <3>2
  <2>3. CASE j > pos + 1 /\ i <= pos
    <3>1. /\ i \in 1 .. pos /\ j \in pos + 2 .. n + 1
          /\ i \in 1 .. n /\ j - 1 \in 1 .. n /\ i < j - 1
      BY <1>1, <1>2, <2>3
    <3>2. all[i] = entries[i] /\ all[j] = entries[j - 1]
      BY <1>3, <3>1
    <3> QED BY <3>1, <3>2 DEF Ascending
  <2>4. CASE j > pos + 1 /\ i = pos + 1
    <3>1. all[i] = entry /\ all[j] = entries[j - 1] /\ j - 1 \in 1 .. n /\ ~(j - 1 <= pos)
      BY <1>1, <1>2, <1>3, <2>4
    <3> QED BY <1>2, <3>1
  <2>5. CASE j > pos + 1 /\ i > pos + 1
    <3>1. /\ all[i] = entries[i - 1] /\ all[j] = entries[j - 1]
          /\ i - 1 \in 1 .. n /\ j - 1 \in 1 .. n /\ i - 1 < j - 1
      BY <1>1, <1>2, <1>3, <2>5
    <3> QED BY <3>1 DEF Ascending
  <2> QED BY <1>1, <1>2, <2>1, <2>2, <2>3, <2>4, <2>5
<1>7. Ascending(new)
  BY <1>1, <1>5, <1>6 DEF Ascending
<1>8. \A i \in 1 .. n + 1 : all[i] = entry \/ \E j \in 1 .. n : all[i] = entries[j]
  <2> TAKE i \in 1 .. n + 1
  <2>1. i \in 1 .. pos \/ i = pos + 1 \/ (i \in pos + 2 .. n + 1 /\ i - 1 \in 1 .. n)
    BY <1>1, <1>2
  <2> QED BY <1>1, <1>2, <1>3, <2>1
<1>9. {all[i].id : i \in 1 .. n + 1} = ids
  <2>1. \A i \in 1 .. n + 1 : all[i].id \in ids
    BY <1>8 DEF PageIds
  <2>2. \A j \in 1 .. n : \E i \in 1 .. n + 1 : all[i] = entries[j]
    <3> TAKE j \in 1 .. n
    <3>1. CASE j <= pos
      BY <1>1, <1>2, <1>3, <3>1
    <3>2. CASE j > pos
      <4>1. j + 1 \in pos + 2 .. n + 1 /\ j + 1 \in 1 .. n + 1 /\ (j + 1) - 1 = j
        BY <1>1, <1>2, <3>2
      <4> QED BY <1>3, <4>1
    <3> QED BY <1>1, <1>2, <3>1, <3>2
  <2>3. pos + 1 \in 1 .. n + 1 /\ all[pos + 1].id = entry.id
    BY <1>1, <1>2, <1>3
  <2>4. \A id \in ids : \E i \in 1 .. n + 1 : all[i].id = id
    BY <2>2, <2>3 DEF PageIds
  <2> HIDE DEF ids
  <2> QED BY <2>1, <2>4
<1>10. CASE n # Capacity
  <2>1. m = n + 1
    BY <1>1, <1>10
  <2>2. PageIds(new) = {all[i].id : i \in 1 .. n + 1}
    BY <1>5, <2>1 DEF PageIds
  <2> QED BY <1>5, <1>7, <1>8, <1>9, <1>10, <2>1, <2>2 DEF new
<1>11. CASE n = Capacity
  <2>1. m = n /\ n + 1 \in 1 .. n + 1 /\ 1 .. n + 1 = (1 .. n) \cup {n + 1}
    BY <1>1, <1>11
  <2>2. PageIds(new) = {all[i].id : i \in 1 .. n}
    BY <1>5, <2>1 DEF PageIds
  <2>3. ids = PageIds(new) \cup {all[n + 1].id}
    BY <1>9, <2>1, <2>2
  <2>4. \A id \in PageIds(new) : id < all[n + 1].id /\ id # all[n + 1].id
    <3>1. \A i \in 1 .. n : all[i].id < all[n + 1].id /\ all[i].id \in Nat /\ all[n + 1].id \in Nat
      <4>1. \A i \in 1 .. n + 1 : all[i].id \in Nat
        BY <1>1, <1>8
      <4> QED BY <1>1, <1>6, <2>1, <4>1
    <3>2. \A i \in 1 .. n : all[i].id # all[n + 1].id
      BY <3>1
    <3> QED BY <2>2, <3>1, <3>2
  <2>5. PageIds(new) = ids \ {all[n + 1].id} /\ all[n + 1].id \in ids
    BY <2>3, <2>4
  <2>6. \A i \in 1 .. m : new[i] = entry \/ \E j \in 1 .. n : new[i] = entries[j]
    BY <1>1, <1>5, <1>8
  <2> QED BY <1>5, <1>7, <1>11, <2>1, <2>4, <2>5, <2>6 DEF new
<1> QED BY <1>10, <1>11 DEF new

\* A page lists the smallest of some ids, and admits to more when it lists not all.
Smallest(entries, more, ids) ==
  /\ PageIds(entries) \subseteq ids
  /\ more <=> PageIds(entries) # ids
  /\ \A id \in PageIds(entries), other \in ids \ PageIds(entries) : id < other
  /\ more => Len(entries) = Capacity

\* An entry shows the file as it is, under its newest name.
EntryTrue(e) ==
  /\ e.print = PrintOf(archives[e.id])
  /\ e.name \in {LatestName(e.id, archives[e.id].header).name}
                  \cup (IF IoFaults THEN {NoName} ELSE {})
EntriesTrue(entries) == \A i \in 1 .. Len(entries) : EntryTrue(entries[i])

\* While the directory is read, the page is right for the entries read so far.
Passed == Above(arm.requestId) \ scan
ScanTrue ==
  arm.phase = "SCAN" =>
    /\ arm.command = "CATALOG" /\ \A id \in scan : Exists(id)
    /\ Ascending(cat.entries) /\ Len(cat.entries) <= Capacity
    /\ Smallest(cat.entries, cat.more, Passed) /\ EntriesTrue(cat.entries)

\* The page that was published is right from the answer on, until it is read.
PageTrue == Smallest(page.entries, page.more, Above(page.after)) /\ EntriesTrue(page.entries)
PageWhole == arm.phase = "ACK" /\ arm.command = "CATALOG" /\ arm.status = "OK" => PageTrue
PageTold == ppc.command = "CATALOG" /\ response.ack = ppc.seq /\ response.status = "OK" => PageTrue

\* Names are only ever written under an envelope, so a file without one has none.
NamesValid ==
  /\ \A id \in Ids, i \in 0 .. 1 : labels[id][i].gen # 0 => ValidHeader(labels[id][i].header)
  /\ arm.phase \in NamingPhases => ValidHeader(job.header)

PageInv == NamesValid /\ ScanTrue /\ PageWhole /\ PageTold

LEMMA SmallestGrows ==
  ASSUME NEW entries \in Seq(PageEntries), Ascending(entries), Len(entries) <= Capacity,
         NEW more \in BOOLEAN, NEW ids \in SUBSET Ids, Smallest(entries, more, ids),
         NEW entry \in PageEntries, entry.id \notin ids
  PROVE  Smallest(Inserted(entries, entry), more \/ Len(entries) = Capacity, ids \cup {entry.id})
<1> DEFINE new == Inserted(entries, entry)
           old == PageIds(entries)
<1>1. /\ old \subseteq ids /\ entry.id \notin old /\ entry.id \in Ids
      /\ more <=> old # ids
      /\ \A id \in old, other \in ids \ old : id < other
      /\ more => Len(entries) = Capacity
  BY DEF Smallest, PageEntries
<1>2. /\ Len(new) = IF Len(entries) = Capacity THEN Capacity ELSE Len(entries) + 1
      /\ Len(entries) # Capacity => PageIds(new) = old \cup {entry.id}
      /\ Len(entries) = Capacity =>
           \E last \in old \cup {entry.id} :
             /\ PageIds(new) = (old \cup {entry.id}) \ {last}
             /\ \A id \in PageIds(new) : id < last
  BY <1>1, InsertedFacts
<1> HIDE DEF new, old
<1>3. CASE Len(entries) # Capacity
  BY <1>1, <1>2, <1>3 DEF Smallest, new
<1>4. CASE Len(entries) = Capacity
  <2>1. PICK last \in old \cup {entry.id} :
          /\ PageIds(new) = (old \cup {entry.id}) \ {last}
          /\ \A id \in PageIds(new) : id < last
    BY <1>2, <1>4
  <2>2. ASSUME NEW id \in PageIds(new), NEW other \in (ids \cup {entry.id}) \ PageIds(new)
        PROVE  id < other
    <3>1. id \in Nat /\ last \in Nat /\ other \in Nat
      <4>1. id \in Ids /\ last \in Ids /\ other \in Ids
        BY <1>1, <2>1
      <4>2. \A i \in Ids : i \in Nat
        BY BoundsAssumption DEF Ids
      <4> QED BY <4>1, <4>2
    <3>2. CASE other = last
      BY <2>1, <3>2
    <3>3. CASE other # last
      <4>1. other \in ids \ old
        BY <2>1, <3>3
      <4>2. CASE last = entry.id
        BY <1>1, <2>1, <4>1, <4>2
      <4>3. CASE last # entry.id
        <5>1. last \in old /\ last < other /\ id < last
          BY <1>1, <2>1, <4>1, <4>3
        <5> QED BY <3>1, <5>1
      <4> QED BY <4>2, <4>3
    <3> QED BY <3>2, <3>3
  <2>3. PageIds(new) \subseteq ids \cup {entry.id} /\ PageIds(new) # ids \cup {entry.id}
    BY <1>1, <2>1
  <2> QED BY <1>2, <1>4, <2>2, <2>3 DEF Smallest, new
<1> QED BY <1>3, <1>4

\* The entry inserted is as true as the others.
LEMMA EntriesGrow ==
  ASSUME NEW entries \in Seq(PageEntries), Ascending(entries), Len(entries) <= Capacity,
         EntriesTrue(entries), NEW entry \in PageEntries, entry.id \notin PageIds(entries),
         EntryTrue(entry)
  PROVE  EntriesTrue(Inserted(entries, entry))
<1>1. PICK new : /\ new = Inserted(entries, entry)
                 /\ \A i \in 1 .. Len(new) :
                      new[i] = entry \/ \E j \in 1 .. Len(entries) : new[i] = entries[j]
  BY InsertedFacts
<1>2. \A i \in 1 .. Len(new) : EntryTrue(new[i])
  <2> TAKE i \in 1 .. Len(new)
  <2>1. CASE new[i] = entry
    BY <2>1
  <2>2. ASSUME NEW j \in 1 .. Len(entries), new[i] = entries[j] PROVE EntryTrue(new[i])
    BY <2>2 DEF EntriesTrue
  <2> QED BY <1>1, <2>1, <2>2
<1> QED BY <1>1, <1>2 DEF EntriesTrue

\* What a page says stays so while the card stays.
LEMMA CardShown ==
  ASSUME UNCHANGED <<archives, labels>>
  PROVE  /\ \A cursor : Above(cursor)' = Above(cursor)
         /\ \A entries : EntriesTrue(entries)' <=> EntriesTrue(entries)
<1>1. \A cursor : Above(cursor)' = Above(cursor)
  BY DEF Above, Exists
<1>2. ASSUME NEW e PROVE EntryTrue(e)' <=> EntryTrue(e)
  <2>1. LatestName(e.id, archives[e.id].header)' = LatestName(e.id, archives[e.id].header)
    <3>1. \A h : LatestName(e.id, h)' = LatestName(e.id, h)
      BY DEF LatestName, LatestCopy, NamesOf
    <3>2. PICK h : h = archives[e.id].header
      OBVIOUS
    <3> QED BY <3>1, <3>2 DEF LatestName, LatestCopy, NamesOf
  <2> QED BY <2>1 DEF EntryTrue, PrintOf
<1>3. ASSUME NEW entries PROVE EntriesTrue(entries)' <=> EntriesTrue(entries)
  BY <1>2 DEF EntriesTrue
<1> QED BY <1>1, <1>3

LEMMA PageStays ==
  ASSUME UNCHANGED <<archives, labels, page>>
  PROVE  PageTrue' <=> PageTrue
<1>1. PICK entries, more, after : entries = page.entries /\ more = page.more /\ after = page.after
  OBVIOUS
<1>2. PageTrue <=> Smallest(entries, more, Above(after)) /\ EntriesTrue(entries)
  BY <1>1 DEF PageTrue
<1>3. PageTrue' <=> Smallest(entries, more, Above(after)') /\ EntriesTrue(entries)'
  BY <1>1 DEF PageTrue, Smallest, PageIds, EntriesTrue
<1> QED BY <1>2, <1>3, CardShown

\* Nothing but a catalogue is at the directory.
LEMMA WorkerElsewhere ==
  ASSUME StoreInv, Errand, StorageStep,
         ~(PublishAck \/ Latch \/ Cancel \/ OpenCatalog \/ ScanEntry \/ EndScan)
  PROVE  arm'.command # "CATALOG" /\ arm'.phase # "SCAN"
<1>1. arm \in Arms
  BY DEF StoreInv, KeyInv, TypeInv, TypeOK, StorageTypeOK
<1>2. arm.command # "CATALOG"
  BY DEF StorageStep, OpenKey, WriteKeyCopy0, WriteKeyCopy1, DeleteArchive, DropName0, DropName1,
         OpenRename, RemoveOldName, PlaceName, OpenExport, OpenImport, WriteHeader, ReadHeader,
         Transfer, Close, PublishExport, PublishImport, Working, Errand, StoreInv, TargetKnown
<1>3. arm'.command = arm.command
  <2>1. Serve
    BY WorkerServes DEF StoreInv, ProtocolInv
  <2> QED BY <2>1 DEF Serve, SameRequest
<1> SUFFICES arm'.phase # "SCAN"
  BY <1>2, <1>3
<1>4. ASSUME NEW a \in Arms, NEW s, Finish(a, s) PROVE arm'.phase # "SCAN"
  BY <1>4, FinishFields
<1>5. ASSUME NEW a \in Arms, NEW p \in InnerPhases \cup (ServicePhases \ {"SCAN"}), Continue(a, p)
      PROVE  arm'.phase # "SCAN"
  BY <1>5, ContinueFields DEF InnerPhases, ServicePhases
<1>6. \A s : [arm EXCEPT !.status = s].phase = arm.phase
  BY <1>1 DEF Arms
<1>7. CASE \/ WriteKeyCopy0 \/ WriteKeyCopy1 \/ DeleteArchive \/ DropName1 \/ OpenRename
           \/ RemoveOldName \/ PlaceName \/ OpenImport \/ WriteHeader \/ ReadHeader \/ Close
           \/ PublishExport \/ PublishImport
  <2>1. \/ \E s : Finish(arm, s)
        \/ \E p \in InnerPhases \cup (ServicePhases \ {"SCAN"}) : Continue(arm, p)
    BY <1>7 DEF WriteKeyCopy0, WriteKeyCopy1, DeleteArchive, DropName1, OpenRename, RemoveOldName,
                PlaceName, OpenImport, WriteHeader, ReadHeader, Close, PublishExport,
                PublishImport, InnerPhases, ServicePhases
  <2> QED BY <1>1, <1>4, <1>5, <2>1
<1>8. CASE OpenKey
  <2>1. (\E s : Finish(arm, s)) \/ Continue(arm, "KEYCOPY0")
    BY <1>8 DEF OpenKey
  <2> QED BY <1>1, <1>4, <1>5, <2>1 DEF InnerPhases
<1>9. CASE DropName0
  <2>1. PICK stays \in BOOLEAN : Continue([arm EXCEPT !.status = Cleanup(stays)], "DROPNAME1")
    BY <1>9 DEF DropName0
  <2> QED BY <1>1, <2>1 DEF Continue, Arms
<1>10. CASE OpenExport
  <2>1. \E a : /\ a \in {arm, [arm EXCEPT !.fileId = arm.fileId + 1]}
               /\ (\E s : Finish(a, s)) \/ Continue(a, "OPEN") \/ Continue(a, "HEADER")
    BY <1>10 DEF OpenExport
  <2> QED BY <1>1, <2>1 DEF Finish, Continue, Arms
<1>11. CASE Transfer
  <2>1. Continue(Advanced, "CLOSE") \/ Continue(Advanced, "TRANSFER") \/ Finish(arm, "IO_ERROR")
    BY <1>11 DEF Transfer
  <2> QED BY <1>1, <1>4, <2>1 DEF Continue, Advanced, Arms
<1> QED
  BY <1>7, <1>8, <1>9, <1>10, <1>11 DEF StorageStep

\* The worker writes a name only under the envelope of the file.
LEMMA WorkerNames ==
  ASSUME StoreInv, NamesValid, StorageStep
  PROVE  NamesValid'
<1>1. arm \in Arms /\ job \in Jobs /\ labels \in [Ids -> [0 .. 1 -> NameRecords]]
  BY DEF StoreInv, KeyInv, TypeInv, TypeOK, StorageTypeOK
<1>2. ASSUME UNCHANGED labels, arm'.phase \notin NamingPhases PROVE NamesValid'
  BY <1>2 DEF NamesValid
<1>3. ASSUME NEW i \in 0 .. 1, NEW record \in {NoRecord},
             arm.fileId \in Ids, labels' = [labels EXCEPT ![arm.fileId][i] = record],
             UNCHANGED job, arm'.phase \in NamingPhases => arm.phase \in NamingPhases
      PROVE  NamesValid'
  BY <1>1, <1>3 DEF NamesValid, NoRecord
<1>4. ASSUME NEW a \in Arms, NEW s, Finish(a, s) PROVE arm'.phase \notin NamingPhases
  BY <1>4, FinishFields DEF NamingPhases
<1>5. CASE DropName0 \/ DropName1
  <2>1. PICK i \in 0 .. 1, stays \in BOOLEAN : DropName(i, stays)
    <3>1. (\E stays \in BOOLEAN : DropName(0, stays)) \/ (\E stays \in BOOLEAN : DropName(1, stays))
      BY <1>5 DEF DropName0, DropName1
    <3> QED BY <3>1
  <2>2. arm.fileId \in Ids /\ arm'.phase \notin NamingPhases
    BY <1>1, <1>5 DEF DropName0, DropName1, Continue, Finish, Arms, NamingPhases, StoreInv,
                      KeyInv, TypeInv, WorkerShape
  <2>3. UNCHANGED job
    BY <2>1 DEF DropName, workVars
  <2> QED BY <1>2, <1>3, <2>1, <2>2, <2>3 DEF DropName
<1>6. CASE RemoveOldName
  <2>1. arm.fileId \in Ids /\ arm.phase \in NamingPhases /\ UNCHANGED job
        /\ 1 - LatestCopy(arm.fileId, job.header) \in 0 .. 1
    BY <1>6 DEF RemoveOldName, NamingPhases, workVars, LatestCopy, StoreInv, KeyInv, TypeInv,
                WorkerShape
  <2> QED BY <1>1, <1>3, <1>4, <1>6, <2>1, <1>2 DEF RemoveOldName
<1>7. CASE PlaceName
  <2>1. /\ arm.fileId \in Ids /\ UNCHANGED job /\ 1 - LatestCopy(arm.fileId, job.header) \in 0 .. 1
        /\ ValidHeader(job.header)
    BY <1>7 DEF PlaceName, NamingPhases, workVars, LatestCopy, StoreInv, KeyInv, TypeInv,
                WorkerShape, NamesValid
  <2>2. arm'.phase \notin NamingPhases
    BY <1>1, <1>4, <1>7 DEF PlaceName
  <2>3. PICK i, gen, name, h :
          /\ i \in 0 .. 1 /\ h = job.header
          /\ \/ UNCHANGED labels
             \/ labels' = [labels EXCEPT ![arm.fileId][i] = [gen |-> gen, name |-> name, header |-> h]]
    BY <1>7, <2>1 DEF PlaceName
  <2>4. \A id \in Ids, k \in 0 .. 1 :
          labels'[id][k] = labels[id][k] \/ labels'[id][k].header = h
    BY <1>1, <2>1, <2>3
  <2>5. \A id \in Ids, k \in 0 .. 1 : labels'[id][k].gen # 0 => ValidHeader(labels'[id][k].header)
    BY <2>1, <2>3, <2>4 DEF NamesValid
  <2> QED BY <2>2, <2>5 DEF NamesValid
<1>8. CASE OpenRename
  <2>1. CASE Finish(arm, RenameStatus) \/ Finish(arm, "IO_ERROR")
    BY <1>1, <1>2, <1>4, <1>8, <2>1 DEF OpenRename, card
  <2>2. CASE RenameStatus = "OK" /\ job' = [job EXCEPT !.header = archives[arm.fileId].header]
    <3>1. ValidHeader(archives[arm.fileId].header)
      BY <2>2 DEF RenameStatus, Readable
    <3>2. job'.header = archives[arm.fileId].header
      BY <1>1, <2>2 DEF Jobs
    <3> QED BY <1>8, <3>1, <3>2 DEF OpenRename, card, NamesValid
  <2> QED BY <1>8, <2>1, <2>2 DEF OpenRename
<1>9. CASE PublishExport
  <2>1. ValidHeader(job.header) /\ UNCHANGED <<job, labels>>
    BY <1>9 DEF PublishExport, Working, StoreInv, DraftWhole, ExportPhases, workVars
  <2> QED BY <2>1 DEF NamesValid
<1>10. CASE \/ PublishAck \/ Cancel \/ Latch \/ OpenKey \/ WriteKeyCopy0 \/ WriteKeyCopy1
            \/ OpenCatalog \/ ScanEntry \/ EndScan \/ DeleteArchive \/ OpenExport \/ OpenImport
            \/ WriteHeader \/ ReadHeader \/ Transfer \/ Close \/ PublishImport
  <2>1. UNCHANGED labels
    BY <1>10 DEF PublishAck, Cancel, Latch, OpenKey, WriteKeyCopy0, WriteKeyCopy1, OpenCatalog,
                 ScanEntry, EndScan, DeleteArchive, OpenExport, OpenImport, WriteHeader,
                 ReadHeader, Transfer, Close, PublishImport, card
  <2>2. arm'.phase \notin NamingPhases
    <3>1. CASE OpenCatalog \/ ScanEntry \/ PublishAck
      BY <1>1, <3>1 DEF OpenCatalog, ScanEntry, PublishAck, Working, Finish, Arms, NamingPhases
    <3>2. CASE Latch \/ OpenExport \/ Transfer
      BY <1>1, <3>2 DEF Latch, Latched, OpenExport, Transfer, Advanced, Finish, Continue, Arms,
                        NamingPhases
    <3>3. CASE \/ Cancel \/ OpenKey \/ WriteKeyCopy0 \/ WriteKeyCopy1 \/ EndScan \/ DeleteArchive
               \/ OpenImport \/ WriteHeader \/ ReadHeader \/ Close \/ PublishImport
      <4>1. \/ \E s : Finish(arm, s)
            \/ \E p \in {"KEYCOPY0", "KEYCOPY1", "DROPNAME0", "HEADER", "TRANSFER", "PUBLISH"} :
                 Continue(arm, p)
        BY <3>3 DEF Cancel, OpenKey, WriteKeyCopy0, WriteKeyCopy1, EndScan, DeleteArchive,
                    OpenImport, WriteHeader, ReadHeader, Close, PublishImport
      <4> QED BY <1>1, <1>4, <4>1, ContinueFields DEF NamingPhases
    <3> QED BY <1>10, <3>1, <3>2, <3>3
  <2> QED BY <1>2, <2>1, <2>2
<1> QED BY <1>5, <1>6, <1>7, <1>8, <1>9, <1>10 DEF StorageStep

\* An entry inserted shows the file read.
LEMMA ListedTrue ==
  ASSUME StoreInv, NamesValid, NEW id \in Ids,
         NEW name \in {LatestName(id, archives[id].header).name} \cup
                      (IF IoFaults THEN {NoName} ELSE {}),
         NEW given, given = IF ValidHeader(archives[id].header) THEN name ELSE NoName
  PROVE  Listed(id, given) \in PageEntries /\ Listed(id, given).id = id /\ EntryTrue(Listed(id, given))
<1>1. StorageTypeOK /\ archives[id] \in Files
  BY DEF StoreInv, KeyInv, TypeInv, TypeOK, StorageTypeOK
<1>2. LatestName(id, archives[id].header).name \in Names
  BY <1>1, LatestNameType DEF NameRecords
<1>3. Listed(id, given) \in PageEntries
  BY <1>1, <1>2, DataAssumption DEF Listed, PrintOf, PageEntries, Prints, Files
<1>4. Listed(id, given) = [id |-> id, print |-> PrintOf(archives[id]), name |-> given]
  BY DEF Listed
<1>5. ~ValidHeader(archives[id].header) => LatestName(id, archives[id].header).name = NoName
  BY DEF LatestName, NamesOf, NamesValid, NoRecord
<1>6. given \in {LatestName(id, archives[id].header).name} \cup (IF IoFaults THEN {NoName} ELSE {})
  BY <1>5
<1> QED BY <1>3, <1>4, <1>6 DEF EntryTrue

\* Reading one entry of the directory.
LEMMA ScanPages ==
  ASSUME StoreInv, NamesValid, ScanTrue, ScanEntry
  PROVE  ScanTrue'
<1>1. /\ arm.phase = "SCAN" /\ arm.command = "CATALOG" /\ UNCHANGED <<arm, archives, labels>>
      /\ cat \in Cats /\ scan \subseteq Ids /\ arm.requestId \in Nat
  <2>1. StorageTypeOK
    BY DEF StoreInv, KeyInv, TypeInv, TypeOK
  <2>2. arm \in Arms /\ cat \in Cats /\ scan \subseteq Ids
    BY <2>1 DEF StorageTypeOK
  <2>3. arm.requestId \in Nat
    BY <2>2, BoundsAssumption DEF Arms
  <2>4. arm.phase = "SCAN" /\ arm.command = "CATALOG"
    BY DEF ScanEntry, Working
  <2>5. UNCHANGED <<arm, archives, labels>>
    BY DEF ScanEntry, card
  <2> QED BY <2>2, <2>3, <2>4, <2>5
<1>2. PICK entries \in Seq(PageEntries), more \in BOOLEAN : entries = cat.entries /\ more = cat.more
  BY <1>1 DEF Cats
<1>3. /\ \A id \in scan : Exists(id)
      /\ Ascending(entries) /\ Len(entries) <= Capacity
      /\ Smallest(entries, more, Passed) /\ EntriesTrue(entries)
  BY <1>1, <1>2 DEF ScanTrue
<1>4. PICK id \in scan :
        /\ scan' = scan \ {id}
        /\ \/ id <= arm.requestId /\ UNCHANGED cat
           \/ /\ id > arm.requestId
              /\ \E name \in {LatestName(id, archives[id].header).name} \cup
                             (IF IoFaults THEN {NoName} ELSE {}) :
                   cat' = [cat EXCEPT
                     !.entries = Inserted(cat.entries,
                       Listed(id, IF ValidHeader(archives[id].header) THEN name ELSE NoName)),
                     !.more = cat.more \/ Len(cat.entries) = Capacity]
  BY DEF ScanEntry
<1>5. id \in Ids /\ id \in Nat /\ Exists(id)
  <2>1. id \in Ids
    BY <1>1
  <2> QED BY <1>3, <2>1, BoundsAssumption DEF Ids
<1>6. /\ Above(arm.requestId)' = Above(arm.requestId)
      /\ \A e : EntriesTrue(e)' <=> EntriesTrue(e)
      /\ \A other \in scan' : Exists(other)'
  <2>1. \A cursor : Above(cursor)' = Above(cursor)
    BY <1>1, CardShown
  <2>2. PICK cursor : cursor = arm.requestId
    OBVIOUS
  <2>3. Above(arm.requestId)' = Above(cursor)' /\ Above(arm.requestId) = Above(cursor)
    BY <1>1, <2>2 DEF Above
  <2>4. \A other \in scan' : Exists(other)'
    BY <1>1, <1>3, <1>4 DEF Exists
  <2> QED BY <1>1, <2>1, <2>3, <2>4, CardShown
<1>7. CASE id <= arm.requestId /\ UNCHANGED cat
  <2>1. id \notin Above(arm.requestId)
    BY <1>1, <1>5, <1>7 DEF Above
  <2>2. Passed' = Above(arm.requestId) \ (scan \ {id})
    BY <1>4, <1>6 DEF Passed
  <2>3. Passed' = Passed
    BY <2>1, <2>2 DEF Passed
  <2> QED BY <1>1, <1>2, <1>3, <1>6, <1>7, <2>3 DEF ScanTrue
<1>8. ASSUME id > arm.requestId,
             NEW name \in {LatestName(id, archives[id].header).name} \cup
                          (IF IoFaults THEN {NoName} ELSE {}),
             cat' = [cat EXCEPT
                       !.entries = Inserted(cat.entries,
                         Listed(id, IF ValidHeader(archives[id].header) THEN name ELSE NoName)),
                       !.more = cat.more \/ Len(cat.entries) = Capacity]
      PROVE  ScanTrue'
  <2>1. PICK given : given = IF ValidHeader(archives[id].header) THEN name ELSE NoName
    OBVIOUS
  <2>2. PICK entry \in PageEntries :
          entry = Listed(id, given) /\ entry.id = id /\ EntryTrue(entry)
    BY <1>5, <1>8, <2>1, ListedTrue
  <2>3. cat'.entries = Inserted(entries, entry) /\ cat'.more = (more \/ Len(entries) = Capacity)
    BY <1>1, <1>2, <1>8, <2>1, <2>2 DEF Cats
  <2>4. Passed' = Passed \cup {id} /\ id \notin Passed /\ Passed \in SUBSET Ids
    BY <1>1, <1>4, <1>5, <1>6, <1>8 DEF Passed, Above
  <2>5. entry.id \notin PageIds(entries)
    BY <1>3, <2>2, <2>4 DEF Smallest
  <2>6. Smallest(Inserted(entries, entry), more \/ Len(entries) = Capacity, Passed \cup {id})
    BY <1>3, <2>2, <2>4, SmallestGrows
  <2>7. EntriesTrue(Inserted(entries, entry))
    BY <1>3, <2>2, <2>5, EntriesGrow
  <2>8. Ascending(Inserted(entries, entry)) /\ Len(Inserted(entries, entry)) <= Capacity
    <3>1. Len(entries) \in Nat /\ Capacity \in Nat
      BY BoundsAssumption
    <3> QED BY <1>3, <2>2, <2>5, <3>1, InsertedFacts
  <2>9. PICK new, full : new = Inserted(entries, entry) /\ full = (more \/ Len(entries) = Capacity)
    OBVIOUS
  <2> QED BY <1>1, <1>6, <2>3, <2>4, <2>6, <2>7, <2>8, <2>9 DEF ScanTrue
<1> QED BY <1>4, <1>7, <1>8

\* A catalogue is open, read and answered; nothing else touches its page.
LEMMA WorkerPages ==
  ASSUME StoreInv, Errand, NamesValid, ScanTrue, StorageStep
  PROVE  ScanTrue' /\ PageWhole'
<1>1. arm \in Arms /\ cat \in Cats /\ scan \subseteq Ids
  BY DEF StoreInv, KeyInv, TypeInv, TypeOK, StorageTypeOK
<1>2. ASSUME NEW a \in Arms, NEW s, s # "OK", Finish(a, s)
      PROVE  ScanTrue' /\ PageWhole'
  <2>1. arm'.phase = "ACK" /\ arm'.status = s
    BY <1>2, FinishFields
  <2> QED BY <1>2, <2>1 DEF ScanTrue, PageWhole
<1>3. CASE PublishAck
  <2>1. arm'.phase = "IDLE"
    BY <1>1, <1>3 DEF PublishAck, Arms
  <2> QED BY <2>1 DEF ScanTrue, PageWhole
<1>4. CASE Latch
  <2>1. Latched \in Arms
    BY BoundsAssumption
       DEF StoreInv, KeyInv, TypeInv, TypeOK, MailboxTypeOK, Latched, Requests, Arms,
           ServicePhases, Statuses
  <2>2. CASE LatchStatus = "OK"
    <3>1. arm'.phase = "OPEN"
      BY <1>4, <2>1, <2>2, ContinueFields DEF Latch
    <3> QED BY <3>1 DEF ScanTrue, PageWhole
  <2>3. CASE LatchStatus # "OK"
    BY <1>2, <1>4, <2>1, <2>3 DEF Latch
  <2> QED BY <2>2, <2>3
<1>5. CASE Cancel
  BY <1>1, <1>2, <1>5 DEF Cancel
<1>6. CASE OpenCatalog
  <2>1. CASE Finish(arm, "IO_ERROR")
    BY <1>1, <1>2, <2>1
  <2>2. CASE /\ arm' = [arm EXCEPT !.phase = "SCAN"]
             /\ scan' = {id \in Ids : Exists(id)}
             /\ cat' = [entries |-> <<>>, more |-> FALSE, seq |-> 0, session |-> 0]
    <3>1. arm'.phase = "SCAN" /\ arm'.command = "CATALOG" /\ UNCHANGED <<archives, labels>>
      BY <1>1, <1>6, <2>2 DEF OpenCatalog, Working, card, Arms
    <3>2. Passed' = {} /\ \A id \in scan' : Exists(id)'
      BY <2>2, <3>1 DEF Passed, Above, Exists
    <3>3. cat'.entries = <<>> /\ cat'.more = FALSE /\ Len(<<>>) = 0 /\ PageIds(<<>>) = {}
      BY <2>2 DEF PageIds
    <3>4. Smallest(<<>>, FALSE, {}) /\ Ascending(<<>>) /\ 0 <= Capacity
      BY <3>3, BoundsAssumption DEF Smallest, Ascending
    <3>5. EntriesTrue(<<>>)'
      BY DEF EntriesTrue
    <3> QED BY <3>1, <3>2, <3>3, <3>4, <3>5 DEF ScanTrue, PageWhole
  <2> QED BY <1>6, <2>1, <2>2 DEF OpenCatalog
<1>7. CASE ScanEntry
  <2>1. arm'.phase = "SCAN"
    BY <1>7 DEF ScanEntry, Working
  <2> QED BY <1>7, <2>1, ScanPages DEF PageWhole
<1>8. CASE EndScan
  <2>1. CASE Finish(arm, "IO_ERROR")
    BY <1>1, <1>2, <2>1
  <2>2. CASE PublishPage /\ Finish(arm, "OK")
    <3>1. arm'.phase = "ACK" /\ UNCHANGED <<archives, labels>>
      BY <1>1, <1>8, <2>2, FinishFields DEF EndScan, card
    <3>2. PICK entries, more, after :
            /\ entries = cat.entries /\ more = cat.more /\ after = arm.requestId
            /\ page' = [after |-> after, entries |-> entries, more |-> more]
      BY <2>2 DEF PublishPage
    <3>3. page'.after = after /\ page'.entries = entries /\ page'.more = more
      BY <3>2
    <3>4. Passed = Above(after) /\ arm.phase = "SCAN"
      BY <1>8, <2>2, <3>2 DEF EndScan, Working, PublishPage, Passed
    <3>5. Smallest(entries, more, Above(after)) /\ EntriesTrue(entries)
      BY <3>2, <3>4 DEF ScanTrue
    <3>6. Smallest(entries, more, Above(after)') /\ EntriesTrue(entries)'
      BY <3>1, <3>5, CardShown
    <3>7. PageTrue'
      BY <3>3, <3>6 DEF PageTrue, Above
    <3> QED BY <3>1, <3>7 DEF ScanTrue, PageWhole
  <2> QED BY <1>8, <2>1, <2>2 DEF EndScan
<1>9. CASE ~(PublishAck \/ Latch \/ Cancel \/ OpenCatalog \/ ScanEntry \/ EndScan)
  BY <1>9, WorkerElsewhere DEF ScanTrue, PageWhole
<1> QED BY <1>3, <1>4, <1>5, <1>6, <1>7, <1>8, <1>9

\* The answer to a catalogue says what the page lists.
LEMMA AnswerPages ==
  ASSUME StoreInv, PageWhole, Worker
  PROVE  PageTold'
<1>1. StorageStep /\ UNCHANGED <<ppc, request>>
  BY DEF Worker, StorageNext, clientVars, ppcLines
<1>2. SUFFICES ASSUME ppc.command = "CATALOG", response'.ack = ppc.seq, response'.status = "OK"
               PROVE  PageTrue'
  BY <1>1 DEF PageTold
<1>3. PublishAck
  <2>1. response.ack # ppc.seq
    BY <1>1, <1>2, AnswerStands
  <2>2. PublishAck \/ Latch \/ Serve
    BY <1>1, WorkerServes DEF StoreInv, ProtocolInv
  <2> QED BY <1>2, <2>1, <2>2 DEF Latch, Quiet, Serve
<1>4. UNCHANGED <<archives, labels, page>> /\ arm.phase = "ACK" /\ response'.status = arm.status
  BY <1>3 DEF PublishAck, card
<1>5. arm.command = "CATALOG"
  BY <1>2, <1>4 DEF StoreInv, ProtocolInv, Protocol, RequestOutstanding, WorkerOwes
<1>6. PageTrue
  BY <1>2, <1>4, <1>5 DEF PageWhole
<1> QED BY <1>4, <1>6, PageStays

\* What is left alone by every step that is not the worker's.
LEMMA PagesStay ==
  ASSUME NamesValid, ScanTrue, PageWhole, UNCHANGED <<arm, job, cat, scan, archives, labels, page>>
  PROVE  NamesValid' /\ ScanTrue' /\ PageWhole'
<1>1. NamesValid'
  BY DEF NamesValid, ValidHeader
<1>2. ScanTrue'
  <2>1. PICK entries, more, cursor, passed :
          /\ entries = cat.entries /\ more = cat.more /\ cursor = arm.requestId /\ passed = Passed
    OBVIOUS
  <2>2. Above(arm.requestId)' = Above(cursor)' /\ Above(arm.requestId) = Above(cursor)
    BY <2>1 DEF Above
  <2>3. Passed' = passed
    BY <2>1, <2>2, CardShown DEF Passed
  <2>4. EntriesTrue(entries)' <=> EntriesTrue(entries)
    BY CardShown
  <2>5. cat'.entries = entries /\ cat'.more = more
    BY <2>1
  <2>6. SUFFICES ASSUME arm.phase = "SCAN" PROVE ScanTrue'
    BY DEF ScanTrue
  <2>7. /\ arm.command = "CATALOG" /\ \A id \in scan : Exists(id)
        /\ Ascending(entries) /\ Len(entries) <= Capacity
        /\ Smallest(entries, more, passed) /\ EntriesTrue(entries)
    BY <2>1, <2>6 DEF ScanTrue
  <2>8. \A id \in scan' : Exists(id)'
    BY <2>7 DEF Exists
  <2> QED BY <2>3, <2>4, <2>5, <2>7, <2>8 DEF ScanTrue
<1>3. PageWhole'
  BY PageStays DEF PageWhole
<1> QED BY <1>1, <1>2, <1>3

\* The game leaves the page alone until it has read it.
LEMMA GamePages ==
  ASSUME StoreInv, PageInv, Game
  PROVE  PageInv'
<1>1. ClientNext /\ UNCHANGED <<arm, job, cat, scan, archives, labels, page, response>>
  BY DEF Game, storageVars, workVars, card, ClientNext, armLines
<1>2. NamesValid' /\ ScanTrue' /\ PageWhole'
  BY <1>1, PagesStay DEF PageInv
<1>3. PageTold'
  <2>1. CASE ppc.command = "NONE"
    <3>1. ppc'.command = "CATALOG" => response'.ack # ppc'.seq
      BY <1>1, <2>1, GameAsks
    <3> QED BY <3>1 DEF PageTold
  <2>2. CASE ppc.command # "NONE"
    <3>1. ppc'.command = "NONE" \/ UNCHANGED ppc
      BY <1>1, <2>2, GameReads
    <3> QED BY <1>1, <3>1, PageStays DEF PageInv, PageTold
  <2> QED BY <2>1, <2>2
<1> QED BY <1>2, <1>3 DEF PageInv

LEMMA PageStep ==
  ASSUME StoreInv, Errand, PageInv, [Next]_vars
  PROVE  PageInv'
<1>1. CASE Worker
  <2>1. StorageStep
    BY <1>1 DEF Worker, StorageNext
  <2> QED BY <1>1, <2>1, WorkerNames, WorkerPages, AnswerPages DEF PageInv
<1>2. CASE Game
  BY <1>2, GamePages
<1>3. CASE Reset \/ UNCHANGED vars
  <2>1. UNCHANGED <<arm, job, cat, scan, archives, labels, page, response>>
    BY <1>3 DEF Reset, vars, mailboxVars, armLines, storageVars, workVars, card
  <2>2. NamesValid' /\ ScanTrue' /\ PageWhole'
    BY <2>1, PagesStay DEF PageInv
  <2>3. ppc'.command = "NONE" \/ UNCHANGED ppc
    BY <1>3 DEF Reset, FreshProcess, FreshPpc, vars, clientVars
  <2> QED BY <2>1, <2>2, <2>3, PageStays DEF PageInv, PageTold
<1>4. CASE PowerLoss
  <2>1. arm'.phase = "IDLE" /\ ppc'.command = "NONE" /\ UNCHANGED labels
    BY <1>4 DEF PowerLoss, StorageRestart, IdleArm, FreshProcess, FreshPpc
  <2> QED BY <2>1 DEF PageInv, NamesValid, NamingPhases, ScanTrue, PageWhole, PageTold
<1> QED BY <1>1, <1>2, <1>3, <1>4 DEF Next

LEMMA InitPages == Init => PageInv
<1> SUFFICES ASSUME Init PROVE PageInv
  OBVIOUS
<1>1. /\ arm = IdleArm /\ ppc = FreshPpc(1)
      /\ labels = [id \in Ids |-> [i \in 0 .. 1 |-> NoRecord]]
  BY DEF Init, StorageInit, ClientInit
<1> QED
  BY <1>1 DEF PageInv, NamesValid, NamingPhases, ScanTrue, PageWhole, PageTold, IdleArm, FreshPpc,
              NoRecord

LEMMA PageEndsExact ==
  ASSUME StoreInv, PageInv, [Next]_vars, Finishes("CATALOG"), outcome'.result = "DONE"
  PROVE  LET ids == {list'.entries[i].id : i \in 1 .. Len(list'.entries)}
         IN  /\ ids \subseteq Above(list'.cursor)
             /\ list'.more <=> ids # Above(list'.cursor)
             /\ \A id \in ids, other \in Above(list'.cursor) \ ids : id < other
             /\ list'.more => Len(list'.entries) = Capacity
             /\ \A i \in 1 .. Len(list'.entries) :
                  LET e == list'.entries[i]
                  IN  /\ e.print = PrintOf(archives[e.id])
                      /\ e.name \in {LatestName(e.id, archives[e.id].header).name}
                                      \cup (IF IoFaults THEN {NoName} ELSE {})
<1>1. ppc.command = "CATALOG"
  BY DEF Finishes
<1>2. CompleteCatalog
  <2>1. ServiceStorage
    BY RequestFinishes DEF Commands
  <2> QED
    BY <1>1, <2>1 DEF ServiceStorage, CompleteKey, CompleteDelete, CompleteExport,
                      CompleteImport, CompleteRename, Answered
<1>3. response.ack = ppc.seq /\ outcome'.result = Verdict(PageValid)
  BY <1>2 DEF CompleteCatalog, Answered, Tell
<1>4. response.status = "OK"
  BY <1>3 DEF Verdict, NameOnlyFailure
<1>5. PICK entries, more, after : /\ entries = page.entries /\ more = page.more /\ after = page.after
                                  /\ list'.entries = entries /\ list'.more = more
                                  /\ list'.cursor = after
  BY <1>2, <1>3 DEF CompleteCatalog
<1>6. Smallest(entries, more, Above(after)) /\ EntriesTrue(entries)
  BY <1>1, <1>3, <1>4, <1>5 DEF PageInv, PageTold, PageTrue
<1> QED BY <1>5, <1>6 DEF Smallest, PageIds, EntriesTrue, EntryTrue

-----------------------------------------------------------------------------
(* What the player is told.                                                *)

OutcomeInv == StoreInv /\ Errand /\ ImportInv /\ ExportInv /\ DeleteInv /\ PageInv

LEMMA OutcomeAlways == Spec => []OutcomeInv
<1>1. Init => OutcomeInv
  <2> SUFFICES ASSUME Init PROVE OutcomeInv
    OBVIOUS
  <2>1. /\ arm = IdleArm /\ cat = NoCat /\ request = NoRequest /\ ppc = FreshPpc(1)
        /\ list = NoList /\ prompt = NoPrompt
    BY DEF Init, StorageInit, ClientInit
  <2>2. Errand
    BY <2>1 DEF Errand, IdleArm
  <2>3. ImportInv
    BY <2>1 DEF ImportInv, ImportWhole, Importing, ImportTold, BackupKept, IdleArm, FreshPpc
  <2>4. ExportInv
    BY <2>1 DEF ExportInv, ExportWhole, Exported, ExportTold, SlotExported, IdleArm, FreshPpc
  <2>5. DeleteInv
    BY <2>1 DEF DeleteInv, SessionOrder, OldDelete, PromptTrue, ProofLatched, Unique, IdleArm,
                NoCat, NoRequest, FreshPpc, NoList, NoPrompt
  <2> QED BY <2>2, <2>3, <2>4, <2>5, InitStore, InitPages DEF OutcomeInv
<1>2. OutcomeInv /\ [Next]_vars => OutcomeInv'
  BY StoreStep, ErrandStep, ImportStep, ExportStep, DeleteStep, PageStep DEF OutcomeInv
<1> QED BY <1>1, <1>2, PTL DEF Spec

\* An import is all or nothing, whatever file calls fail on the way and whoever
\* resets: READY means the whole of the chosen file, which this process may
\* load; anything else means the slot as it was, or empty if it was empty.
THEOREM ImportIsAtomic == Spec => ImportAtomic
<1>1. OutcomeInv /\ [Next]_vars =>
        [Finishes("IMPORT") =>
           IF outcome'.result = "DONE"
           THEN LET file == archives[ppc.id]
                IN  /\ WholeFile(file) /\ snapshot' = file.payload
                    /\ IdentityStatus(file.header, ppc.session) = "OK"
           ELSE IF slot.raw
                THEN slot'.raw /\ slot.backup # Blank /\ Holds(snapshot', slot.backup)
                ELSE ~slot'.raw /\ snapshot'[1] = Blank]_vars
  BY ImportEndsWell DEF OutcomeInv
<1> QED BY <1>1, OutcomeAlways, PTL DEF Spec, ImportAtomic

\* EXPORTED is only said of an archive that is on the card, whole, equal to the
\* slot and under the id and the name that were asked for; NAME NOT SAVED of all
\* that but the name.
THEOREM ExportIsTrue == Spec => ExportTruth
<1>1. OutcomeInv /\ [Next]_vars =>
        [Finishes("EXPORT") /\ outcome'.result \in {"DONE", "NAME NOT SAVED"} =>
           LET id == outcome'.id
               file == archives[id]
           IN  /\ slot.raw /\ WholeFile(file)
               /\ file.payload = snapshot
               /\ outcome'.result = "DONE" => LatestName(id, file.header).name = requestName]_vars
  BY ExportEndsTrue DEF OutcomeInv
<1> QED BY <1>1, OutcomeAlways, PTL DEF Spec, ExportTruth

\* Only the file the prompt showed is removed, however resets and stale pages
\* interleave with the worker.
THEOREM DeleteIsExact == Spec => DeleteExact
<1>1. OutcomeInv /\ [Next]_vars =>
        [\A id \in Ids : Exists(id) /\ ~Exists(id)' =>
           \/ ~ppc.initialized
           \/ /\ ppc.command = "DELETE" /\ ppc.id = id /\ prompt.id = id
              /\ PrintOf(archives[id]) = prompt.print]_vars
  BY DeletesOnlyThat DEF OutcomeInv
<1> QED BY <1>1, OutcomeAlways, PTL DEF Spec, DeleteExact

\* A page shown to the player lists the smallest archives above its cursor, as
\* they are on the card and under their newest names, as many as it holds, and
\* says there are more exactly when there are, in whatever order the directory
\* was read and whatever happened before the page was.
THEOREM PageIsExact == Spec => PageExact
<1>1. OutcomeInv /\ [Next]_vars =>
        [Finishes("CATALOG") /\ outcome'.result = "DONE" =>
           LET ids == {list'.entries[i].id : i \in 1 .. Len(list'.entries)}
           IN  /\ ids \subseteq Above(list'.cursor)
               /\ list'.more <=> ids # Above(list'.cursor)
               /\ \A id \in ids, other \in Above(list'.cursor) \ ids : id < other
               /\ list'.more => Len(list'.entries) = Capacity
               /\ \A i \in 1 .. Len(list'.entries) :
                    LET e == list'.entries[i]
                    IN  /\ e.print = PrintOf(archives[e.id])
                        /\ e.name \in {LatestName(e.id, archives[e.id].header).name}
                                        \cup (IF IoFaults THEN {NoName} ELSE {})]_vars
  BY PageEndsExact DEF OutcomeInv
<1> QED BY <1>1, OutcomeAlways, PTL DEF Spec, PageExact

=============================================================================
