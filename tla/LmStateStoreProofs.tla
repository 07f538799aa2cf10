--------------------------- MODULE LmStateStoreProofs ---------------------------
(***************************************************************************)
(* The card keeps the promises of ArchiveStore.  The worker updates its    *)
(* directory a call at a time while the game runs, is reset and loses      *)
(* power; every update is either one step of the abstract store or none.   *)
(* First, the key of the reboot archives: on a card that had no such       *)
(* archive to begin with, no order of failures, resets and power cuts      *)
(* publishes one whose key is not on the card, or loses the key of one     *)
(* that is there.                                                          *)
(***************************************************************************)
EXTENDS LmStateProtocolProofs

-----------------------------------------------------------------------------
(* The key.                                                                *)

\* The key the card would resolve to at the next boot.
CardKey == ResolvedKey(keyFiles)
KeyOf(id) == [status |-> "READY", id |-> id]

\* A key the mailbox shows is on the card: it is resolved again, never assumed.
KeyLineTrue == keyLine.status = "READY" => CardKey = KeyOf(keyLine.id)

\* EnsureKey writes the first copy on a card without any, then the same again.
KeyCopiesAgree ==
  /\ arm.phase \in {"KEYCOPY0", "KEYCOPY1"} => arm.command = "KEY"
  /\ arm.phase = "KEYCOPY0" => CardKey.status = "MISSING"
  /\ arm.phase = "KEYCOPY1" => keyFiles[0] = KeyRecord /\ keyFiles[1].status = "MISSING"

\* From the moment it is latched an export is bound to the key on the card.
ExportPhases == {"OPEN", "HEADER", "TRANSFER", "CLOSE", "PUBLISH"}
ExportBound ==
  arm.command = "EXPORT" /\ arm.phase \in ExportPhases /\ job.header.version = 2
    => CardKey = KeyOf(job.header.owner)

KeyInv == TypeInv /\ KeyLineTrue /\ KeyCopiesAgree /\ ExportBound

\* What every step keeps: the invariant, and the property on a card that has it.
KeyKept == /\ KeyLineTrue' /\ KeyCopiesAgree' /\ ExportBound'
           /\ KeyOutlivesArchives => KeyOutlivesArchives'

\* A card that never held an archive made under a key of this system.
NewCards ==
  \A files \in InitialCards : \A id \in Ids :
    files[id].header.version = 2 => files[id].header.owner = 0

-----------------------------------------------------------------------------
\* Whatever one read makes of the copies, READY is said only of the card's key.
LEMMA ResolveIsTrue ==
  ASSUME NEW files \in [0 .. 1 -> KeyFiles], NEW config, ResolveKey(files, config)
  PROVE  /\ keyLine'.status = "READY" => ResolvedKey(files) = KeyOf(keyLine'.id)
         /\ keyLine'.status = "MISSING" => ResolvedKey(files).status = "MISSING"
BY DEF ResolveKey, ResolvedKey, KeyOf

\* Once the card has a key, writing the second copy keeps it.
LEMMA SecondCopy ==
  ASSUME NEW files \in [0 .. 1 -> KeyFiles], NEW seed,
         files[0] = KeyOf(seed), files[1].status = "MISSING"
  PROVE  /\ ResolvedKey(files) = KeyOf(seed)
         /\ ResolvedKey([files EXCEPT ![1] = KeyOf(seed)]) = KeyOf(seed)
<1>1. ResolvedKey(files) = KeyOf(seed)
  BY DEF ResolvedKey, KeyOf
<1>2. ResolvedKey([files EXCEPT ![1] = KeyOf(seed)]) = KeyOf(seed)
  BY DEF ResolvedKey, KeyOf
<1> QED BY <1>1, <1>2

-----------------------------------------------------------------------------
(* The worker's actions.                                                   *)

\* An answer ends what the worker was doing with the key or the export.
LEMMA AnswerEnds ==
  ASSUME NEW a \in Arms, NEW s, Finish(a, s)
  PROVE  KeyCopiesAgree' /\ ExportBound'
<1>1. arm'.phase = "ACK"
  BY DEF Finish, Arms
<1> QED BY <1>1 DEF KeyCopiesAgree, ExportBound, ExportPhases

\* An export is latched only under the key the mailbox shows.
LEMMA LatchKeepsKey ==
  ASSUME KeyInv, Latch
  PROVE  KeyKept
<1> USE DEF KeyKept
<1>1. UNCHANGED <<keyLine, keyFiles, archives>>
  BY DEF Latch, Quiet, card
<1>2. KeyLineTrue' /\ (KeyOutlivesArchives => KeyOutlivesArchives')
  BY <1>1 DEF KeyInv, KeyLineTrue, CardKey, KeyOutlivesArchives, Exists
<1>3. CASE LatchStatus = "OK"
  <2>1. /\ arm'.phase = "OPEN" /\ arm'.command = request.command
        /\ job' = LatchedJob
    BY <1>3 DEF Latch, Continue, Latched
  <2>2. KeyCopiesAgree'
    BY <2>1 DEF KeyCopiesAgree
  <2>3. ASSUME arm'.command = "EXPORT", job'.header.version = 2
        PROVE  CardKey' = KeyOf(job'.header.owner)
    <3>1. request.command = "EXPORT" /\ WellFormed /\ IdentityStatus(header, request.session) = "OK"
      BY <1>3, <2>1, <2>3 DEF LatchStatus
    <3>2. job'.header = header
      BY <2>1, <3>1 DEF LatchedJob
    <3>3. keyLine.status = "READY" /\ header.owner = keyLine.id
      BY <2>3, <3>1, <3>2 DEF IdentityStatus
    <3> QED BY <1>1, <3>2, <3>3 DEF KeyInv, KeyLineTrue, CardKey
  <2> QED BY <1>2, <2>2, <2>3 DEF ExportBound
<1>4. CASE LatchStatus # "OK"
  <2>1. Latched \in Arms
    BY BoundsAssumption
       DEF KeyInv, TypeInv, TypeOK, MailboxTypeOK, Latched, Requests, Arms, ServicePhases,
           Statuses
  <2> QED BY <1>2, <1>4, <2>1, AnswerEnds DEF Latch
<1> QED BY <1>3, <1>4

\* EnsureKey: a key is written where there is none, and shown once resolved.
LEMMA EnsureKeyKeepsKey ==
  ASSUME KeyInv, OpenKey \/ WriteKeyCopy0 \/ WriteKeyCopy1, UNCHANGED ppcLines
  PROVE  KeyKept
<1> USE DEF KeyKept
<1>1. arm \in Arms /\ keyFiles \in [0 .. 1 -> KeyFiles] /\ keyFiles' \in [0 .. 1 -> KeyFiles]
  BY KeyType DEF KeyInv, TypeInv, TypeOK, StorageTypeOK, WorkerTypes
<1>2. UNCHANGED <<job, archives>>
  BY DEF OpenKey, WriteKeyCopy0, WriteKeyCopy1, workVars, card
<1>3. KeyRecord = KeyOf(job.seed)
  BY DEF KeyRecord, KeyOf
<1>4. CardKey.status = "MISSING" \/ UNCHANGED CardKey
        => (KeyOutlivesArchives => KeyOutlivesArchives')
  BY <1>2 DEF KeyInv, KeyOutlivesArchives, CardKey, Exists
<1>5. CASE OpenKey
  <2>1. UNCHANGED keyFiles /\ ResolveKey(keyFiles, keyLine.config) /\ arm.command = "KEY"
    BY <1>5 DEF OpenKey, card, Working
  <2>2. KeyLineTrue' /\ (keyLine'.status = "MISSING" => CardKey'.status = "MISSING")
    BY <1>1, <2>1, ResolveIsTrue DEF KeyLineTrue, CardKey
  <2>3. CASE Continue(arm, "KEYCOPY0") /\ keyLine'.status = "MISSING"
    <3>1. arm'.phase = "KEYCOPY0" /\ arm'.command = "KEY"
      BY <1>1, <2>1, <2>3 DEF Continue, Arms
    <3> QED BY <1>4, <2>1, <2>2, <2>3, <3>1 DEF KeyCopiesAgree, ExportBound, CardKey
  <2>4. CASE \E s \in {"OK", "KEY_ERROR"} : Finish(arm, s)
    BY <1>1, <1>4, <2>1, <2>2, <2>4, AnswerEnds DEF CardKey
  <2>5. CASE keyLine'.status = "MISSING"
    BY <1>5, <2>3, <2>5 DEF OpenKey
  <2>6. CASE keyLine'.status # "MISSING"
    <3>1. keyLine'.status = "READY" => Finish(arm, "OK")
      BY <1>5 DEF OpenKey
    <3>2. keyLine'.status # "READY" => Finish(arm, "KEY_ERROR")
      BY <1>5, <2>6 DEF OpenKey
    <3> QED BY <2>4, <3>1, <3>2
  <2> QED BY <2>5, <2>6
<1>6. CASE WriteKeyCopy0
  <2>1. CardKey.status = "MISSING"
    BY <1>6 DEF WriteKeyCopy0, KeyInv, KeyCopiesAgree
  <2>2. CASE keyFiles' = [keyFiles EXCEPT ![0] = KeyRecord] /\ Continue(arm, "KEYCOPY1")
             /\ UNCHANGED keyLine
    <3>1. arm'.phase = "KEYCOPY1" /\ arm'.command = "KEY"
      BY <1>1, <1>6, <2>2 DEF Continue, Arms, WriteKeyCopy0, KeyInv, KeyCopiesAgree
    <3>2. KeyCopiesAgree'
      <4>1. keyFiles[1].status = "MISSING"
        BY <1>1, <2>1 DEF CardKey, ResolvedKey, KeyFiles
      <4>2. keyFiles'[0] = KeyRecord /\ keyFiles'[1] = keyFiles[1]
        BY <1>1, <2>2
      <4> QED BY <1>2, <3>1, <4>1, <4>2 DEF KeyCopiesAgree, KeyRecord
    <3>3. KeyLineTrue'
      BY <2>1, <2>2 DEF KeyInv, KeyLineTrue, KeyOf
    <3> QED BY <1>4, <2>1, <3>1, <3>2, <3>3 DEF ExportBound, ExportPhases
  <2>3. CASE UNCHANGED keyFiles /\ ResolveKey(keyFiles, keyLine.config)
             /\ Finish(arm, "KEY_ERROR")
    BY <1>1, <1>4, <2>1, <2>3, AnswerEnds, ResolveIsTrue DEF KeyLineTrue, CardKey
  <2> QED BY <1>6, <2>2, <2>3 DEF WriteKeyCopy0
<1>7. CASE WriteKeyCopy1
  <2>1. keyFiles[0] = KeyOf(job.seed) /\ keyFiles[1].status = "MISSING"
    BY <1>3, <1>7 DEF WriteKeyCopy1, KeyInv, KeyCopiesAgree
  <2>2. \/ keyFiles' = [keyFiles EXCEPT ![1] = KeyRecord] /\ ResolveKey(keyFiles', keyLine.config)
        \/ UNCHANGED keyFiles /\ ResolveKey(keyFiles, keyLine.config)
    BY <1>7 DEF WriteKeyCopy1
  <2>3. UNCHANGED CardKey
    BY <1>1, <1>3, <2>1, <2>2, SecondCopy DEF CardKey
  <2>4. KeyLineTrue'
    BY <1>1, <2>2, ResolveIsTrue DEF KeyLineTrue, CardKey
  <2>5. \E s : Finish(arm, s)
    BY <1>7 DEF WriteKeyCopy1
  <2> QED BY <1>1, <1>4, <2>3, <2>4, <2>5, AnswerEnds
<1> QED BY <1>5, <1>6, <1>7

\* The file an export publishes has the envelope that was latched.
LEMMA PublishKeepsKey ==
  ASSUME KeyInv, PublishExport
  PROVE  KeyKept
<1> USE DEF KeyKept
<1>1. arm \in Arms /\ archives \in [Ids -> Files] /\ UNCHANGED <<job, keyLine, keyFiles>>
  BY DEF PublishExport, Quiet, workVars, KeyInv, TypeInv, TypeOK, StorageTypeOK
<1>2. KeyLineTrue' /\ UNCHANGED CardKey
  BY <1>1 DEF KeyInv, KeyLineTrue, CardKey
<1>3. CASE UNCHANGED archives
  BY <1>1, <1>2, <1>3, AnswerEnds
     DEF PublishExport, Continue, KeyInv, KeyOutlivesArchives, Exists, CardKey, KeyCopiesAgree,
         ExportBound, ExportPhases, Arms
<1>4. CASE archives' = [archives EXCEPT ![arm.fileId] =
                [header |-> job.header, complete |-> TRUE, payload |-> draft]]
           /\ Continue(arm, "WRITENAME")
  <2>1. arm'.phase = "WRITENAME"
    BY <1>1, <1>4 DEF Continue, Arms
  <2>2. job.header.version = 2 => CardKey = KeyOf(job.header.owner)
    BY DEF PublishExport, Working, KeyInv, ExportBound, ExportPhases
  <2>3. ASSUME KeyOutlivesArchives, NEW id \in Ids, archives'[id].header.version = 2, archives'[id].header.owner # 0,
               Exists(id)'
        PROVE  CardKey' = KeyOf(archives'[id].header.owner)
    <3>1. CASE id = arm.fileId
      <4>1. archives'[id].header = job.header
        BY <1>1, <1>4, <3>1
      <4> QED BY <1>2, <2>2, <2>3, <4>1
    <3>2. CASE id # arm.fileId
      BY <1>1, <1>2, <1>4, <2>3, <3>2 DEF KeyInv, KeyOutlivesArchives, Exists, CardKey, KeyOf
    <3> QED BY <3>1, <3>2
  <2>4. KeyOutlivesArchives => KeyOutlivesArchives'
    BY <2>3 DEF KeyOutlivesArchives, CardKey, KeyOf
  <2> QED BY <1>2, <2>1, <2>4 DEF KeyCopiesAgree, ExportBound, ExportPhases
<1> QED BY <1>3, <1>4 DEF PublishExport

\* The other handlers leave the key alone; an export under way keeps its
\* envelope, and an archive may go but never changes.
LEMMA OthersKeepKey ==
  ASSUME KeyInv, StorageStep,
         ~(Latch \/ OpenKey \/ WriteKeyCopy0 \/ WriteKeyCopy1 \/ PublishExport)
  PROVE  KeyKept
<1> USE DEF KeyKept
<1> DEFINE Other == \/ Cancel \/ OpenCatalog \/ ScanEntry \/ EndScan \/ DeleteArchive \/ DropName0
                     \/ DropName1 \/ OpenRename \/ RemoveOldName \/ PlaceName \/ OpenExport
                     \/ OpenImport \/ WriteHeader \/ ReadHeader \/ Transfer \/ Close \/ PublishImport
<1>1. arm \in Arms /\ archives \in [Ids -> Files] /\ NoFile.header.version = 0
  BY DEF KeyInv, TypeInv, TypeOK, StorageTypeOK, NoFile, NoHeader
<1>2. PublishAck \/ Other
  BY DEF StorageStep
<1>3. UNCHANGED <<keyLine, keyFiles>>
  BY <1>2 DEF PublishAck, Cancel, OpenCatalog, ScanEntry, EndScan, DeleteArchive, DropName0,
              DropName1, DropName, OpenRename, RemoveOldName, PlaceName, OpenExport, OpenImport,
              WriteHeader, ReadHeader, Transfer, Close, PublishImport, Quiet, card
<1>4. UNCHANGED archives \/ archives' = [archives EXCEPT ![arm.fileId] = NoFile]
  BY <1>2 DEF PublishAck, Cancel, OpenCatalog, ScanEntry, EndScan, DeleteArchive, DropName0,
              DropName1, DropName, OpenRename, RemoveOldName, PlaceName, OpenExport, OpenImport,
              WriteHeader, ReadHeader, Transfer, Close, PublishImport, card
<1>5. KeyLineTrue' /\ UNCHANGED CardKey
  BY <1>3 DEF KeyInv, KeyLineTrue, CardKey
<1>6. KeyOutlivesArchives => KeyOutlivesArchives'
  <2>1. \A id \in Ids : archives'[id] = archives[id] \/ archives'[id] = NoFile
    BY <1>1, <1>4
  <2> QED BY <1>5, <2>1 DEF KeyInv, KeyOutlivesArchives, Exists, CardKey
<1>7. KeyCopiesAgree' /\ ExportBound'
  <2>1. CASE PublishAck
    <3>1. arm'.phase = "IDLE"
      BY <1>1, <2>1 DEF PublishAck, Arms
    <3> QED BY <3>1 DEF KeyCopiesAgree, ExportBound, ExportPhases
  <2>2. ASSUME NEW a \in Arms, NEW s, Finish(a, s)
        PROVE  KeyCopiesAgree' /\ ExportBound'
    BY <2>2, AnswerEnds
  <2>3. ASSUME NEW a \in Arms, Continue(a, "DROPNAME0") \/ Continue(a, "DROPNAME1")
                 \/ Continue(a, "WRITENAME") \/ Continue(a, "PLACENAME")
        PROVE  KeyCopiesAgree' /\ ExportBound'
    <3>1. arm'.phase \in {"DROPNAME0", "DROPNAME1", "WRITENAME", "PLACENAME"}
      BY <2>3 DEF Continue, Arms
    <3> QED BY <3>1 DEF KeyCopiesAgree, ExportBound, ExportPhases
  <2>4. ASSUME NEW a \in Arms, NEW p \in ExportPhases, Continue(a, p), a.command = arm.command,
               arm.command = "EXPORT" => arm.phase \in ExportPhases /\ UNCHANGED job
        PROVE  KeyCopiesAgree' /\ ExportBound'
    <3>1. arm'.phase \notin {"KEYCOPY0", "KEYCOPY1"} /\ arm'.command = arm.command
      BY <2>4 DEF Continue, Arms, ExportPhases
    <3> QED BY <1>5, <2>4, <3>1 DEF KeyInv, KeyCopiesAgree, ExportBound
  <2>5. CASE Cancel
    BY <1>1, <2>2, <2>5 DEF Cancel
  <2>6. CASE OpenCatalog
    <3>1. ASSUME arm' = [arm EXCEPT !.phase = "SCAN"] PROVE arm'.phase = "SCAN"
      BY <1>1, <3>1 DEF Arms
    <3>2. CASE arm'.phase = "SCAN"
      BY <3>2 DEF KeyCopiesAgree, ExportBound, ExportPhases
    <3> QED BY <1>1, <2>2, <2>6, <3>1, <3>2 DEF OpenCatalog
  <2>7. CASE ScanEntry
    <3>1. arm'.phase = "SCAN"
      BY <2>7 DEF ScanEntry, Working
    <3> QED BY <3>1 DEF KeyCopiesAgree, ExportBound, ExportPhases
  <2>8. CASE EndScan
    BY <1>1, <2>2, <2>8 DEF EndScan
  <2>9. CASE DeleteArchive
    BY <1>1, <2>2, <2>3, <2>9 DEF DeleteArchive
  <2>10. CASE DropName0
    <3>1. PICK stays \in BOOLEAN :
            Continue([arm EXCEPT !.status = Cleanup(stays)], "DROPNAME1")
      BY <2>10 DEF DropName0
    <3>2. arm'.phase = "DROPNAME1"
      BY <1>1, <3>1 DEF Continue, Arms
    <3> QED BY <3>2 DEF KeyCopiesAgree, ExportBound, ExportPhases
  <2>11. CASE DropName1
    BY <1>1, <2>2, <2>11 DEF DropName1
  <2>12. CASE OpenRename
    BY <1>1, <2>2, <2>3, <2>12 DEF OpenRename
  <2>13. CASE RemoveOldName
    BY <1>1, <2>2, <2>3, <2>13 DEF RemoveOldName
  <2>14. CASE PlaceName
    BY <1>1, <2>2, <2>14 DEF PlaceName
  <2>15. CASE OpenExport
    <3> DEFINE a == [arm EXCEPT !.fileId = arm.fileId + 1]
    <3>1. arm.phase = "OPEN" /\ arm.fileId + 1 \in 0 .. MaxId + 1 /\ UNCHANGED job
      BY <2>15, BoundsAssumption
         DEF OpenExport, Working, KeyInv, TypeInv, WorkerShape, Ids
    <3>2. a \in Arms /\ a.command = arm.command
      BY <1>1, <3>1 DEF Arms
    <3>3. \/ \E s : Finish(a, s) \/ Finish(arm, s)
          \/ Continue(a, "OPEN") \/ Continue(arm, "HEADER")
      BY <2>15 DEF OpenExport
    <3> HIDE DEF a
    <3> QED BY <1>1, <2>2, <2>4, <3>1, <3>2, <3>3 DEF ExportPhases
  <2>16. CASE OpenImport \/ ReadHeader
    <3>1. arm.command = "IMPORT"
      BY <2>16 DEF OpenImport, ReadHeader, Working
    <3>2. Continue(arm, "HEADER") \/ Continue(arm, "TRANSFER") \/ \E s : Finish(arm, s)
      BY <2>16 DEF OpenImport, ReadHeader
    <3> QED BY <1>1, <2>2, <2>4, <3>1, <3>2 DEF ExportPhases
  <2>17. CASE WriteHeader \/ Close
    <3>1. arm.phase \in ExportPhases /\ UNCHANGED job
      BY <2>17 DEF WriteHeader, Close, Working, ExportPhases, workVars
    <3>2. Continue(arm, "TRANSFER") \/ Continue(arm, "PUBLISH") \/ \E s : Finish(arm, s)
      BY <2>17 DEF WriteHeader, Close
    <3> QED BY <1>1, <2>2, <2>4, <3>1, <3>2 DEF ExportPhases
  <2>18. CASE Transfer
    <3>1. arm.phase \in ExportPhases /\ UNCHANGED job
      BY <2>18 DEF Transfer, Working, ExportPhases
    <3>2. NextSlice \in 0 .. MaxCell
      BY <1>1, <2>18, BoundsAssumption
         DEF Transfer, Working, KeyInv, TypeInv, WorkerShape, NextSlice, Arms
    <3>3. Advanced \in Arms /\ Advanced.command = arm.command
      BY <1>1, <3>2 DEF Advanced, Arms
    <3>4. Continue(Advanced, "CLOSE") \/ Continue(Advanced, "TRANSFER") \/ \E s : Finish(arm, s)
      BY <2>18 DEF Transfer
    <3> QED BY <1>1, <2>2, <2>4, <3>1, <3>3, <3>4 DEF ExportPhases
  <2>19. CASE PublishImport
    BY <1>1, <2>2, <2>19 DEF PublishImport
  <2> QED
    BY <1>2, <2>1, <2>5, <2>6, <2>7, <2>8, <2>9, <2>10, <2>11, <2>12, <2>13, <2>14, <2>15,
       <2>16, <2>17, <2>18, <2>19
<1> QED BY <1>5, <1>6, <1>7

-----------------------------------------------------------------------------
\* No step of the system loses a key.
LEMMA KeyStep ==
  KeyInv /\ [Next]_vars => KeyInv' /\ (KeyOutlivesArchives => KeyOutlivesArchives')
<1> SUFFICES ASSUME KeyInv, [Next]_vars
             PROVE  KeyInv' /\ (KeyOutlivesArchives => KeyOutlivesArchives')
  OBVIOUS
<1>1. TypeInv'
  BY TypeStep DEF KeyInv
<1>2. CASE Worker
  <2>1. StorageStep /\ UNCHANGED ppcLines
    BY <1>2 DEF Worker, StorageNext
  <2> QED BY <1>1, <2>1, LatchKeepsKey, EnsureKeyKeepsKey, PublishKeepsKey, OthersKeepKey
             DEF KeyInv, KeyKept
<1>3. CASE UNCHANGED <<keyLine, arm, job, archives, keyFiles>>
  <2>1. UNCHANGED <<CardKey, KeyRecord>>
    BY <1>3 DEF CardKey, KeyRecord
  <2>2. KeyLineTrue' /\ KeyCopiesAgree' /\ ExportBound'
    BY <1>3, <2>1 DEF KeyInv, KeyLineTrue, KeyCopiesAgree, ExportBound
  <2>3. KeyOutlivesArchives => KeyOutlivesArchives'
    BY <1>3, <2>1 DEF KeyInv, KeyOutlivesArchives, CardKey, Exists
  <2> QED BY <1>1, <2>2, <2>3 DEF KeyInv
<1>4. CASE PowerLoss
  <2>1. /\ arm'.phase = "IDLE" /\ UNCHANGED <<archives, keyFiles>>
        /\ \E c \in Configs : ResolveKey(keyFiles, c)
    BY <1>4 DEF PowerLoss, StorageRestart, IdleArm
  <2>2. KeyLineTrue'
    BY <2>1, ResolveIsTrue DEF KeyLineTrue, CardKey, KeyInv, TypeInv, TypeOK, StorageTypeOK
  <2>3. KeyCopiesAgree' /\ ExportBound'
    BY <2>1 DEF KeyCopiesAgree, ExportBound, ExportPhases
  <2>4. KeyOutlivesArchives => KeyOutlivesArchives'
    BY <2>1 DEF KeyInv, KeyOutlivesArchives, Exists
  <2> QED BY <1>1, <2>2, <2>3, <2>4 DEF KeyInv
<1>5. Game \/ Reset \/ UNCHANGED vars => UNCHANGED <<keyLine, arm, job, archives, keyFiles>>
  BY DEF Game, ClientNext, Reset, vars, mailboxVars, armLines, storageVars, card
<1> QED BY <1>2, <1>3, <1>4, <1>5 DEF Next

\* The console starts without a key.
LEMMA InitKey == Init => KeyInv
<1> SUFFICES ASSUME Init PROVE KeyInv
  OBVIOUS
<1>1. arm.phase = "IDLE" /\ keyLine.status = "MISSING"
  BY DEF Init, StorageInit, IdleArm
<1> QED
  BY <1>1, InitType DEF KeyInv, KeyLineTrue, KeyCopiesAgree, ExportBound, ExportPhases

\* The key line and the copies stay true of each other.
LEMMA KeyAlways == Spec => []KeyInv
  BY InitKey, KeyStep, PTL DEF Spec

\* On a card that came without reboot archives of its own, the key of every
\* reboot archive is on the card in every reachable state: whichever of the two
\* copies EnsureKey could write, whatever a read of them failed to see, and
\* wherever the power failed between the key and the archive made under it.
THEOREM KeyIsKept == NewCards => (Spec => []KeyOutlivesArchives)
<1> SUFFICES ASSUME NewCards PROVE Spec => []KeyOutlivesArchives
  OBVIOUS
<1>1. Init => KeyOutlivesArchives
  BY DEF Init, StorageInit, NewCards, KeyOutlivesArchives
<1> QED BY <1>1, InitKey, KeyStep, PTL DEF Spec

-----------------------------------------------------------------------------
(* The store.                                                              *)

\* The envelope of an export that nobody answered yet is that of the slot: the
\* game leaves both alone until the answer, even a process that took over.
PendingWhole ==
  request.command = "EXPORT" /\ response.ack # request.seq => Holds(snapshot, header.state)

\* What the worker has written of an export is what it was asked to.
DraftWhole ==
  arm.command = "EXPORT" /\ arm.phase \in ExportPhases =>
    /\ job.header = header /\ ValidHeader(header)
    /\ arm.phase \notin {"OPEN", "HEADER"} =>
         \A c \in 1 .. arm.offset : draft[c] = job.header.state
    /\ arm.phase \in {"CLOSE", "PUBLISH"} => arm.offset = MaxCell

Nameless(id) == \A i \in 0 .. 1 : labels[id][i] = NoRecord

\* An export's id is free until it is published; a file that is named is there,
\* under the envelope the name is written for; one whose names go is gone.
TargetKnown ==
  /\ arm.command = "EXPORT" /\ arm.phase \in ExportPhases \ {"OPEN"} =>
       ~Exists(arm.fileId) /\ Nameless(arm.fileId)
  /\ arm.phase \in {"WRITENAME", "PLACENAME"} =>
       /\ arm.command \in {"EXPORT", "RENAME"}
       /\ Exists(arm.fileId) /\ archives[arm.fileId].header = job.header
  /\ arm.phase \in {"DROPNAME0", "DROPNAME1"} => ~Exists(arm.fileId)

StoreInv == ProtocolInv /\ SlotInv /\ KeyInv /\ PendingWhole /\ DraftWhole /\ TargetKnown

-----------------------------------------------------------------------------
(* The worker.                                                             *)

\* An answer ends the export or the rename.
LEMMA AnswerFrees ==
  ASSUME NEW a \in Arms, NEW s, Finish(a, s)
  PROVE  DraftWhole' /\ TargetKnown'
<1>1. arm'.phase = "ACK"
  BY DEF Finish, Arms
<1> QED BY <1>1 DEF DraftWhole, TargetKnown, ExportPhases

\* The request line is the game's, and the worker answers the request in it.
LEMMA WorkerKeepsPending ==
  ASSUME StoreInv, Worker
  PROVE  PendingWhole'
<1>1. UNCHANGED request /\ StorageStep /\ arm \in Arms
  BY DEF Worker, StorageNext, ppcLines, StoreInv, KeyInv, TypeInv, TypeOK, StorageTypeOK
<1>2. arm.phase # "IDLE" => arm.seq = request.seq /\ arm.command = request.command
  BY DEF StoreInv, ProtocolInv, Protocol, WorkerOwes
<1>3. CASE PublishAck
  <2>1. response'.ack = request.seq
    BY <1>2, <1>3 DEF PublishAck
  <2> QED BY <1>1, <2>1 DEF PendingWhole
<1>4. CASE PublishImport \/ snapshot' # snapshot
  <2>1. arm.phase # "IDLE" /\ arm.command = "IMPORT"
    BY <1>1, <1>4, WorkerWritesImports DEF PublishImport, Working
  <2> QED BY <1>1, <1>2, <2>1 DEF PendingWhole
<1>5. CASE ~PublishAck /\ ~PublishImport /\ snapshot' = snapshot
  <2>1. UNCHANGED <<response, header>>
    BY <1>1, <1>5
       DEF StorageStep, Cancel, Latch, OpenKey, WriteKeyCopy0, WriteKeyCopy1,
           OpenCatalog, ScanEntry, EndScan, DeleteArchive, DropName0, DropName1, DropName,
           OpenRename, RemoveOldName, PlaceName, OpenExport, OpenImport, WriteHeader,
           ReadHeader, Transfer, Close, PublishExport, Quiet
  <2> QED BY <1>1, <1>5, <2>1 DEF StoreInv, PendingWhole, Holds
<1> QED BY <1>3, <1>4, <1>5

\* A latched export has a valid envelope and a copy of it.
LEMMA LatchKeepsDraft ==
  ASSUME StoreInv, Latch
  PROVE  DraftWhole' /\ TargetKnown'
<1>1. UNCHANGED header /\ job' = LatchedJob
  BY DEF Latch
<1>2. CASE LatchStatus = "OK"
  <2>1. arm'.phase = "OPEN" /\ arm'.command = request.command
    BY <1>2 DEF Latch, Continue, Latched
  <2>2. TargetKnown'
    BY <2>1 DEF TargetKnown, ExportPhases
  <2>3. arm'.command = "EXPORT" => job'.header = header' /\ ValidHeader(header)
    BY <1>1, <1>2, <2>1 DEF LatchStatus, LatchedJob
  <2> QED BY <1>1, <2>1, <2>2, <2>3 DEF DraftWhole, ValidHeader
<1>3. CASE LatchStatus # "OK"
  <2>1. Latched \in Arms
    BY BoundsAssumption
       DEF StoreInv, KeyInv, TypeInv, TypeOK, MailboxTypeOK, Latched, Requests, Arms,
           ServicePhases, Statuses
  <2> QED BY <1>3, <2>1, AnswerFrees DEF Latch
<1> QED BY <1>2, <1>3

\* In its other phases the worker has no file in hand that the store can see.
LEMMA PhaseFrees ==
  ASSUME arm'.phase \in {"IDLE", "ACK", "SCAN", "KEYCOPY0", "KEYCOPY1"}
  PROVE  DraftWhole' /\ TargetKnown'
BY DEF DraftWhole, TargetKnown, ExportPhases

\* Handlers of the other commands end in such a phase.
LEMMA ServiceFrees ==
  ASSUME StoreInv,
         \/ PublishAck \/ Cancel \/ OpenKey \/ WriteKeyCopy0 \/ WriteKeyCopy1 \/ OpenCatalog
         \/ ScanEntry \/ EndScan \/ DropName1 \/ PlaceName \/ PublishImport
  PROVE  arm'.phase \in {"IDLE", "ACK", "SCAN", "KEYCOPY0", "KEYCOPY1"}
<1>1. arm \in Arms
  BY DEF StoreInv, KeyInv, TypeInv, TypeOK, StorageTypeOK
<1>2. ASSUME NEW s, Finish(arm, s) PROVE arm'.phase = "ACK"
  BY <1>1, <1>2 DEF Finish, Arms
<1>3. ASSUME Continue(arm, "KEYCOPY0") \/ Continue(arm, "KEYCOPY1")
      PROVE  arm'.phase \in {"KEYCOPY0", "KEYCOPY1"}
  BY <1>1, <1>3 DEF Continue, Arms
<1>4. CASE PublishAck
  BY <1>1, <1>4 DEF PublishAck, Arms
<1>5. CASE OpenKey
  <2>1. CASE keyLine'.status = "READY"
    <3>1. Finish(arm, "OK")
      BY <1>5, <2>1 DEF OpenKey
    <3> QED BY <1>2, <3>1
  <2>2. CASE keyLine'.status = "MISSING"
    <3>1. Continue(arm, "KEYCOPY0")
      BY <1>5, <2>2 DEF OpenKey
    <3> QED BY <1>3, <3>1
  <2>3. CASE keyLine'.status # "READY" /\ keyLine'.status # "MISSING"
    <3>1. Finish(arm, "KEY_ERROR")
      BY <1>5, <2>3 DEF OpenKey
    <3> QED BY <1>2, <3>1
  <2> QED BY <2>1, <2>2, <2>3
<1>6. CASE WriteKeyCopy0
  BY <1>2, <1>3, <1>6 DEF WriteKeyCopy0
<1>7. CASE WriteKeyCopy1
  BY <1>2, <1>7 DEF WriteKeyCopy1
<1>8. CASE OpenCatalog
  <2>1. ASSUME arm' = [arm EXCEPT !.phase = "SCAN"] PROVE arm'.phase = "SCAN"
    BY <1>1, <2>1 DEF Arms
  <2> QED BY <1>2, <1>8, <2>1 DEF OpenCatalog
<1>9. CASE ScanEntry
  BY <1>9 DEF ScanEntry, Working
<1>10. CASE Cancel \/ EndScan \/ DropName1 \/ PlaceName \/ PublishImport
  BY <1>2, <1>10 DEF Cancel, EndScan, DropName1, PlaceName, PublishImport
<1> QED BY <1>4, <1>5, <1>6, <1>7, <1>8, <1>9, <1>10

\* A slice is copied from the slot while the export is unanswered.
LEMMA TransferKeepsDraft ==
  ASSUME StoreInv, Transfer
  PROVE  DraftWhole' /\ TargetKnown'
<1>1. /\ arm \in Arms /\ draft \in Memory /\ MaxCell \in Nat /\ arm.phase = "TRANSFER"
      /\ UNCHANGED <<job, header, archives, labels>>
  BY BoundsAssumption
     DEF StoreInv, KeyInv, TypeInv, TypeOK, StorageTypeOK, Transfer, Working, card
<1>2. NextSlice \in Cells /\ NextSlice = arm.offset + 1
  BY <1>1 DEF StoreInv, KeyInv, TypeInv, WorkerShape, NextSlice, Arms, Cells
<1>3. CASE Finish(arm, "IO_ERROR")
  BY <1>1, <1>3, AnswerFrees
<1>4. CASE Continue(Advanced, IF NextSlice = MaxCell THEN "CLOSE" ELSE "TRANSFER")
  <2>1. /\ arm'.phase = IF NextSlice = MaxCell THEN "CLOSE" ELSE "TRANSFER"
        /\ arm'.command = arm.command /\ arm'.fileId = arm.fileId /\ arm'.offset = NextSlice
    BY <1>1, <1>4 DEF Continue, Advanced, Arms
  <2>2. TargetKnown'
    BY <1>1, <2>1 DEF StoreInv, TargetKnown, ExportPhases, Exists, Nameless
  <2>3. CASE arm.command # "EXPORT"
    BY <2>1, <2>2, <2>3 DEF DraftWhole
  <2>4. CASE arm.command = "EXPORT"
    <3>1. draft' = [draft EXCEPT ![NextSlice] = snapshot[NextSlice]]
      BY <1>1, <2>1, <2>4 DEF Transfer, Finish, Arms
    <3>2. /\ job.header = header /\ ValidHeader(header)
          /\ \A c \in 1 .. arm.offset : draft[c] = job.header.state
      BY <1>1, <2>4 DEF StoreInv, DraftWhole, ExportPhases
    <3>3. snapshot[NextSlice] = header.state
      <4>1. request.command = "EXPORT" /\ response.ack # request.seq
        BY <1>1, <2>4 DEF StoreInv, ProtocolInv, Protocol, WorkerOwes
      <4> QED BY <1>2, <4>1 DEF StoreInv, PendingWhole, Holds
    <3>4. ASSUME NEW c \in 1 .. NextSlice PROVE draft'[c] = job.header.state
      <4>1. CASE c = NextSlice
        BY <1>1, <1>2, <3>1, <3>2, <3>3, <4>1 DEF Memory
      <4>2. CASE c # NextSlice
        <5>1. c \in 1 .. arm.offset /\ c \in Cells
          BY <1>1, <1>2, <4>2 DEF Arms, Cells
        <5> QED BY <1>1, <3>1, <3>2, <4>2, <5>1 DEF Memory
      <4> QED BY <4>1, <4>2
    <3>5. arm'.phase = "CLOSE" => arm'.offset = MaxCell
      BY <2>1
    <3> QED BY <1>1, <2>1, <2>2, <3>2, <3>4, <3>5 DEF DraftWhole, ValidHeader
  <2> QED BY <2>3, <2>4
<1> QED BY <1>3, <1>4 DEF Transfer

\* The handlers that open, write, publish, name and remove files.
LEMMA FilesKeepDraft ==
  ASSUME StoreInv,
         \/ DeleteArchive \/ DropName0 \/ OpenRename \/ RemoveOldName \/ OpenExport \/ OpenImport
         \/ WriteHeader \/ ReadHeader \/ Close \/ PublishExport
  PROVE  DraftWhole' /\ TargetKnown'
<1>1. arm \in Arms /\ archives \in [Ids -> Files] /\ WorkerShape
  BY DEF StoreInv, KeyInv, TypeInv, TypeOK, StorageTypeOK
<1>2. ASSUME NEW s, Finish(arm, s) PROVE DraftWhole' /\ TargetKnown'
  BY <1>1, <1>2, AnswerFrees
<1>3. ASSUME NEW p, Continue(arm, p)
      PROVE  /\ arm'.phase = p /\ arm'.command = arm.command /\ arm'.fileId = arm.fileId
             /\ arm'.offset = arm.offset
  BY <1>1, <1>3 DEF Continue, Arms
<1>4. CASE DeleteArchive
  <2>1. arm.command = "DELETE" /\ arm.fileId \in Ids
    BY <1>1, <1>4 DEF DeleteArchive, Working, WorkerShape
  <2>2. CASE archives' = [archives EXCEPT ![arm.fileId] = NoFile] /\ Continue(arm, "DROPNAME0")
    <3>1. arm'.phase = "DROPNAME0" /\ archives'[arm'.fileId] = NoFile
      BY <1>1, <1>3, <2>1, <2>2
    <3> QED BY <3>1 DEF DraftWhole, TargetKnown, ExportPhases, Exists
  <2> QED BY <1>2, <1>4, <2>2 DEF DeleteArchive
<1>5. CASE DropName0
  <2>1. PICK stays \in BOOLEAN :
          Continue([arm EXCEPT !.status = Cleanup(stays)], "DROPNAME1")
    BY <1>5 DEF DropName0
  <2>2. arm'.phase = "DROPNAME1" /\ arm'.fileId = arm.fileId
    BY <1>1, <2>1 DEF Continue, Arms
  <2>3. ~Exists(arm.fileId) /\ UNCHANGED archives
    BY <1>5 DEF DropName0, DropName, StoreInv, TargetKnown
  <2> QED BY <2>2, <2>3 DEF DraftWhole, TargetKnown, ExportPhases, Exists
<1>6. CASE OpenRename
  <2>1. CASE /\ RenameStatus = "OK" /\ Continue(arm, "WRITENAME")
             /\ job' = [job EXCEPT !.header = archives[arm.fileId].header]
    <3>1. Exists(arm.fileId)
      BY <2>1 DEF RenameStatus
    <3>2. /\ arm'.phase = "WRITENAME" /\ arm'.command = "RENAME" /\ arm'.fileId = arm.fileId
          /\ UNCHANGED archives
      BY <1>3, <1>6, <2>1 DEF OpenRename, Working, card
    <3>3. job'.header = archives[arm.fileId].header
      BY <2>1 DEF StoreInv, KeyInv, TypeInv, TypeOK, StorageTypeOK, Jobs
    <3> QED BY <3>1, <3>2, <3>3 DEF DraftWhole, TargetKnown, ExportPhases, Exists
  <2> QED BY <1>2, <1>6, <2>1 DEF OpenRename
<1>7. CASE RemoveOldName
  <2>1. CASE Continue(arm, "PLACENAME")
    <3>1. /\ arm'.phase = "PLACENAME" /\ arm'.command = arm.command /\ arm'.fileId = arm.fileId
          /\ UNCHANGED <<archives, job>>
      BY <1>3, <1>7, <2>1 DEF RemoveOldName, workVars
    <3>2. /\ arm.command \in {"EXPORT", "RENAME"} /\ Exists(arm.fileId)
          /\ archives[arm.fileId].header = job.header
      BY <1>7 DEF RemoveOldName, StoreInv, TargetKnown
    <3> QED BY <3>1, <3>2 DEF DraftWhole, TargetKnown, ExportPhases, Exists
  <2> QED BY <1>2, <1>7, <2>1 DEF RemoveOldName
<1>8. CASE OpenExport
  <2>1. /\ arm.phase = "OPEN" /\ arm.command = "EXPORT" /\ UNCHANGED <<job, header, archives, labels>>
        /\ job.header = header /\ ValidHeader(header)
    BY <1>8 DEF OpenExport, Working, StoreInv, DraftWhole, ExportPhases
  <2>2. ASSUME NEW a \in Arms, Continue(a, "OPEN")
        PROVE  DraftWhole' /\ TargetKnown'
    <3>1. arm'.phase = "OPEN"
      BY <2>2 DEF Continue, Arms
    <3> QED BY <2>1, <3>1 DEF DraftWhole, TargetKnown, ExportPhases, ValidHeader
  <2>3. CASE ~Taken(arm.fileId) /\ Continue(arm, "HEADER")
    <3>1. arm'.phase = "HEADER" /\ arm'.fileId = arm.fileId
      BY <1>3, <2>3
    <3>2. ~Exists(arm.fileId) /\ Nameless(arm.fileId)
      BY <2>3 DEF Taken, Nameless
    <3> QED
      BY <2>1, <3>1, <3>2 DEF DraftWhole, TargetKnown, ExportPhases, ValidHeader, Exists, Nameless
  <2>4. [arm EXCEPT !.fileId = arm.fileId + 1] \in Arms
    <3>1. arm.fileId + 1 \in 0 .. MaxId + 1
      BY <1>1, <2>1, BoundsAssumption DEF WorkerShape, Ids
    <3> QED BY <1>1, <3>1 DEF Arms
  <2>5. CASE \E s : Finish([arm EXCEPT !.fileId = arm.fileId + 1], s)
    BY <2>4, <2>5, AnswerFrees
  <2> QED BY <1>2, <1>8, <2>2, <2>3, <2>4, <2>5 DEF OpenExport
<1>9. CASE OpenImport \/ ReadHeader
  <2>1. arm.command = "IMPORT"
    BY <1>9 DEF OpenImport, ReadHeader, Working
  <2>2. ASSUME NEW p \in {"HEADER", "TRANSFER"}, Continue(arm, p)
        PROVE  DraftWhole' /\ TargetKnown'
    BY <1>3, <2>1, <2>2 DEF DraftWhole, TargetKnown
  <2> QED BY <1>2, <1>9, <2>2 DEF OpenImport, ReadHeader
<1>10. CASE WriteHeader \/ Close
  <2>1. /\ UNCHANGED <<job, header, archives, labels, draft>>
        /\ arm.phase \in {"HEADER", "CLOSE"}
        /\ \/ Continue(arm, "TRANSFER") /\ arm.phase = "HEADER" /\ arm.offset = 0
           \/ Continue(arm, "PUBLISH") /\ arm.phase = "CLOSE"
           \/ \E s : Finish(arm, s)
    BY <1>1, <1>10 DEF WriteHeader, Close, Working, workVars, card, WorkerShape
  <2>2. CASE Continue(arm, "TRANSFER") /\ arm.phase = "HEADER" /\ arm.offset = 0
    BY <1>3, <2>1, <2>2
       DEF StoreInv, DraftWhole, TargetKnown, ExportPhases, ValidHeader, Exists, Nameless
  <2>3. CASE Continue(arm, "PUBLISH") /\ arm.phase = "CLOSE"
    BY <1>3, <2>1, <2>3
       DEF StoreInv, DraftWhole, TargetKnown, ExportPhases, ValidHeader, Exists, Nameless
  <2> QED BY <1>2, <2>1, <2>2, <2>3
<1>11. CASE PublishExport
  <2>1. arm.command = "EXPORT" /\ arm.fileId \in Ids /\ UNCHANGED job
    BY <1>1, <1>11 DEF PublishExport, Working, WorkerShape, workVars
  <2>2. CASE /\ Continue(arm, "WRITENAME")
             /\ archives' = [archives EXCEPT ![arm.fileId] =
                  [header |-> job.header, complete |-> TRUE, payload |-> draft]]
    <3>1. archives'[arm.fileId] = [header |-> job.header, complete |-> TRUE, payload |-> draft]
      BY <1>1, <2>1, <2>2
    <3>2. archives'[arm.fileId] # NoFile
      BY <3>1 DEF NoFile
    <3>3. archives'[arm.fileId].header = job.header
      BY <3>1
    <3>4. arm'.phase = "WRITENAME" /\ arm'.command = "EXPORT" /\ arm'.fileId = arm.fileId
      BY <1>3, <2>1, <2>2
    <3> QED BY <2>1, <3>2, <3>3, <3>4 DEF DraftWhole, TargetKnown, ExportPhases, Exists
  <2> QED BY <1>2, <1>11, <2>2 DEF PublishExport
<1> QED BY <1>4, <1>5, <1>6, <1>7, <1>8, <1>9, <1>10, <1>11

-----------------------------------------------------------------------------
(* The game, and the invariant.                                            *)

\* The game writes the slot, the envelope and the request line only when no
\* export is under way, and asks for one only for the slot as it is.
LEMMA GameKeepsStore ==
  ASSUME StoreInv, Game
  PROVE  PendingWhole' /\ DraftWhole' /\ TargetKnown'
<1>1. /\ UNCHANGED <<arm, job, draft, archives, labels, response>> /\ ClientNext
      /\ ppc \in Ppcs /\ request \in Requests /\ snapshot \in Memory
  BY DEF Game, storageVars, workVars, card, ClientNext, armLines, StoreInv, KeyInv, TypeInv,
         TypeOK, MailboxTypeOK, ClientTypeOK
<1>2. TargetKnown'
  BY <1>1 DEF StoreInv, TargetKnown, Exists, Nameless
<1>3. DraftWhole' \/ header' # header
  BY <1>1 DEF StoreInv, DraftWhole, ValidHeader
<1>4. ~ppc.slotInit => ppc.command = "NONE"
  BY DEF StoreInv, ProtocolInv, Protocol, StartupOrder
<1>5. ppc.initialized => ppc.seq = request.seq
  BY DEF StoreInv, ProtocolInv, Protocol, StartupOrder
<1>6. MenuFree => response.ack = request.seq /\ arm.phase = "IDLE"
  BY DEF MenuFree, StorageInFlight, StoreInv, ProtocolInv, Protocol, StartupOrder, WorkerOwes
<1>7. CASE RequestExport
  <2>1. arm.phase = "IDLE" /\ slot.raw /\ Coherent(snapshot) /\ UNCHANGED snapshot
    BY <1>6, <1>7 DEF RequestExport, CanBegin
  <2>2. DraftWhole'
    BY <1>1, <2>1 DEF DraftWhole, ExportPhases
  <2>3. header'.state = snapshot[1]
    BY <1>7 DEF RequestExport
  <2>4. Holds(snapshot', header'.state)
    BY <2>1, <2>3 DEF Coherent, Holds
  <2> QED BY <1>2, <2>2, <2>4 DEF PendingWhole
<1>8. CASE InitializeStorage
  <2>1. UNCHANGED <<header, snapshot>> /\ request'.command = request.command
        /\ request'.seq = request.seq
    BY <1>1, <1>8 DEF InitializeStorage, Requests
  <2> QED BY <1>1, <1>2, <1>3, <2>1 DEF StoreInv, PendingWhole, Holds
<1>9. CASE InitializeSlot
  <2>1. UNCHANGED header /\ response.ack = request.seq
    BY <1>5, <1>9 DEF InitializeSlot, StorageStartupReady, StoreInv, ProtocolInv, Protocol,
                      StartupOrder
  <2>2. UNCHANGED request \/ request'.command = "KEY"
    BY <1>1, <1>9 DEF InitializeSlot, Issue, Requests
  <2> QED BY <1>1, <1>2, <1>3, <2>1, <2>2 DEF PendingWhole
<1>10. CASE ServiceMenu \/ ClearSelectedSlot \/ ServiceStorage
  <2>1. UNCHANGED header /\ UNCHANGED request
    BY <1>10 DEF ServiceMenu, ClearSelectedSlot, ServiceStorage, CompleteKey, CompleteDelete,
                 CompleteCatalog, CompleteExport, CompleteRename, CompleteImport, ppcLines
  <2>2. response.ack = request.seq
    <3>1. CASE ServiceMenu \/ ClearSelectedSlot
      BY <3>1 DEF ServiceMenu, ClearSelectedSlot, MenuFree, StorageInFlight, StoreInv,
                  ProtocolInv, Protocol, StartupOrder
    <3>2. CASE ServiceStorage
      <4>1. ppc.command # "NONE" /\ response.ack = ppc.seq
        BY <3>2 DEF ServiceStorage, CompleteKey, CompleteDelete, CompleteCatalog,
                    CompleteExport, CompleteRename, CompleteImport, Answered
      <4> QED BY <1>4, <1>5, <4>1 DEF StoreInv, ProtocolInv, Protocol, StartupOrder
    <3> QED BY <1>10, <3>1, <3>2
  <2> QED BY <1>1, <1>2, <1>3, <2>1, <2>2 DEF PendingWhole
<1>11. CASE RequestImport \/ RequestRename \/ RequestCatalog \/ ConfirmDelete
  <2>1. UNCHANGED header
    BY <1>11 DEF RequestImport, RequestRename, RequestCatalog, ConfirmDelete
  <2>2. request'.command # "EXPORT"
    BY <1>1, <1>11 DEF RequestImport, RequestRename, RequestCatalog, ConfirmDelete, Issue,
                       Requests
  <2> QED BY <1>2, <1>3, <2>1, <2>2 DEF PendingWhole
<1>12. CASE RequestMenu("Save") \/ RequestMenu("Load") \/ OpenDeletePrompt \/ CancelPrompt
  <2>1. UNCHANGED <<request, header, snapshot>>
    BY <1>12 DEF RequestMenu, OpenDeletePrompt, CancelPrompt, ppcLines
  <2> QED BY <1>1, <1>2, <1>3, <2>1 DEF StoreInv, PendingWhole, Holds
<1> QED
  BY <1>1, <1>7, <1>8, <1>9, <1>10, <1>11, <1>12 DEF ClientNext, Tick, Player

\* No step of the system breaks the invariant.
LEMMA StoreStep == StoreInv /\ [Next]_vars => StoreInv'
<1> SUFFICES ASSUME StoreInv, [Next]_vars PROVE StoreInv'
  OBVIOUS
<1>1. ProtocolInv' /\ SlotInv' /\ KeyInv'
  BY ProtocolStep, SlotStep, KeyStep DEF StoreInv
<1>2. CASE Worker
  <2>1. StorageStep
    BY <1>2 DEF Worker, StorageNext
  <2>2. DraftWhole' /\ TargetKnown'
    BY <2>1, LatchKeepsDraft, TransferKeepsDraft, FilesKeepDraft, ServiceFrees, PhaseFrees
       DEF StorageStep
  <2> QED BY <1>1, <1>2, <2>2, WorkerKeepsPending DEF StoreInv
<1>3. CASE Game
  BY <1>1, <1>3, GameKeepsStore DEF StoreInv
<1>4. CASE Reset \/ UNCHANGED vars
  <2>1. UNCHANGED <<arm, job, draft, archives, labels, response, request, header, snapshot>>
    BY <1>4 DEF Reset, vars, mailboxVars, ppcLines, armLines, storageVars, workVars, card
  <2>2. PendingWhole' /\ DraftWhole' /\ TargetKnown'
    BY <2>1 DEF StoreInv, PendingWhole, DraftWhole, TargetKnown, Holds, ValidHeader, Exists,
                Nameless
  <2> QED BY <1>1, <2>2 DEF StoreInv
<1>5. CASE PowerLoss
  <2>1. arm'.phase = "IDLE" /\ response'.ack = request'.seq
    BY <1>5 DEF PowerLoss, StorageRestart, IdleArm, NoRequest, NoResponse
  <2>2. DraftWhole' /\ TargetKnown'
    BY <2>1, PhaseFrees
  <2> QED BY <1>1, <2>1, <2>2 DEF StoreInv, PendingWhole
<1> QED BY <1>2, <1>3, <1>4, <1>5 DEF Next

\* It holds when the console starts.
LEMMA InitStore == Init => StoreInv
<1> SUFFICES ASSUME Init PROVE StoreInv
  OBVIOUS
<1>1. SlotInv
  BY DEF Init, ClientInit, FreshPpc, EmptySlot, SlotInv, SlotIntact
<1>2. arm.phase = "IDLE" /\ response.ack = request.seq
  BY DEF Init, StorageInit, IdleArm, NoRequest, NoResponse
<1>3. PendingWhole /\ DraftWhole /\ TargetKnown
  BY <1>2 DEF PendingWhole, DraftWhole, TargetKnown, ExportPhases
<1> QED BY <1>1, <1>3, InitProtocol, InitKey DEF StoreInv

-----------------------------------------------------------------------------
(* Every step of the worker is a step of the abstract store, or none.      *)

StoreStays == [id \in Ids |-> StoreOf(id)]' = [id \in Ids |-> StoreOf(id)]
KeyStays == UNCHANGED ResolvedKey(keyFiles)

\* An update of one file is an update of the store at its id.
LEMMA OneFile ==
  ASSUME NEW id \in Ids, \A other \in Ids \ {id} : StoreOf(other)' = StoreOf(other)
  PROVE  [i \in Ids |-> StoreOf(i)]' = [[i \in Ids |-> StoreOf(i)] EXCEPT ![id] = StoreOf(id)']
<1>1. [i \in Ids |-> StoreOf(i)]' = [i \in Ids |-> StoreOf(i)']
  OBVIOUS
<1>2. [i \in Ids |-> StoreOf(i)'] = [[i \in Ids |-> StoreOf(i)] EXCEPT ![id] = StoreOf(id)']
  OBVIOUS
<1> QED BY <1>1, <1>2

\* A file and its names decide what the store holds under its id.
LEMMA SameFile ==
  ASSUME NEW id \in Ids, archives'[id] = archives[id], labels'[id] = labels[id]
  PROVE  StoreOf(id)' = StoreOf(id)
BY DEF StoreOf, Exists, LatestName, LatestCopy, NamesOf

\* Publishing a whole file under a free id is publishing it in the store.
LEMMA PublishImplements ==
  ASSUME StoreInv, PublishExport
  PROVE  (\E id \in Ids : Store!Publish(id)) \/ (StoreStays /\ KeyStays)
<1>1. /\ archives \in [Ids -> Files] /\ arm.fileId \in Ids /\ arm.command = "EXPORT"
      /\ arm.phase = "PUBLISH" /\ UNCHANGED <<labels, keyFiles>> /\ KeyStays
  BY DEF PublishExport, Working, StoreInv, KeyInv, TypeInv, TypeOK, StorageTypeOK, WorkerShape,
         KeyStays
<1>2. PICK id \in Ids : id = arm.fileId
  BY <1>1
<1>3. PICK file : file = [header |-> job.header, complete |-> TRUE, payload |-> draft]
  OBVIOUS
<1>4. ~Exists(id) /\ Nameless(id) /\ arm.offset = MaxCell /\ ValidHeader(job.header)
      /\ \A c \in 1 .. arm.offset : draft[c] = job.header.state
  BY <1>1, <1>2 DEF StoreInv, TargetKnown, DraftWhole, ExportPhases
<1>5. CASE UNCHANGED archives
  BY <1>1, <1>5, SameFile DEF StoreStays
<1>6. CASE archives' = [archives EXCEPT ![id] = file]
  <2>1. archives'[id] = file /\ file # NoFile
    BY <1>1, <1>3, <1>6 DEF NoFile
  <2>2. WholeFile(file)
    BY <1>3, <1>4 DEF WholeFile, Holds, Cells
  <2>3. \A h : LatestName(id, h)' = NoRecord
    BY <1>1, <1>4 DEF LatestName, NamesOf, Nameless, NoRecord
  <2>4. StoreOf(id) = Gone
    BY <1>4 DEF StoreOf
  <2>5. StoreOf(id)' = [file |-> file, name |-> NoName]
    BY <2>1, <2>3 DEF StoreOf, Exists, NoRecord
  <2>6. \A other \in Ids \ {id} : StoreOf(other)' = StoreOf(other)
    BY <1>1, <1>6, SameFile
  <2>7. [i \in Ids |-> StoreOf(i)]' = [[i \in Ids |-> StoreOf(i)] EXCEPT ![id] = StoreOf(id)']
    BY <2>6, OneFile
  <2>8. [file |-> file, name |-> NoName] # Gone
    BY <2>1 DEF Gone
  <2>9. [i \in Ids |-> StoreOf(i)]'[id] = StoreOf(id)'
    BY <2>7
  <2>10. UNCHANGED [ready |-> ResolvedKey(keyFiles).status = "READY",
                    id |-> ResolvedKey(keyFiles).id]
    BY <1>1 DEF KeyStays
  <2>11. [i \in Ids |-> StoreOf(i)][id] = Gone
    BY <2>4
  <2>12. WholeFile(StoreOf(id)'.file) /\ StoreOf(id)'.name = NoName /\ StoreOf(id)' # Gone
    BY <2>2, <2>5, <2>8
  <2> HIDE DEF WholeFile, StoreOf, Gone
  <2>13. Store!Publish(id)
    BY <1>1, <1>2, <2>7, <2>9, <2>10, <2>11, <2>12 DEF Store!Publish
  <2> QED BY <2>13
<1> QED BY <1>2, <1>3, <1>5, <1>6 DEF PublishExport

\* Removing the copy that is not the newest does not change the newest name.
LEMMA OldNameGoes ==
  ASSUME StorageTypeOK, NEW id \in Ids, NEW h,
         labels' = [labels EXCEPT ![id][1 - LatestCopy(id, h)] = NoRecord]
  PROVE  LatestName(id, h)' = LatestName(id, h)
<1>1. /\ labels \in [Ids -> [0 .. 1 -> NameRecords]]
      /\ LatestCopy(id, h) \in 0 .. 1 /\ NoRecord.gen = 0
  BY DEF StorageTypeOK, LatestCopy, NoRecord
<1>2. PICK new \in 0 .. 1 : new = LatestCopy(id, h)
  BY <1>1
<1>3. labels'[id][new] = labels[id][new] /\ labels'[id][1 - new] = NoRecord
  BY <1>1, <1>2
<1>4. CASE new = 0
  <2>1. 0 \in NamesOf(id, h) /\ 0 \in NamesOf(id, h)' /\ 1 \notin NamesOf(id, h)'
    BY <1>1, <1>2, <1>3, <1>4 DEF LatestCopy, NamesOf
  <2>2. LatestName(id, h) = labels[id][0] /\ LatestName(id, h)' = labels'[id][0]
    BY <1>2, <1>4, <2>1 DEF LatestName, LatestCopy
  <2> QED BY <1>3, <1>4, <2>2
<1>5. CASE new = 1
  <2>1. 0 \notin NamesOf(id, h)' /\ (1 \in NamesOf(id, h)' <=> 1 \in NamesOf(id, h))
    BY <1>1, <1>3, <1>5 DEF NamesOf
  <2>2. 1 \notin NamesOf(id, h) => NamesOf(id, h) = {}
    BY <1>2, <1>5 DEF LatestCopy, NamesOf
  <2>3. CASE 1 \in NamesOf(id, h)
    <3>1. LatestName(id, h) = labels[id][1] /\ LatestName(id, h)' = labels'[id][1]
      BY <1>2, <1>5, <2>1, <2>3 DEF LatestName, LatestCopy
    <3> QED BY <1>3, <1>5, <3>1
  <2>4. CASE 1 \notin NamesOf(id, h)
    <3>1. NamesOf(id, h) = {} /\ NamesOf(id, h)' = {}
      BY <2>1, <2>2, <2>4 DEF NamesOf
    <3> QED BY <3>1 DEF LatestName
  <2> QED BY <2>3, <2>4
<1> QED BY <1>2, <1>4, <1>5

\* A copy of the next generation in the other place is the newest name.
LEMMA NewNameWins ==
  ASSUME StorageTypeOK, NEW id \in Ids, NEW h, NEW name,
         labels' = [labels EXCEPT ![id][1 - LatestCopy(id, h)] =
                      [gen |-> LatestName(id, h).gen + 1, name |-> name, header |-> h]]
  PROVE  LatestName(id, h)'.name = name
<1>1. /\ labels \in [Ids -> [0 .. 1 -> NameRecords]]
      /\ LatestCopy(id, h) \in 0 .. 1 /\ LatestName(id, h).gen \in Nat
  BY LatestNameType DEF StorageTypeOK, LatestCopy, NameRecords
<1>2. PICK old \in 0 .. 1 : old = LatestCopy(id, h)
  BY <1>1
<1>3. PICK gen \in Nat : gen = LatestName(id, h).gen
  BY <1>1
<1>4. /\ labels'[id][1 - old] = [gen |-> gen + 1, name |-> name, header |-> h]
      /\ labels'[id][old] = labels[id][old]
  BY <1>1, <1>2, <1>3
<1>5. 1 - old \in NamesOf(id, h)'
  BY <1>2, <1>4 DEF NamesOf
<1>6. old \in NamesOf(id, h)' => labels'[id][old].gen = gen
  BY <1>2, <1>3, <1>4 DEF NamesOf, LatestName
<1>7. LatestCopy(id, h)' = 1 - old
  <2>1. CASE old = 0
    <3>1. 0 \in NamesOf(id, h)' => ~(labels'[id][0].gen >= labels'[id][1].gen)
      BY <1>4, <1>6, <2>1
    <3> QED BY <1>5, <2>1, <3>1 DEF LatestCopy
  <2>2. CASE old = 1
    <3>1. 1 \in NamesOf(id, h)' => labels'[id][0].gen >= labels'[id][1].gen
      BY <1>4, <1>6, <2>2
    <3> QED BY <1>5, <2>2, <3>1 DEF LatestCopy
  <2> QED BY <2>1, <2>2
<1>8. LatestName(id, h)' = labels'[id][1 - old]
  BY <1>5, <1>7 DEF LatestName
<1> QED BY <1>4, <1>8

\* A rename is one step of the store, when the new copy is placed.
LEMMA NameImplements ==
  ASSUME StoreInv, RemoveOldName \/ PlaceName
  PROVE  (\E id \in Ids : Store!SetName(id)) \/ (StoreStays /\ KeyStays)
<1>1. /\ StorageTypeOK /\ labels \in [Ids -> [0 .. 1 -> NameRecords]] /\ arm.fileId \in Ids
      /\ arm.command \in {"EXPORT", "RENAME"}
      /\ UNCHANGED <<archives, keyFiles>> /\ KeyStays
      /\ Exists(arm.fileId) /\ archives[arm.fileId].header = job.header
  BY DEF RemoveOldName, PlaceName, StoreInv, KeyInv, TypeInv, TypeOK, StorageTypeOK, WorkerShape,
         KeyStays, TargetKnown
<1>2. PICK id \in Ids : id = arm.fileId
  BY <1>1
<1>3. PICK h : h = job.header
  OBVIOUS
<1>4. CASE UNCHANGED labels
  BY <1>1, <1>4, SameFile DEF StoreStays
<1>5. CASE RemoveOldName /\ labels' # labels
  <2>1. labels' = [labels EXCEPT ![id][1 - LatestCopy(id, h)] = NoRecord]
    BY <1>2, <1>3, <1>5 DEF RemoveOldName
  <2>2. LatestName(id, h)' = LatestName(id, h)
    BY <1>1, <2>1, OldNameGoes
  <2>3. StoreOf(id)' = StoreOf(id)
    BY <1>1, <1>2, <1>3, <2>2 DEF StoreOf, Exists
  <2>4. \A other \in Ids \ {id} : StoreOf(other)' = StoreOf(other)
    BY <1>1, <2>1, SameFile
  <2>5. \A i \in Ids : StoreOf(i)' = StoreOf(i)
    BY <2>3, <2>4
  <2> QED BY <1>1, <2>5 DEF StoreStays
<1>6. CASE PlaceName /\ labels' # labels
  <2>1. labels' = [labels EXCEPT ![id][1 - LatestCopy(id, h)] =
                     [gen |-> LatestName(id, h).gen + 1, name |-> job.name, header |-> h]]
    BY <1>2, <1>3, <1>6 DEF PlaceName
  <2>2. PICK name : name = job.name
    OBVIOUS
  <2>3. LatestName(id, h)'.name = name
    <3>1. labels' = [labels EXCEPT ![id][1 - LatestCopy(id, h)] =
                       [gen |-> LatestName(id, h).gen + 1, name |-> name, header |-> h]]
      BY <2>1, <2>2
    <3> QED BY <1>1, <3>1, NewNameWins
  <2>4. \A other \in Ids \ {id} : StoreOf(other)' = StoreOf(other)
    BY <1>1, <2>1, SameFile
  <2>5. [i \in Ids |-> StoreOf(i)]' = [[i \in Ids |-> StoreOf(i)] EXCEPT ![id] = StoreOf(id)']
    BY <2>4, OneFile
  <2>6. /\ StoreOf(id) = [file |-> archives[id], name |-> LatestName(id, h).name]
        /\ StoreOf(id)' = [file |-> archives[id], name |-> name]
    BY <1>1, <1>2, <1>3, <2>3 DEF StoreOf, Exists
  <2>7. StoreOf(id)' = [StoreOf(id) EXCEPT !.name = name] /\ StoreOf(id) # Gone
    BY <1>1, <1>2, <2>6 DEF Gone, Exists
  <2>8. UNCHANGED [ready |-> ResolvedKey(keyFiles).status = "READY",
                   id |-> ResolvedKey(keyFiles).id]
    BY <1>1 DEF KeyStays
  <2>9. [i \in Ids |-> StoreOf(i)][id] = StoreOf(id)
    OBVIOUS
  <2>10. [[i \in Ids |-> StoreOf(i)] EXCEPT ![id].name = name]
           = [[i \in Ids |-> StoreOf(i)] EXCEPT ![id] = [StoreOf(id) EXCEPT !.name = name]]
    OBVIOUS
  <2> HIDE DEF StoreOf, Gone
  <2>11. Store!SetName(id)
    BY <1>1, <1>2, <2>2, <2>5, <2>7, <2>8, <2>9, <2>10 DEF Store!SetName
  <2> QED BY <2>11
<1> QED BY <1>4, <1>5, <1>6

\* Removing an archive removes it from the store; its names are gone with it.
LEMMA RemoveImplements ==
  ASSUME StoreInv, DeleteArchive \/ DropName0 \/ DropName1
  PROVE  (\E id \in Ids : Store!Remove(id)) \/ (StoreStays /\ KeyStays)
<1>1. /\ archives \in [Ids -> Files] /\ labels \in [Ids -> [0 .. 1 -> NameRecords]]
      /\ UNCHANGED keyFiles /\ KeyStays
  BY DEF DeleteArchive, DropName0, DropName1, DropName, StoreInv, KeyInv, TypeInv, TypeOK,
         StorageTypeOK, KeyStays
<1>2. CASE DropName0 \/ DropName1
  <2>1. ~Exists(arm.fileId) /\ UNCHANGED archives
    BY <1>2 DEF DropName0, DropName1, DropName, StoreInv, TargetKnown
  <2>2. \A i \in Ids : i # arm.fileId => labels'[i] = labels[i]
    BY <1>1, <1>2 DEF DropName0, DropName1, DropName
  <2>3. \A i \in Ids : StoreOf(i)' = StoreOf(i)
    <3> SUFFICES ASSUME NEW i \in Ids PROVE StoreOf(i)' = StoreOf(i)
      OBVIOUS
    <3>1. CASE i = arm.fileId
      BY <2>1, <3>1 DEF StoreOf, Exists
    <3>2. CASE i # arm.fileId
      BY <2>1, <2>2, <3>2, SameFile
    <3> QED BY <3>1, <3>2
  <2> QED BY <1>1, <2>3 DEF StoreStays
<1>3. CASE DeleteArchive /\ UNCHANGED archives
  BY <1>1, <1>3, SameFile DEF DeleteArchive, StoreStays
<1>4. CASE DeleteArchive /\ archives' # archives
  <2>1. /\ archives' = [archives EXCEPT ![arm.fileId] = NoFile] /\ Exists(arm.fileId)
        /\ arm.command = "DELETE" /\ arm.fileId \in Ids /\ UNCHANGED labels
    BY <1>1, <1>4 DEF DeleteArchive, DeleteStatus, Working, StoreInv, KeyInv, TypeInv, WorkerShape
  <2>2. PICK id \in Ids : id = arm.fileId
    BY <2>1
  <2>3. StoreOf(id)' = Gone
    BY <1>1, <2>1, <2>2 DEF StoreOf, Exists
  <2>4. StoreOf(id) # Gone
    BY <2>1, <2>2 DEF StoreOf, Gone, Exists
  <2>5. \A other \in Ids \ {id} : StoreOf(other)' = StoreOf(other)
    BY <1>1, <2>1, <2>2, SameFile
  <2>6. [i \in Ids |-> StoreOf(i)]' = [[i \in Ids |-> StoreOf(i)] EXCEPT ![id] = StoreOf(id)']
    BY <2>5, OneFile
  <2>7. UNCHANGED [ready |-> ResolvedKey(keyFiles).status = "READY",
                   id |-> ResolvedKey(keyFiles).id]
    BY <1>1 DEF KeyStays
  <2> HIDE DEF StoreOf, Gone
  <2>8. Store!Remove(id)
    BY <2>1, <2>2, <2>3, <2>4, <2>6, <2>7 DEF Store!Remove
  <2> QED BY <2>8
<1> QED BY <1>2, <1>3, <1>4

\* The first copy of a key makes the key, the second only repeats it.
LEMMA KeyImplements ==
  ASSUME StoreInv, WriteKeyCopy0 \/ WriteKeyCopy1
  PROVE  Store!CreateKey \/ (StoreStays /\ KeyStays)
<1>1. /\ keyFiles \in [0 .. 1 -> KeyFiles] /\ job.seed \in KeyIds /\ KeyRecord = KeyOf(job.seed)
      /\ UNCHANGED <<archives, labels>>
  BY DEF WriteKeyCopy0, WriteKeyCopy1, StoreInv, KeyInv, TypeInv, TypeOK, StorageTypeOK, Jobs,
         KeyRecord, KeyOf
<1>2. StoreStays
  <2>1. \A i \in Ids : StoreOf(i)' = StoreOf(i)
    BY <1>1, SameFile
  <2> QED BY <2>1 DEF StoreStays
<1>3. CASE UNCHANGED keyFiles
  BY <1>2, <1>3 DEF KeyStays
<1>4. CASE WriteKeyCopy1 /\ keyFiles' # keyFiles
  <2>1. /\ keyFiles[0] = KeyOf(job.seed) /\ keyFiles[1].status = "MISSING"
        /\ keyFiles' = [keyFiles EXCEPT ![1] = KeyOf(job.seed)]
    BY <1>1, <1>4 DEF WriteKeyCopy1, StoreInv, KeyInv, KeyCopiesAgree
  <2> QED BY <1>1, <1>2, <2>1, SecondCopy DEF KeyStays
<1>5. CASE WriteKeyCopy0 /\ keyFiles' # keyFiles
  <2>1. /\ ResolvedKey(keyFiles).status = "MISSING" /\ arm.command = "KEY"
        /\ keyFiles' = [keyFiles EXCEPT ![0] = KeyOf(job.seed)]
    BY <1>1, <1>5 DEF WriteKeyCopy0, StoreInv, KeyInv, KeyCopiesAgree, CardKey
  <2>2. keyFiles[1].status = "MISSING" /\ keyFiles'[1] = keyFiles[1]
    BY <1>1, <2>1 DEF ResolvedKey, KeyFiles
  <2>3. keyFiles'[0] = KeyOf(job.seed)
    BY <1>1, <2>1
  <2>4. ResolvedKey(keyFiles') = KeyOf(job.seed)
    BY <2>2, <2>3 DEF ResolvedKey, KeyOf
  <2>5. ResolvedKey(keyFiles)' = KeyOf(job.seed)
    BY <2>4
  <2>6. [ready |-> ResolvedKey(keyFiles).status = "READY", id |-> ResolvedKey(keyFiles).id]'
          = [ready |-> TRUE, id |-> job.seed]
    <3>1. ResolvedKey(keyFiles)'.status = "READY" /\ ResolvedKey(keyFiles)'.id = job.seed
      BY <2>5 DEF KeyOf
    <3>2. (ResolvedKey(keyFiles)'.status = "READY") = TRUE
      BY <3>1
    <3> QED BY <3>1, <3>2, Zenon
  <2>7. ~[ready |-> ResolvedKey(keyFiles).status = "READY", id |-> ResolvedKey(keyFiles).id].ready
    BY <2>1
  <2>8. UNCHANGED [i \in Ids |-> StoreOf(i)]
    BY <1>2 DEF StoreStays
  <2> HIDE DEF StoreOf
  <2> QED BY <1>1, <2>1, <2>6, <2>7, <2>8 DEF Store!CreateKey
<1> QED BY <1>3, <1>4, <1>5

\* A worker that touches none of the three leaves the store as it is.
LEMMA OthersImplement ==
  ASSUME StorageStep,
         ~(\/ PublishExport \/ RemoveOldName \/ PlaceName \/ DeleteArchive \/ DropName0
           \/ DropName1 \/ WriteKeyCopy0 \/ WriteKeyCopy1)
  PROVE  UNCHANGED <<archives, labels, keyFiles>>
BY DEF StorageStep, PublishAck, Cancel, Latch, OpenKey, OpenCatalog, ScanEntry, EndScan,
       OpenRename, OpenExport, OpenImport, WriteHeader, ReadHeader, Transfer, Close,
       PublishImport, card

\* A step that leaves the card's files alone, or keeps what they stand for.
LEMMA Stutters ==
  ASSUME UNCHANGED <<archives, labels, keyFiles>> \/ (StoreStays /\ KeyStays)
  PROVE  UNCHANGED Store!vars
<1>1. StoreStays
  <2>1. CASE UNCHANGED <<archives, labels, keyFiles>>
    <3>1. \A i \in Ids : StoreOf(i)' = StoreOf(i)
      BY <2>1, SameFile
    <3> QED BY <3>1 DEF StoreStays
  <2> QED BY <2>1
<1>2. KeyStays
  BY DEF KeyStays
<1>3. UNCHANGED [ready |-> ResolvedKey(keyFiles).status = "READY",
                 id |-> ResolvedKey(keyFiles).id]
  BY <1>2 DEF KeyStays
<1> HIDE DEF StoreOf
<1> QED BY <1>1, <1>3 DEF StoreStays, Store!vars

\* Every step of the system is a step of the store or leaves it as it is.
LEMMA StepImplementsStore ==
  ASSUME StoreInv, [Next]_vars
  PROVE  [Store!StoreNext]_(Store!vars)
<1>1. CASE Worker
  <2>1. StorageStep
    BY <1>1 DEF Worker, StorageNext
  <2>2. CASE PublishExport
    BY <2>2, PublishImplements, Stutters DEF Store!StoreNext
  <2>3. CASE RemoveOldName \/ PlaceName
    BY <2>3, NameImplements, Stutters DEF Store!StoreNext
  <2>4. CASE DeleteArchive \/ DropName0 \/ DropName1
    BY <2>4, RemoveImplements, Stutters DEF Store!StoreNext
  <2>5. CASE WriteKeyCopy0 \/ WriteKeyCopy1
    BY <2>5, KeyImplements, Stutters DEF Store!StoreNext
  <2> QED BY <2>1, <2>2, <2>3, <2>4, <2>5, OthersImplement, Stutters
<1>2. CASE Game \/ Reset \/ PowerLoss \/ UNCHANGED vars
  <2>1. UNCHANGED <<archives, labels, keyFiles>>
    BY <1>2 DEF Game, Reset, PowerLoss, StorageRestart, vars, storageVars, card
  <2> QED BY <2>1, Stutters
<1> QED BY <1>1, <1>2 DEF Next

\* The card starts without names and without a key.
LEMMA InitImplementsStore == Init => Store!StoreInit
<1> SUFFICES ASSUME Init PROVE Store!StoreInit
  OBVIOUS
<1>1. /\ \A id \in Ids : \A h : NamesOf(id, h) = {}
      /\ keyFiles = [i \in 0 .. 1 |-> [status |-> "MISSING", id |-> 0]]
  BY DEF Init, StorageInit, NamesOf, NoRecord
<1>2. \A id \in Ids : StoreOf(id).name = NoName
  BY <1>1 DEF StoreOf, Gone, LatestName, NoRecord
<1>3. ResolvedKey(keyFiles).status = "MISSING"
  BY <1>1 DEF ResolvedKey
<1> QED BY <1>2, <1>3 DEF Store!StoreInit

\* The card implements the store: archives appear whole, never change, are
\* renamed and removed as one step each and the card gets one key, once, for any
\* number of files and slices, through every failure, reset and power cut.
THEOREM StoreIsImplemented == Spec => StoreImplemented
<1>1. Spec => Store!StoreInit /\ [][Store!StoreNext]_(Store!vars)
  BY InitStore, InitImplementsStore, StoreStep, StepImplementsStore, PTL DEF Spec
<1> QED BY <1>1 DEF StoreImplemented, Store!StoreSpec

\* Every archive that appears holds the whole state its envelope was made for.
LEMMA StepPublishesWhole ==
  ASSUME StoreInv, [Next]_vars, NEW id \in Ids, ~Exists(id), Exists(id)'
  PROVE  WholeFile(archives'[id])
<1>1. PublishExport /\ archives' = [archives EXCEPT ![arm.fileId] =
         [header |-> job.header, complete |-> TRUE, payload |-> draft]]
  <2>1. archives' # archives
    BY DEF Exists
  <2>2. StorageStep
    BY <2>1 DEF Next, Worker, StorageNext, Game, Reset, PowerLoss, StorageRestart, vars,
                storageVars, card
  <2>3. PublishExport \/ DeleteArchive
    BY <2>1, <2>2, OthersImplement
       DEF RemoveOldName, PlaceName, DropName0, DropName1, DropName, WriteKeyCopy0, WriteKeyCopy1
  <2>4. ~DeleteArchive
    <3>1. SUFFICES ASSUME DeleteArchive PROVE FALSE
      OBVIOUS
    <3>2. archives' = [archives EXCEPT ![arm.fileId] = NoFile] /\ archives \in [Ids -> Files]
      BY <2>1, <3>1 DEF DeleteArchive, StoreInv, KeyInv, TypeInv, TypeOK, StorageTypeOK
    <3> QED BY <3>2 DEF Exists
  <2> QED BY <2>1, <2>3, <2>4 DEF PublishExport
<1>2. /\ archives \in [Ids -> Files] /\ ValidHeader(job.header)
      /\ \A c \in Cells : draft[c] = job.header.state
  BY <1>1 DEF PublishExport, Working, StoreInv, KeyInv, TypeInv, TypeOK, StorageTypeOK,
              DraftWhole, ExportPhases, Cells
<1>3. archives'[id] = [header |-> job.header, complete |-> TRUE, payload |-> draft]
  <2>1. id = arm.fileId
    BY <1>1, <1>2 DEF Exists
  <2> QED BY <1>1, <1>2, <2>1
<1> QED BY <1>2, <1>3 DEF WholeFile, Holds

\* Whatever the player does while the slices are written, and whoever owns the
\* slot by then, a published archive is one state and the one its envelope names.
THEOREM ArchivesAreWhole == Spec => PublishedWhole
<1>1. StoreInv /\ [Next]_vars =>
        [\A id \in Ids : ~Exists(id) /\ Exists(id)' => WholeFile(archives'[id])]_vars
  BY StepPublishesWhole
<1> QED BY <1>1, InitStore, StoreStep, PTL DEF Spec, PublishedWhole
=============================================================================
