--------------------------- MODULE LmStateTypeProofs ---------------------------
(***************************************************************************)
(* Type correctness of LmStateSystem, for every number of processes, files *)
(* and slices, every sequence width and every set of names and builds.     *)
(***************************************************************************)
EXTENDS LmStateSystem, FiniteSetTheorems, SequenceTheorems, TLAPS

\* Type correctness needs to know that a phase that indexes a file has one.
TypeInv == TypeOK /\ WorkerShape

-----------------------------------------------------------------------------
(* What the operators the actions are built from return.                   *)

\* The sequence number stays in its word and always moves.
LEMMA NextSeqType ==
  ASSUME NEW s \in Seqs
  PROVE  NextSeq(s) \in Seqs \ {s}
BY BoundsAssumption DEF NextSeq, Seqs

\* The empty name record is a name record.
LEMMA NoRecordType ==
  NoHeader \in Headers /\ NoRecord \in NameRecords
<1>1. [owner |-> 1, gen |-> 1, profile |-> FALSE] \in Snapshots
  BY BoundsAssumption DEF Snapshots, Sessions
<1>2. NoHeader \in Headers
  BY <1>1, DataAssumption, BoundsAssumption DEF NoHeader, Headers, KeyIds
<1>3. NoRecord \in NameRecords
  BY <1>2, DataAssumption, StorageAssumption DEF NoRecord, NameRecords
<1> QED BY <1>2, <1>3

\* Whatever ReadNames finds, newest copy or none, is a name record.
LEMMA LatestNameType ==
  ASSUME StorageTypeOK, NEW id \in Ids, NEW h
  PROVE  LatestName(id, h) \in NameRecords
<1>1. LatestCopy(id, h) \in 0 .. 1
  BY DEF LatestCopy
<1>2. labels[id][LatestCopy(id, h)] \in NameRecords
  BY <1>1 DEF StorageTypeOK
<1> QED BY <1>2, NoRecordType DEF LatestName

\* Two key copies resolve to a status of the key line and a key id.
LEMMA ResolvedKeyType ==
  ASSUME NEW files \in [0 .. 1 -> KeyFiles]
  PROVE  ResolvedKey(files) \in [status : KeyStatuses, id : KeyIds]
BY BoundsAssumption DEF ResolvedKey, KeyFiles, KeyStatuses, KeyIds

\* However the worker resolves the key, the key line stays a key line.
LEMMA ResolveKeyType ==
  ASSUME NEW files \in [0 .. 1 -> KeyFiles], NEW config \in Configs,
         ResolveKey(files, config)
  PROVE  keyLine' \in KeyLines
BY ResolvedKeyType, BoundsAssumption DEF ResolveKey, KeyStatuses, KeyIds, KeyLines

\* What every end of a service call keeps.
ArmOK == arm \in Arms /\ receipt \in Receipts /\ cat \in Cats /\ WorkerShape

\* Answering keeps the worker's own state well typed.
LEMMA FinishType ==
  ASSUME cat \in Cats, NEW a \in Arms, NEW s \in Statuses, Finish(a, s)
  PROVE  ArmOK'
<1>1. arm' \in Arms /\ arm'.phase = "ACK"
  BY DEF Finish, Arms, InnerPhases
<1>2. receipt' \in Receipts
  BY DEF Finish, Arms, Receipts
<1>3. cat' \in Cats
  <2>1. a.seq \in Seqs /\ a.session \in 0 .. MaxSession
    BY DEF Arms
  <2>2. 0 \in Seqs /\ 0 \in 0 .. MaxSession
    BY BoundsAssumption DEF Seqs
  <2>3. [cat EXCEPT !.seq = a.seq, !.session = a.session] \in Cats
    BY <2>1 DEF Cats
  <2>4. [cat EXCEPT !.seq = 0, !.session = 0] \in Cats
    BY <2>1, <2>2 DEF Cats
  <2> QED BY <2>3, <2>4 DEF Finish
<1>4. WorkerShape'
  BY <1>1 DEF WorkerShape
<1> QED BY <1>1, <1>2, <1>3, <1>4 DEF ArmOK

\* So does moving on to a phase the shape allows.
LEMMA ContinueType ==
  ASSUME receipt \in Receipts, cat \in Cats,
         NEW a \in Arms, NEW p \in ServicePhases \cup InnerPhases, Continue(a, p)
  PROVE  /\ arm' \in Arms /\ receipt' \in Receipts /\ cat' \in Cats
         /\ arm' = [a EXCEPT !.phase = p]
BY DEF Continue, Arms

\* Inserting an entry into a page gives a page.
LEMMA InsertedType ==
  ASSUME NEW entries \in Seq(PageEntries), NEW entry \in PageEntries
  PROVE  Inserted(entries, entry) \in Seq(PageEntries)
<1> DEFINE smaller == {i \in 1 .. Len(entries) : entries[i].id < entry.id}
           pos == Cardinality(smaller)
           all == SubSeq(entries, 1, pos) \o <<entry>>
                    \o SubSeq(entries, pos + 1, Len(entries))
<1>1. pos \in 0 .. Len(entries)
  <2>1. IsFiniteSet(1 .. Len(entries)) /\ Cardinality(1 .. Len(entries)) = Len(entries)
    <3>1. Len(entries) \in Nat
      BY LenProperties
    <3> QED BY <3>1, FS_Interval
  <2>2. smaller \subseteq 1 .. Len(entries)
    OBVIOUS
  <2>3. IsFiniteSet(smaller) /\ pos <= Cardinality(1 .. Len(entries))
    BY <2>1, <2>2, FS_Subset
  <2>4. pos \in Nat
    <3> HIDE DEF smaller
    <3> QED BY <2>3, FS_CardinalityType DEF pos
  <2>5. Len(entries) \in Nat /\ pos <= Len(entries)
    BY <2>1, <2>3, LenProperties
  <2> HIDE DEF pos
  <2> QED BY <2>4, <2>5
<1>2. \A i \in 1 .. Len(entries) : entries[i] \in PageEntries
  BY LenProperties
<1>3. /\ SubSeq(entries, 1, pos) \in Seq(PageEntries)
      /\ SubSeq(entries, pos + 1, Len(entries)) \in Seq(PageEntries)
  <2> HIDE DEF pos
  <2>1. Len(entries) \in Nat /\ pos \in Int /\ pos + 1 \in Int
    BY <1>1, LenProperties
  <2>2. \A i \in 1 .. pos : entries[i] \in PageEntries
    BY <1>1, <1>2, <2>1
  <2>3. \A i \in pos + 1 .. Len(entries) : entries[i] \in PageEntries
    BY <1>1, <1>2, <2>1
  <2> QED BY <2>1, <2>2, <2>3, SubSeqProperties
<1>4. all \in Seq(PageEntries)
  <2> HIDE DEF pos
  <2> QED BY <1>3, ConcatProperties
<1>5. SubSeq(all, 1, IF Len(all) > Capacity THEN Capacity ELSE Len(all)) \in Seq(PageEntries)
  <2> DEFINE n == IF Len(all) > Capacity THEN Capacity ELSE Len(all)
  <2> HIDE DEF all
  <2>1. Len(all) \in Nat /\ \A i \in 1 .. Len(all) : all[i] \in PageEntries
    BY <1>4, LenProperties
  <2>2. n \in Int /\ n <= Len(all)
    BY <2>1, BoundsAssumption
  <2> HIDE DEF n
  <2>3. \A i \in 1 .. n : all[i] \in PageEntries
    BY <2>1, <2>2
  <2>4. SubSeq(all, 1, n) \in Seq(PageEntries)
    BY <2>2, <2>3, SubSeqProperties
  <2> QED BY <2>4 DEF n
<1> QED BY <1>5 DEF Inserted
-----------------------------------------------------------------------------
(* The worker's actions.                                                   *)

\* Every variable a worker action may change has its type.
WorkerTypes == MailboxTypeOK /\ StorageTypeOK /\ WorkerShape

\* Every status the phases compute is one the response line can carry.
LEMMA StatusTypes ==
  /\ \A h, session : IdentityStatus(h, session) \in Statuses
  /\ LatchStatus \in Statuses /\ DeleteStatus \in Statuses /\ RenameStatus \in Statuses
  /\ NameFailure \in Statuses
<1>1. \A h, session : IdentityStatus(h, session) \in Statuses
  BY DEF IdentityStatus, Statuses
<1> QED
  BY <1>1 DEF LatchStatus, DeleteStatus, RenameStatus, NameFailure, Statuses

\* Answering, cancelling and latching a request keep the types.
LEMMA LatchType ==
  ASSUME TypeInv, Latch, UNCHANGED ppcLines
  PROVE  WorkerTypes'
<1>1. Latched \in Arms
  BY BoundsAssumption
     DEF TypeInv, TypeOK, MailboxTypeOK, Latched, Arms, Statuses, ServicePhases, Requests
<1>2. ArmOK'
  <2>1. CASE LatchStatus = "OK"
    <3>1. arm' = Latched /\ receipt' \in Receipts /\ cat' \in Cats
      BY <1>1, <2>1 DEF Latch, Continue, Latched, TypeInv, TypeOK, MailboxTypeOK, StorageTypeOK
    <3>2. WorkerShape'
      BY <2>1, <3>1, BoundsAssumption
         DEF WorkerShape, Latched, LatchStatus, WellFormed, TypeInv, TypeOK, MailboxTypeOK, Ids, Requests
    <3> QED BY <1>1, <3>1, <3>2 DEF ArmOK
  <2>2. CASE LatchStatus # "OK"
    BY <1>1, <2>2, StatusTypes, FinishType DEF Latch, TypeInv, TypeOK, StorageTypeOK
  <2> QED BY <2>1, <2>2
<1>3. job' \in Jobs
  BY DEF Latch, LatchedJob, TypeInv, TypeOK, MailboxTypeOK, StorageTypeOK, Jobs, Proofs
<1> QED
  BY <1>2, <1>3 DEF Latch, Quiet, card, ppcLines, ArmOK, WorkerTypes,
                    TypeInv, TypeOK, MailboxTypeOK, StorageTypeOK

\* Creating the card's key keeps the types.
LEMMA KeyType ==
  ASSUME TypeInv, OpenKey \/ WriteKeyCopy0 \/ WriteKeyCopy1, UNCHANGED ppcLines
  PROVE  WorkerTypes'
<1> USE DEF TypeInv, TypeOK, StorageTypeOK
<1>1. keyLine.config \in Configs /\ keyLine \in KeyLines
  BY DEF MailboxTypeOK, KeyLines
<1>2. KeyRecord \in KeyFiles
  BY DEF KeyRecord, KeyFiles, Jobs
<1>3. keyFiles' \in [0 .. 1 -> KeyFiles]
  BY <1>2 DEF OpenKey, WriteKeyCopy0, WriteKeyCopy1, card
<1>4. keyLine' \in KeyLines
  <2>1. ResolveKey(keyFiles, keyLine.config) \/ ResolveKey(keyFiles', keyLine.config)
          => keyLine' \in KeyLines
    BY <1>1, <1>3, ResolveKeyType
  <2>3. CASE OpenKey
    BY <2>1, <2>3 DEF OpenKey
  <2>4. CASE WriteKeyCopy0
    BY <1>1, <2>1, <2>4 DEF WriteKeyCopy0
  <2>5. CASE WriteKeyCopy1
    BY <2>1, <2>5 DEF WriteKeyCopy1
  <2> QED BY <2>3, <2>4, <2>5
<1>5. ArmOK'
  <2> USE DEF Statuses
  <2>1. arm \in Arms /\ receipt \in Receipts /\ cat \in Cats
    BY DEF MailboxTypeOK
  <2>2. ASSUME NEW s \in {"OK", "KEY_ERROR"}, Finish(arm, s)
        PROVE  ArmOK'
    BY <2>1, <2>2, FinishType
  <2>3. ASSUME NEW p \in {"KEYCOPY0", "KEYCOPY1"}, Continue(arm, p)
        PROVE  ArmOK'
    BY <2>1, <2>3, ContinueType DEF InnerPhases, ArmOK, WorkerShape, Arms
  <2>4. CASE OpenKey
    BY <2>2, <2>3, <2>4 DEF OpenKey
  <2>5. CASE WriteKeyCopy0
    BY <2>2, <2>3, <2>5 DEF WriteKeyCopy0
  <2>6. CASE WriteKeyCopy1
    BY <2>2, <2>6 DEF WriteKeyCopy1
  <2> QED BY <2>4, <2>5, <2>6
<1> QED
  BY <1>3, <1>4, <1>5
     DEF OpenKey, WriteKeyCopy0, WriteKeyCopy1, workVars, card, ppcLines, ArmOK,
         WorkerTypes, MailboxTypeOK

\* Reading the directory into a page keeps the types.
LEMMA CatalogType ==
  ASSUME TypeInv, OpenCatalog \/ ScanEntry \/ EndScan, UNCHANGED ppcLines
  PROVE  WorkerTypes'
<1> USE DEF TypeInv, TypeOK, StorageTypeOK
<1>1. /\ arm \in Arms /\ receipt \in Receipts /\ cat \in Cats
      /\ page \in Pages
  BY DEF MailboxTypeOK
<1>2. ASSUME NEW s \in {"OK", "IO_ERROR"}, Finish(arm, s)
      PROVE  ArmOK'
  BY <1>1, <1>2, FinishType DEF Statuses
<1>3. CASE OpenCatalog
  <2>1. [entries |-> <<>>, more |-> FALSE, seq |-> 0, session |-> 0] \in Cats
    BY BoundsAssumption, EmptySeq DEF Cats, Seqs
  <2>2. ArmOK' /\ scan' \subseteq Ids
    BY <1>1, <1>2, <1>3, <2>1
       DEF OpenCatalog, ArmOK, Arms, WorkerShape, ServicePhases
  <2> QED
    BY <1>3, <2>2 DEF OpenCatalog, Quiet, card, ppcLines, ArmOK, WorkerTypes, MailboxTypeOK
<1>4. CASE ScanEntry
  <2>1. PICK id \in scan :
          /\ scan' = scan \ {id}
          /\ \/ UNCHANGED cat
             \/ \E name \in {LatestName(id, archives[id].header).name} \cup {NoName} :
                  cat' = [cat EXCEPT
                    !.entries = Inserted(cat.entries,
                      Listed(id, IF ValidHeader(archives[id].header) THEN name ELSE NoName)),
                    !.more = cat.more \/ Len(cat.entries) = Capacity]
    BY <1>4 DEF ScanEntry
  <2>2. id \in Ids /\ archives[id] \in Files
    OBVIOUS
  <2>3. LatestName(id, archives[id].header).name \in Names
    BY <2>2, LatestNameType DEF NameRecords
  <2>4. ASSUME NEW name \in Names
        PROVE  Inserted(cat.entries, Listed(id, name)) \in Seq(PageEntries)
    <3>1. Listed(id, name) \in PageEntries
      BY <2>2 DEF Listed, PrintOf, PageEntries, Prints, Files
    <3>2. cat.entries \in Seq(PageEntries)
      BY <1>1 DEF Cats
    <3> QED BY <3>1, <3>2, InsertedType
  <2>5. cat' \in Cats
    <3>1. CASE UNCHANGED cat
      BY <1>1, <3>1
    <3>2. ASSUME NEW e \in Seq(PageEntries), NEW m \in BOOLEAN,
                 cat' = [cat EXCEPT !.entries = e, !.more = m]
          PROVE  cat' \in Cats
      BY <1>1, <3>2 DEF Cats
    <3>3. cat.more \in BOOLEAN
      BY <1>1 DEF Cats
    <3> QED BY <2>1, <2>3, <2>4, <3>1, <3>2, <3>3, DataAssumption
  <2> QED
    BY <1>4, <2>1, <2>5
       DEF ScanEntry, Quiet, card, ppcLines, WorkerShape, WorkerTypes, MailboxTypeOK
<1>5. CASE EndScan
  <2>1. page' \in Pages
    BY <1>1, <1>5 DEF EndScan, PublishPage, Arms, Cats, Pages
  <2>2. ArmOK'
    BY <1>2, <1>5 DEF EndScan
  <2> QED
    BY <1>5, <2>1, <2>2
       DEF EndScan, workVars, card, ppcLines, ArmOK, WorkerTypes, MailboxTypeOK
<1> QED BY <1>3, <1>4, <1>5

\* Removing an archive and its two name records keeps the types.
LEMMA DeleteType ==
  ASSUME TypeInv, DeleteArchive \/ DropName0 \/ DropName1, UNCHANGED ppcLines
  PROVE  WorkerTypes'
<1> USE DEF TypeInv, TypeOK, StorageTypeOK
<1>1. arm \in Arms /\ receipt \in Receipts /\ cat \in Cats
  BY DEF MailboxTypeOK
<1>2. ASSUME NEW s \in Statuses, Finish(arm, s)
      PROVE  ArmOK'
  BY <1>1, <1>2, FinishType
<1>3. CASE DeleteArchive
  <2>1. NoFile \in Files
    BY NoRecordType DEF NoFile, Files, NoMemory, Memory
  <2>2. arm.fileId \in Ids
    BY <1>3 DEF DeleteArchive, Working, WorkerShape
  <2>3. ArmOK'
    <3>1. ASSUME Continue(arm, "DROPNAME0")
          PROVE  ArmOK'
      BY <1>1, <2>2, <3>1, ContinueType DEF ArmOK, WorkerShape, Arms, InnerPhases
    <3>2. "IO_ERROR" \in Statuses
      BY DEF Statuses
    <3> QED BY <1>2, <1>3, <3>1, <3>2, StatusTypes DEF DeleteArchive
  <2>4. archives' \in [Ids -> Files]
    BY <1>3, <2>1 DEF DeleteArchive
  <2> QED
    BY <1>3, <2>3, <2>4
       DEF DeleteArchive, Quiet, workVars, ppcLines, ArmOK, WorkerTypes, MailboxTypeOK
<1>4. ASSUME NEW i \in 0 .. 1, NEW stays \in BOOLEAN, DropName(i, stays), ArmOK'
      PROVE  WorkerTypes'
  <2>1. labels' \in [Ids -> [0 .. 1 -> NameRecords]]
    BY <1>4, NoRecordType DEF DropName
  <2> QED
    BY <1>4, <2>1 DEF DropName, Quiet, workVars, ppcLines, ArmOK, WorkerTypes, MailboxTypeOK
<1>5. \A stays \in BOOLEAN : Cleanup(stays) \in Statuses
  BY <1>1 DEF Cleanup, Arms, Statuses
<1>6. CASE DropName0
  <2>1. PICK stays \in BOOLEAN :
          /\ DropName(0, stays)
          /\ Continue([arm EXCEPT !.status = Cleanup(stays)], "DROPNAME1")
    BY <1>6 DEF DropName0
  <2>2. [arm EXCEPT !.status = Cleanup(stays)] \in Arms
    BY <1>1, <1>5 DEF Arms
  <2>3. ArmOK'
    BY <1>1, <1>6, <2>1, <2>2, ContinueType
       DEF DropName0, ArmOK, WorkerShape, Arms, InnerPhases
  <2> QED BY <1>4, <2>1, <2>3
<1>7. CASE DropName1
  BY <1>2, <1>4, <1>5, <1>7 DEF DropName1
<1> QED BY <1>3, <1>6, <1>7

\* Renaming, and replacing the older name record, keep the types.
LEMMA NameType ==
  ASSUME TypeInv, OpenRename \/ RemoveOldName \/ PlaceName, UNCHANGED ppcLines
  PROVE  WorkerTypes'
<1> USE DEF TypeInv, TypeOK, StorageTypeOK
<1>1. arm \in Arms /\ receipt \in Receipts /\ cat \in Cats /\ arm.fileId \in Ids
  BY DEF MailboxTypeOK, OpenRename, RemoveOldName, PlaceName, Working, WorkerShape
<1>2. ASSUME NEW s \in Statuses, Finish(arm, s)
      PROVE  ArmOK'
  BY <1>1, <1>2, FinishType
<1>3. ASSUME NEW p \in {"WRITENAME", "PLACENAME"}, Continue(arm, p)
      PROVE  ArmOK'
  BY <1>1, <1>3, ContinueType DEF ArmOK, WorkerShape, Arms, InnerPhases
<1>4. {"OK", "IO_ERROR"} \subseteq Statuses
  BY DEF Statuses
<1>5. CASE OpenRename
  <2>1. ArmOK'
    BY <1>2, <1>3, <1>4, <1>5, StatusTypes DEF OpenRename
  <2>2. archives[arm.fileId].header \in Headers
    BY <1>1 DEF Files
  <2>3. job' \in Jobs
    BY <1>5, <2>2 DEF OpenRename, Jobs
  <2> QED
    BY <1>5, <2>1, <2>3
       DEF OpenRename, Quiet, card, ppcLines, ArmOK, WorkerTypes, MailboxTypeOK
<1>6. LatestName(arm.fileId, job.header) \in NameRecords
  BY <1>1, LatestNameType
<1>7. CASE RemoveOldName
  <2>1. ArmOK'
    BY <1>2, <1>3, <1>7, StatusTypes DEF RemoveOldName
  <2>2. labels' \in [Ids -> [0 .. 1 -> NameRecords]]
    BY <1>7, NoRecordType DEF RemoveOldName
  <2> QED
    BY <1>7, <2>1, <2>2
       DEF RemoveOldName, Quiet, workVars, ppcLines, ArmOK, WorkerTypes, MailboxTypeOK
<1>8. CASE PlaceName
  <2>1. ArmOK'
    BY <1>2, <1>4, <1>8, StatusTypes DEF PlaceName
  <2>2. LatestName(arm.fileId, job.header).gen < NameGenMax =>
          [gen |-> LatestName(arm.fileId, job.header).gen + 1,
           name |-> job.name, header |-> job.header] \in NameRecords
    BY <1>6, StorageAssumption DEF NameRecords, Jobs
  <2>3. labels' \in [Ids -> [0 .. 1 -> NameRecords]]
    BY <1>8, <2>2 DEF PlaceName
  <2> QED
    BY <1>8, <2>1, <2>3
       DEF PlaceName, Quiet, workVars, ppcLines, ArmOK, WorkerTypes, MailboxTypeOK
<1> QED BY <1>5, <1>7, <1>8

\* Moving a snapshot to or from the card, from open to publish, keeps the types.
LEMMA TransferType ==
  ASSUME TypeInv, UNCHANGED ppcLines,
         \/ OpenExport \/ OpenImport \/ WriteHeader \/ ReadHeader
         \/ Transfer \/ Close \/ PublishExport \/ PublishImport
  PROVE  WorkerTypes'
<1> USE DEF TypeInv, TypeOK, StorageTypeOK
<1>1. arm \in Arms /\ receipt \in Receipts /\ cat \in Cats /\ arm.fileId \in Ids
  BY DEF MailboxTypeOK, OpenExport, OpenImport, WriteHeader, ReadHeader, Transfer, Close,
         PublishExport, PublishImport, Working, WorkerShape
<1>2. ASSUME NEW s \in Statuses, Finish(arm, s)
      PROVE  ArmOK'
  BY <1>1, <1>2, FinishType
<1>3. ASSUME NEW p \in {"HEADER", "TRANSFER", "CLOSE", "PUBLISH", "WRITENAME"},
             Continue(arm, p), p = "HEADER" => arm.offset = 0,
             p = "TRANSFER" => arm.offset < MaxCell
      PROVE  ArmOK'
  BY <1>1, <1>3, ContinueType DEF ArmOK, WorkerShape, Arms, ServicePhases, InnerPhases
<1>4. {"OK", "IO_ERROR", "NOT_FOUND", "BAD_FILE", "FULL"} \subseteq Statuses
  BY DEF Statuses
<1>5. MaxCell > 0 /\ NoMemory \in Memory
  BY BoundsAssumption DEF NoMemory, Memory
<1>6. CASE OpenExport
  <2> DEFINE a == [arm EXCEPT !.fileId = arm.fileId + 1]
  <2>1. a \in Arms /\ a.offset = 0
    <3>1. arm.fileId + 1 \in 0 .. MaxId + 1
      BY <1>1, BoundsAssumption DEF Ids
    <3>2. arm.offset = 0
      BY <1>6 DEF OpenExport, Working, WorkerShape
    <3> QED BY <1>1, <3>1, <3>2 DEF Arms
  <2>2. ASSUME Continue(a, "OPEN"), ~(a.fileId > MaxId)
        PROVE  ArmOK'
    <3>1. a.fileId \in Ids
      BY <1>1, <2>2, BoundsAssumption DEF Ids, Arms
    <3> QED BY <1>1, <2>1, <2>2, <3>1, ContinueType DEF ArmOK, WorkerShape, Arms, ServicePhases
  <2>3. ASSUME Finish(a, "FULL")
        PROVE  ArmOK'
    BY <1>1, <1>4, <2>1, <2>3, FinishType
  <2>4. ArmOK'
    BY <1>2, <1>3, <1>4, <1>6, <2>2, <2>3 DEF OpenExport, Working, WorkerShape
  <2>5. tmps' \subseteq Ids /\ draft' \in Memory
    BY <1>1, <1>5, <1>6 DEF OpenExport
  <2> QED
    BY <1>6, <2>4, <2>5 DEF OpenExport, Quiet, ppcLines, ArmOK, WorkerTypes, MailboxTypeOK
<1>7. CASE OpenImport
  <2>1. ArmOK'
    BY <1>2, <1>3, <1>4, <1>7 DEF OpenImport, Working, WorkerShape
  <2> QED
    BY <1>7, <2>1
       DEF OpenImport, Quiet, workVars, card, ppcLines, ArmOK, WorkerTypes, MailboxTypeOK
<1>8. CASE WriteHeader
  <2>1. ArmOK'
    BY <1>2, <1>3, <1>4, <1>5, <1>8 DEF WriteHeader, Working, WorkerShape
  <2> QED
    BY <1>8, <2>1
       DEF WriteHeader, Quiet, workVars, card, ppcLines, ArmOK, WorkerTypes, MailboxTypeOK
<1>9. CASE ReadHeader
  <2>1. ArmOK'
    BY <1>2, <1>3, <1>4, <1>5, <1>9, StatusTypes DEF ReadHeader, Working, WorkerShape
  <2>2. archives[arm.fileId].header \in Headers
    BY <1>1 DEF Files
  <2>3. job' \in Jobs
    BY <1>9, <2>2 DEF ReadHeader, Jobs
  <2> QED
    BY <1>9, <2>1, <2>3
       DEF ReadHeader, Quiet, card, ppcLines, ArmOK, WorkerTypes, MailboxTypeOK
<1>10. CASE Transfer
  <2>1. NextSlice \in Cells /\ Advanced \in Arms
    BY <1>1, <1>10, BoundsAssumption
       DEF Transfer, Working, WorkerShape, NextSlice, Advanced, Cells, Arms
  <2>2. ASSUME Continue(Advanced, IF NextSlice = MaxCell THEN "CLOSE" ELSE "TRANSFER")
        PROVE  ArmOK'
    <3>1. Advanced.fileId \in Ids /\ (NextSlice # MaxCell => Advanced.offset < MaxCell)
      BY <1>1, <2>1, BoundsAssumption DEF Advanced, Cells, Arms
    <3> QED BY <1>1, <2>1, <2>2, <3>1, ContinueType DEF ArmOK, WorkerShape, Arms, ServicePhases
  <2>3. ArmOK'
    BY <1>2, <1>4, <1>10, <2>2 DEF Transfer
  <2>4. archives[arm.fileId].payload[NextSlice] \in Snapshots \cup {Blank}
    BY <1>1, <2>1 DEF Files, Memory
  <2>5. snapshot \in Memory /\ snapshot[NextSlice] \in Snapshots \cup {Blank}
    BY <2>1 DEF MailboxTypeOK, Memory
  <2>6. draft' \in Memory /\ snapshot' \in Memory
    BY <1>10, <2>4, <2>5 DEF Transfer, Memory
  <2> QED
    BY <1>10, <2>3, <2>6 DEF Transfer, Quiet, card, ppcLines, ArmOK, WorkerTypes, MailboxTypeOK
<1>11. CASE Close
  <2>1. ArmOK'
    BY <1>2, <1>3, <1>4, <1>11 DEF Close
  <2> QED
    BY <1>11, <2>1 DEF Close, Quiet, workVars, card, ppcLines, ArmOK, WorkerTypes, MailboxTypeOK
<1>12. CASE PublishExport
  <2>1. ArmOK'
    BY <1>2, <1>3, <1>4, <1>12 DEF PublishExport
  <2>2. [header |-> job.header, complete |-> TRUE, payload |-> draft] \in Files
    BY DEF Files, Jobs
  <2>3. archives' \in [Ids -> Files] /\ tmps' \subseteq Ids
    BY <1>12, <2>2 DEF PublishExport
  <2> QED
    BY <1>12, <2>1, <2>3
       DEF PublishExport, Quiet, workVars, ppcLines, ArmOK, WorkerTypes, MailboxTypeOK
<1>13. CASE PublishImport
  <2>1. ArmOK'
    BY <1>2, <1>4, <1>13 DEF PublishImport
  <2> QED
    BY <1>13, <2>1
       DEF PublishImport, Quiet, workVars, card, ppcLines, ArmOK, WorkerTypes, MailboxTypeOK, Jobs
<1> QED BY <1>6, <1>7, <1>8, <1>9, <1>10, <1>11, <1>12, <1>13

\* Every action of the worker keeps the types and the shape of its phases.
LEMMA WorkerType ==
  ASSUME TypeInv, Worker
  PROVE  TypeInv'
<1>1. WorkerTypes'
  <2>1. TypeInv /\ UNCHANGED ppcLines /\ StorageStep
    BY DEF Worker, StorageNext
  <2>2. CASE PublishAck
    <3>1. [arm EXCEPT !.phase = "IDLE"] \in Arms
      BY <2>1 DEF TypeInv, TypeOK, StorageTypeOK, Arms
    <3>2. response' \in Responses
      BY <2>1, <2>2 DEF PublishAck, TypeInv, TypeOK, StorageTypeOK, Arms, Responses
    <3> QED
      BY <2>1, <2>2, <3>1, <3>2
         DEF PublishAck, TypeInv, TypeOK, MailboxTypeOK, StorageTypeOK, WorkerTypes,
             WorkerShape, workVars, card, ppcLines, Arms
  <2>3. CASE Cancel
    <3>1. ArmOK'
      BY <2>1, <2>3, FinishType
         DEF Cancel, TypeInv, TypeOK, StorageTypeOK, Statuses
    <3> QED
      BY <2>1, <2>3, <3>1
         DEF Cancel, Quiet, workVars, card, ppcLines, ArmOK, WorkerTypes,
             TypeInv, TypeOK, MailboxTypeOK, StorageTypeOK
  <2> QED
    BY <2>1, <2>2, <2>3, LatchType, KeyType, CatalogType, DeleteType, NameType, TransferType
       DEF StorageStep
<1>2. ClientTypeOK'
  BY DEF Worker, clientVars, TypeInv, TypeOK, ClientTypeOK
<1> QED BY <1>1, <1>2 DEF WorkerTypes, TypeInv, TypeOK

-----------------------------------------------------------------------------
(* The game's actions, a reset and a power cut.                            *)

\* Every variable the game may change has its type.
GameTypes == MailboxTypeOK /\ ClientTypeOK

\* Issuing a request from a well-typed process leaves both well typed.
LEMMA IssueType ==
  ASSUME request \in Requests, NEW p \in Ppcs, NEW command \in Commands,
         NEW id \in 0 .. MaxId, Issue(p, command, id)
  PROVE  request' \in Requests /\ ppc' \in Ppcs
<1>1. NextSeq(p.seq) \in Seqs
  BY NextSeqType DEF Ppcs
<1> QED BY <1>1 DEF Issue, Ppcs, Requests

\* The statics as linked, and every empty line, are well typed.
LEMMA FreshType ==
  ASSUME NEW session \in Sessions
  PROVE  /\ FreshPpc(session) \in Ppcs
         /\ NoKey \in KeyViews
         /\ EmptySlot \in Slots
         /\ NoList \in Lists
         /\ NoPrompt \in Prompts
         /\ NoOutcome \in Outcomes
<1> USE BoundsAssumption DEF Seqs
<1>1. NoPrint \in Prints
  BY NoRecordType DEF NoPrint, Prints
<1> QED
  BY <1>1, EmptySeq
     DEF FreshPpc, Ppcs, NoKey, KeyIds, EmptySlot, NoList, NoPrompt, NoOutcome, Results,
         KeyViews, Slots, Lists, Prompts, Outcomes

\* A fresh process is well typed.
LEMMA FreshProcessType ==
  ASSUME ClientTypeOK, FreshProcess
  PROVE  ClientTypeOK'
<1>1. ppc.session + 1 \in Sessions
  BY BoundsAssumption DEF ClientTypeOK, FreshProcess, Sessions, Ppcs
<1> QED BY <1>1, FreshType DEF FreshProcess, ClientTypeOK, Ppcs

\* Claiming the mailbox and taking the slot over keep the types.
LEMMA StartType ==
  ASSUME TypeInv, InitializeStorage \/ InitializeSlot, UNCHANGED armLines
  PROVE  GameTypes'
<1> USE DEF TypeInv, TypeOK, MailboxTypeOK
<1>1. ppc \in Ppcs /\ request \in Requests /\ 0 \in 0 .. MaxId
  BY BoundsAssumption DEF ClientTypeOK, Ppcs, Requests
<1>2. ppc.session \in 0 .. MaxSession /\ ppc.session \in KeyIds
  BY <1>1 DEF Ppcs, Sessions, KeyIds
<1>3. CASE InitializeStorage
  <2>1. request' \in Requests
    BY <1>1, <1>2, <1>3 DEF InitializeStorage, Requests
  <2>2. ppc' \in Ppcs
    BY <1>1, <1>3 DEF InitializeStorage, Requests, Ppcs
  <2> QED
    BY <1>3, <2>1, <2>2
       DEF InitializeStorage, GameTypes, ClientTypeOK, Ppcs, Requests, armLines
<1>4. CASE InitializeSlot
  <2> DEFINE p == [ppc EXCEPT !.startup = FALSE, !.slotInit = TRUE]
  <2>1. p \in Ppcs
    BY <1>1 DEF Ppcs
  <2>2. request' \in Requests /\ ppc' \in Ppcs /\ keySeed' \in KeyIds
    <3> HIDE DEF p
    <3>1. "KEY" \in Commands
      BY DEF Commands
    <3> QED BY <1>1, <1>2, <1>4, <2>1, <3>1, IssueType DEF InitializeSlot, p
  <2>3. key' \in KeyViews
    BY <1>4 DEF InitializeSlot, RefreshedKey, ClientTypeOK, KeyViews, KeyLines
  <2>4. snapshot' \in Memory
    BY <1>4 DEF InitializeSlot, Memory
  <2> QED
    BY <1>4, <2>2, <2>3, <2>4
       DEF InitializeSlot, GameTypes, ClientTypeOK, Ppcs, Requests, armLines
<1> QED BY <1>3, <1>4

\* The slot's own actions and the prompt change no request.
LEMMA SlotType ==
  ASSUME TypeInv, UNCHANGED armLines,
         \/ RequestMenu("Save") \/ RequestMenu("Load") \/ ServiceMenu
         \/ ClearSelectedSlot \/ OpenDeletePrompt \/ CancelPrompt
  PROVE  GameTypes'
<1> USE DEF TypeInv, TypeOK, MailboxTypeOK, ClientTypeOK, GameTypes, ppcLines, armLines
<1>1. ASSUME NEW action \in {"Save", "Load"}, RequestMenu(action)
      PROVE  GameTypes'
  BY <1>1 DEF RequestMenu, Ppcs
<1>2. CASE ServiceMenu
  <2>1. CASE SaveState
    <3>1. PICK profile \in BOOLEAN :
            snapshot' = [c \in Cells |-> [owner |-> ppc.session, gen |-> ppc.gen + 1,
                                          profile |-> profile]]
      BY <2>1 DEF SaveState
    <3>2. ppc.session \in Sessions /\ ppc.gen + 1 \in 1 .. MaxGen
      BY <2>1, BoundsAssumption DEF SaveState, Ppcs
    <3>3. [owner |-> ppc.session, gen |-> ppc.gen + 1, profile |-> profile] \in Snapshots
      BY <3>2 DEF Snapshots
    <3>4. snapshot' \in Memory
      BY <3>1, <3>3 DEF Memory
    <3>5. ppc.gen + 1 \in 0 .. MaxGen
      BY <3>2
    <3>6. ppc' \in Ppcs /\ slot' \in Slots
      BY <2>1, <3>5 DEF SaveState, Ppcs, Slots
    <3> QED BY <1>2, <3>4, <3>6 DEF ServiceMenu
  <2>2. CASE NoSave
    <3>1. ppc' \in Ppcs
      BY <2>2 DEF NoSave, Ppcs
    <3> QED BY <1>2, <2>2, <3>1 DEF ServiceMenu, NoSave
  <2> QED BY <1>2, <2>1, <2>2 DEF ServiceMenu
<1>3. CASE ClearSelectedSlot
  <2>1. snapshot' \in Memory /\ slot' \in Slots
    BY <1>3 DEF ClearSelectedSlot, Memory, Slots
  <2> QED BY <1>3, <2>1 DEF ClearSelectedSlot
<1>4. CASE OpenDeletePrompt
  <2>1. PICK i \in 1 .. Len(list.entries) :
          prompt' = [active |-> TRUE, id |-> list.entries[i].id, token |-> list.seq,
                     print |-> list.entries[i].print]
    BY <1>4 DEF OpenDeletePrompt
  <2>2. list.entries \in Seq(PageEntries) /\ list.seq \in Seqs
    BY DEF Lists
  <2>3. list.entries[i] \in PageEntries
    BY <2>2, LenProperties
  <2>4. prompt' \in Prompts
    BY <2>1, <2>2, <2>3, BoundsAssumption DEF PageEntries, Ids, Prompts
  <2> QED BY <1>4, <2>4 DEF OpenDeletePrompt
<1>5. CASE CancelPrompt
  <2>1. prompt' \in Prompts
    BY <1>5 DEF CancelPrompt, Prompts
  <2> QED BY <1>5, <2>1 DEF CancelPrompt
<1> QED BY <1>1, <1>2, <1>3, <1>4, <1>5

\* Every request the player can make keeps the types.
LEMMA RequestType ==
  ASSUME TypeInv, UNCHANGED armLines,
         \/ RequestExport \/ RequestImport \/ RequestRename \/ RequestCatalog
         \/ ConfirmDelete
  PROVE  GameTypes'
<1> USE DEF TypeInv, TypeOK, MailboxTypeOK, ClientTypeOK, GameTypes, armLines
<1>1. list.entries \in Seq(PageEntries) /\ Len(list.entries) \in Nat
  BY LenProperties DEF Lists
<1>2. \A i \in 1 .. Len(list.entries) : list.entries[i] \in PageEntries
  BY <1>1, LenProperties
<1>3. \A i \in 1 .. Len(list.entries) :
        list.entries[i].id \in 0 .. MaxId /\ list.entries[i].print \in Prints
  BY <1>2, BoundsAssumption DEF PageEntries, Ids
<1>4. ASSUME NEW command \in {"EXPORT", "IMPORT", "RENAME", "CATALOG", "DELETE"},
             NEW id \in 0 .. MaxId, Issue(ppc, command, id)
      PROVE  request' \in Requests /\ ppc' \in Ppcs
  <2>1. command \in Commands
    BY DEF Commands
  <2> QED BY <1>4, <2>1, IssueType
<1>5. 1 \in Cells /\ 1 \in 0 .. MaxId /\ 0 \in 0 .. MaxId
  BY BoundsAssumption DEF Cells
<1>6. Coherent(snapshot) => snapshot[1] \in Snapshots
  BY <1>5 DEF Coherent, Memory
<1>7. CASE RequestExport
  <2>1. (IF ppc.archiveId < MaxId THEN ppc.archiveId + 1 ELSE 1) \in 0 .. MaxId
    BY BoundsAssumption DEF Ppcs
  <2>2. request' \in Requests /\ ppc' \in Ppcs
    BY <1>4, <1>7, <2>1 DEF RequestExport
  <2>3. snapshot[1] \in Snapshots
    BY <1>6, <1>7 DEF RequestExport
  <2>4. ppc.session \in KeyIds /\ key.id \in KeyIds /\ key.config \in Configs \cup {0}
    BY BoundsAssumption DEF Ppcs, Sessions, KeyIds, KeyViews
  <2>5. header' \in Headers
    BY <1>7, <2>3, <2>4, DataAssumption DEF RequestExport, Headers
  <2>6. requestName' \in Names
    BY <1>7 DEF RequestExport
  <2> QED BY <1>7, <2>2, <2>5, <2>6 DEF RequestExport
<1>8. CASE RequestImport
  <2>1. request' \in Requests /\ ppc' \in Ppcs
    <3>1. PICK id \in 0 .. MaxId : Issue(ppc, "IMPORT", id)
      BY <1>8, BoundsAssumption DEF RequestImport, Ids
    <3> QED BY <1>4, <3>1
  <2>2. slot' \in Slots
    BY <1>6, <1>8 DEF RequestImport, Slots
  <2> QED BY <1>8, <2>1, <2>2 DEF RequestImport
<1>9. CASE RequestRename
  <2>1. ListedIds \subseteq 0 .. MaxId
    BY <1>3 DEF ListedIds
  <2>2. request' \in Requests /\ ppc' \in Ppcs
    BY <1>4, <1>9, <2>1 DEF RequestRename
  <2>3. requestName' \in Names
    BY <1>9 DEF RequestRename
  <2> QED BY <1>9, <2>2, <2>3 DEF RequestRename
<1>10. CASE RequestCatalog
  <2>1. NextCursor \in 0 .. MaxId /\ list.cursor \in 0 .. MaxId
    <3>1. list.entries # <<>> => Len(list.entries) \in 1 .. Len(list.entries)
      BY <1>1, EmptySeq
    <3>2. list.cursor \in 0 .. MaxId
      BY DEF Lists
    <3> QED BY <1>3, <3>1, <3>2 DEF NextCursor
  <2>2. PICK after \in 0 .. MaxId :
          list' = [NoList EXCEPT !.cursor = after] /\ Issue(ppc, "CATALOG", after)
    BY <1>5, <1>10, <2>1 DEF RequestCatalog
  <2>3. request' \in Requests /\ ppc' \in Ppcs
    BY <1>4, <2>2
  <2>4. NoList \in Lists
    BY FreshType, BoundsAssumption DEF Sessions
  <2>5. list' \in Lists
    BY <2>2, <2>4 DEF Lists
  <2> QED BY <1>10, <2>3, <2>5 DEF RequestCatalog
<1>11. CASE ConfirmDelete
  <2>1. prompt.id \in 0 .. MaxId /\ prompt.token \in Seqs
    BY DEF Prompts
  <2>2. request' \in Requests /\ ppc' \in Ppcs
    BY <1>4, <1>11, <2>1 DEF ConfirmDelete
  <2>3. deleteProof' \in Proofs
    BY <1>3, <1>11, <2>1 DEF ConfirmDelete, Proofs
  <2>4. prompt' \in Prompts
    BY <1>11 DEF ConfirmDelete, Prompts
  <2> QED BY <1>11, <2>2, <2>3, <2>4 DEF ConfirmDelete
<1> QED BY <1>7, <1>8, <1>9, <1>10, <1>11

\* Reading any answer keeps the types.
LEMMA AnswerType ==
  ASSUME TypeInv, ServiceStorage, UNCHANGED armLines
  PROVE  GameTypes'
<1> USE DEF TypeInv, TypeOK, MailboxTypeOK, ClientTypeOK, GameTypes, ppcLines, armLines
<1>1. /\ ppc.command \in Commands \cup {"NONE"} /\ ppc.id \in 0 .. MaxId + 1
      /\ response.resultId \in 0 .. MaxId + 1
  BY BoundsAssumption DEF Ppcs, Responses
<1>2. ASSUME NEW result \in Results, Tell(result)
      PROVE  outcome' \in Outcomes
  BY <1>1, <1>2 DEF Tell, Outcomes
<1>3. \A valid \in BOOLEAN : Verdict(valid) \in Results
  BY DEF Verdict, Results
<1>4. ResultValid \in BOOLEAN /\ PageValid \in BOOLEAN
  BY DEF ResultValid, PageValid
<1>5. \A result \in {"DONE", "NAME NOT SAVED", "FAILED", "BAD RESPONSE"} :
        (result \in {"DONE", "NAME NOT SAVED"} => response.resultId \in Ids)
          => Finished(result) \in Ppcs
  <2>1. Idle(ppc) \in Ppcs
    BY DEF Idle, Ppcs
  <2>2. response.resultId \in Ids => [Idle(ppc) EXCEPT !.archiveId = response.resultId] \in Ppcs
    <3>1. response.resultId \in Ids => response.resultId \in 0 .. MaxId
      BY BoundsAssumption DEF Ids
    <3> QED BY <2>1, <3>1 DEF Ppcs
  <2> QED BY <2>1, <2>2 DEF Finished
<1>6. \A result : result = Verdict(ResultValid) /\ result \in {"DONE", "NAME NOT SAVED"}
        => response.resultId \in Ids
  BY DEF Verdict, ResultValid
<1>7. Finished(Verdict(ResultValid)) \in Ppcs
  <2>1. Verdict(ResultValid) \in {"DONE", "NAME NOT SAVED", "FAILED", "BAD RESPONSE"}
    BY DEF Verdict
  <2> QED BY <1>5, <1>6, <2>1
<1>8. Idle(ppc) \in Ppcs
  BY DEF Idle, Ppcs
<1>8a. \A b \in BOOLEAN : [raw |-> b, backup |-> Blank] \in Slots
  BY DEF Slots
<1>9. CASE CompleteKey
  <2>1. key' \in KeyViews
    BY <1>9 DEF CompleteKey, RefreshedKey, KeyViews, KeyLines
  <2>2. outcome' \in Outcomes
    <3>1. \A b \in BOOLEAN : (IF Verdict(b) = "DONE" /\ ~key'.ready THEN "FAILED" ELSE Verdict(b))
            \in Results
      BY <1>3 DEF Results
    <3>2. (response.transferred = 0 /\ response.resultId = 0) \in BOOLEAN
      OBVIOUS
    <3> QED BY <1>2, <1>9, <3>1, <3>2 DEF CompleteKey
  <2> QED BY <1>8, <1>9, <2>1, <2>2 DEF CompleteKey
<1>10. CASE CompleteDelete
  <2>1. outcome' \in Outcomes
    BY <1>2, <1>3, <1>10 DEF CompleteDelete
  <2>2. list' \in Lists
    <3>1. 0 \in Seqs /\ <<>> \in Seq(PageEntries)
      BY BoundsAssumption, EmptySeq DEF Seqs
    <3>2. [list EXCEPT !.seq = 0, !.entries = <<>>, !.more = FALSE] \in Lists
      BY <3>1 DEF Lists
    <3> QED BY <1>10, <3>2 DEF CompleteDelete
  <2> QED BY <1>8, <1>10, <2>1, <2>2 DEF CompleteDelete
<1>11. CASE CompleteCatalog
  <2>1. outcome' \in Outcomes
    BY <1>2, <1>3, <1>4, <1>11 DEF CompleteCatalog
  <2>2. [seq |-> ppc.seq, cursor |-> page.after, entries |-> page.entries,
         more |-> page.more] \in Lists
    BY DEF Lists, Pages, Ppcs
  <2>3. list' \in Lists
    BY <1>11, <2>2 DEF CompleteCatalog
  <2> QED BY <1>8, <1>11, <2>1, <2>3 DEF CompleteCatalog
<1>12. CASE CompleteExport
  <2>1. outcome' \in Outcomes
    BY <1>2, <1>3, <1>4, <1>12 DEF CompleteExport
  <2> QED BY <1>7, <1>12, <2>1 DEF CompleteExport
<1>13. CASE CompleteRename
  <2>1. outcome' \in Outcomes
    BY <1>2, <1>3, <1>4, <1>13 DEF CompleteRename
  <2> DEFINE renamed == [i \in 1 .. Len(list.entries) |->
                           IF list.entries[i].id = ppc.id
                           THEN [list.entries[i] EXCEPT !.name = requestName]
                           ELSE list.entries[i]]
  <2>2. list.entries \in Seq(PageEntries) /\ Len(list.entries) \in Nat
    BY LenProperties DEF Lists
  <2>3. \A i \in 1 .. Len(list.entries) : renamed[i] \in PageEntries
    <3>1. TAKE i \in 1 .. Len(list.entries)
    <3>2. list.entries[i] \in PageEntries
      BY <2>2, LenProperties
    <3>3. [list.entries[i] EXCEPT !.name = requestName] \in PageEntries
      BY <3>2 DEF PageEntries
    <3> QED BY <3>2, <3>3
  <2>4. renamed \in Seq(PageEntries)
    <3> DEFINE n == Len(list.entries)
    <3>1. renamed \in [1 .. n -> PageEntries]
      BY <2>3
    <3> HIDE DEF renamed, n
    <3>2. n \in Nat
      BY <2>2 DEF n
    <3> QED BY <3>1, <3>2, SeqDef
  <2>5. list' \in Lists
    <3>1. list' = [list EXCEPT !.entries = renamed] \/ list' = list
      BY <1>13 DEF CompleteRename
    <3> HIDE DEF renamed
    <3> QED BY <2>4, <3>1 DEF Lists
  <2> QED BY <1>7, <1>13, <2>1, <2>5 DEF CompleteRename
<1>14. CASE CompleteImport
  <2>1. ImportVerdict \in Results
    BY <1>3, <1>4 DEF ImportVerdict, Results
  <2>2. outcome' \in Outcomes
    BY <1>2, <1>14, <2>1 DEF CompleteImport
  <2>3. CASE ImportVerdict = "DONE"
    <3>1. Finished("DONE") \in Ppcs
      BY <1>6, <1>7, <2>3 DEF ImportVerdict
    <3>2. header.state.gen \in 0 .. MaxGen /\ ppc.gen \in 0 .. MaxGen
      BY BoundsAssumption DEF Headers, Snapshots, Ppcs
    <3>3. ppc' \in Ppcs
      BY <1>14, <2>3, <3>1, <3>2 DEF CompleteImport, Ppcs
    <3>4. slot' \in Slots /\ snapshot' = snapshot
      BY <1>14, <1>8a, <2>3 DEF CompleteImport
    <3> QED BY <1>14, <2>2, <3>3, <3>4 DEF CompleteImport
  <2>4. CASE ImportVerdict # "DONE"
    <3>1. slot' \in Slots /\ ppc' \in Ppcs
      BY <1>8, <1>14, <1>8a, <2>4 DEF CompleteImport
    <3>2. slot.backup \in Snapshots \cup {Blank}
      BY DEF Slots
    <3>3. snapshot' \in Memory
      BY <1>14, <2>4, <3>2 DEF CompleteImport, Memory
    <3> QED BY <1>14, <2>2, <3>1, <3>3 DEF CompleteImport
  <2> QED BY <2>3, <2>4
<1> QED BY <1>9, <1>10, <1>11, <1>12, <1>13, <1>14 DEF ServiceStorage

\* Every action of the game keeps the types.
LEMMA GameType ==
  ASSUME TypeInv, Game
  PROVE  TypeInv'
<1>1. GameTypes'
  BY StartType, AnswerType, SlotType, RequestType DEF Game, ClientNext, Tick, Player
<1>2. StorageTypeOK' /\ WorkerShape'
  BY DEF Game, storageVars, card, TypeInv, TypeOK, StorageTypeOK, WorkerShape
<1> QED BY <1>1, <1>2 DEF GameTypes, TypeInv, TypeOK

\* A worker as LmStateStorageInit leaves it is well typed.
LEMMA EmptyType ==
  /\ IdleArm \in Arms /\ NoJob \in Jobs /\ NoMemory \in Memory /\ NoCat \in Cats
  /\ NoRequest \in Requests /\ NoProof \in Proofs /\ NoHeader \in Headers
  /\ NoResponse \in Responses /\ NoReceipt \in Receipts /\ NoPage \in Pages
  /\ NoName \in Names /\ 0 \in KeyIds
<1>1. 0 \in Seqs /\ 0 \in 0 .. MaxSession /\ 0 \in 0 .. MaxId /\ 0 \in 0 .. MaxId + 1
      /\ 0 \in 0 .. MaxCell /\ 0 \in KeyIds
  BY BoundsAssumption DEF Seqs, KeyIds
<1>2. NoPrint \in Prints
  BY NoRecordType DEF NoPrint, Prints
<1>3. IdleArm \in Arms
  BY <1>1 DEF IdleArm, Arms, Statuses
<1>4. NoJob \in Jobs
  BY <1>1, <1>2, NoRecordType, DataAssumption DEF NoJob, Jobs
<1>5. NoMemory \in Memory
  BY DEF NoMemory, Memory
<1>6. NoCat \in Cats
  BY <1>1, EmptySeq DEF NoCat, Cats
<1>7. NoRequest \in Requests /\ NoProof \in Proofs
  BY <1>1, <1>2 DEF NoRequest, Requests, NoProof, Proofs
<1>8. NoResponse \in Responses /\ NoReceipt \in Receipts
  BY <1>1 DEF NoResponse, Responses, NoReceipt, Receipts, Statuses
<1>9. NoPage \in Pages
  BY <1>1, EmptySeq DEF NoPage, Pages
<1> QED
  BY <1>1, <1>3, <1>4, <1>5, <1>6, <1>7, <1>8, <1>9, NoRecordType, DataAssumption

\* A power cut keeps the types.
LEMMA PowerLossType ==
  ASSUME TypeInv, PowerLoss
  PROVE  TypeInv'
<1> USE DEF TypeInv, TypeOK, StorageTypeOK
<1>1. ClientTypeOK'
  BY FreshProcessType DEF PowerLoss
<1>2. keyLine' \in KeyLines
  <2>1. PICK c \in Configs : ResolveKey(keyFiles, c)
    BY DEF PowerLoss, StorageRestart
  <2> QED BY <2>1, ResolveKeyType
<1>3. MailboxTypeOK'
  BY <1>2, EmptyType DEF PowerLoss, StorageRestart, MailboxTypeOK
<1>4. tmps' \subseteq Ids
  BY DEF PowerLoss, StorageRestart
<1>5. arm' = IdleArm
  BY DEF PowerLoss, StorageRestart
<1>6. StorageTypeOK'
  BY <1>4, <1>5, EmptyType DEF PowerLoss, StorageRestart
<1>7. WorkerShape'
  BY <1>5 DEF IdleArm, WorkerShape
<1> QED BY <1>1, <1>3, <1>6, <1>7

-----------------------------------------------------------------------------
\* The first run of the console is well typed.
LEMMA InitType == Init => TypeInv
<1> SUFFICES ASSUME Init PROVE TypeInv
  OBVIOUS
<1> USE DEF Init
<1>1. MailboxTypeOK
  <2>1. keyLine \in KeyLines
    BY EmptyType DEF StorageInit, KeyLines, KeyStatuses
  <2> QED BY <2>1, EmptyType DEF StorageInit, MailboxTypeOK
<1>2. StorageTypeOK
  <2>1. archives \in [Ids -> Files]
    BY StorageAssumption DEF StorageInit
  <2>2. labels \in [Ids -> [0 .. 1 -> NameRecords]]
    BY NoRecordType DEF StorageInit
  <2>3. keyFiles \in [0 .. 1 -> KeyFiles]
    BY EmptyType DEF StorageInit, KeyFiles
  <2> QED BY <2>1, <2>2, <2>3, EmptyType DEF StorageInit, StorageTypeOK
<1>3. ClientTypeOK
  <2>1. 1 \in Sessions
    BY BoundsAssumption DEF Sessions
  <2> QED BY <2>1, FreshType DEF ClientInit, ClientTypeOK
<1>4. WorkerShape
  BY DEF StorageInit, IdleArm, WorkerShape
<1> QED BY <1>1, <1>2, <1>3, <1>4 DEF TypeInv, TypeOK

\* Every step of either processor, a reset and a power cut keep the types and
\* the worker's phases in shape.
LEMMA TypeStep == TypeInv /\ [Next]_vars => TypeInv'
<1> SUFFICES ASSUME TypeInv, [Next]_vars PROVE TypeInv'
  OBVIOUS
<1>1. CASE Worker
  BY <1>1, WorkerType
<1>2. CASE Game
  BY <1>2, GameType
<1>3. CASE Reset
  <2>1. ClientTypeOK'
    BY <1>3, FreshProcessType DEF Reset, TypeInv, TypeOK
  <2>2. MailboxTypeOK' /\ StorageTypeOK' /\ WorkerShape'
    BY <1>3 DEF Reset, mailboxVars, ppcLines, armLines, storageVars, card, TypeInv, TypeOK,
                MailboxTypeOK, StorageTypeOK, WorkerShape
  <2> QED BY <2>1, <2>2 DEF TypeInv, TypeOK
<1>4. CASE PowerLoss
  BY <1>4, PowerLossType
<1>5. CASE UNCHANGED vars
  BY <1>5 DEF vars, mailboxVars, ppcLines, armLines, storageVars, card, clientVars, TypeInv,
              TypeOK, MailboxTypeOK, StorageTypeOK, ClientTypeOK, WorkerShape
<1> QED BY <1>1, <1>2, <1>3, <1>4, <1>5 DEF Next

\* Every reachable state is well typed: in particular no slice is read or
\* written outside the image, no phase handles a file that has no id and the
\* request sequence stays in its word.
THEOREM TypeCorrect == Spec => []TypeOK
<1>1. Spec => []TypeInv
  BY InitType, TypeStep, PTL DEF Spec
<1>2. TypeInv => TypeOK
  BY DEF TypeInv
<1> QED BY <1>1, <1>2, PTL
=============================================================================
