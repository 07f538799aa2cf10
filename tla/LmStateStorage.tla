--------------------------- MODULE LmStateStorage ---------------------------
(***************************************************************************)
(* The kernel's archive worker (LmStateStorage.c) and the SD card it       *)
(* writes.  The main loop calls LmStateStorageService while work is        *)
(* pending; one call is one action, except that a call that changes the    *)
(* card's directory more than once, and the two cache lines of an answer,  *)
(* are one action per change, so that the game can look and the power can  *)
(* fail in between.  A file system call may fail when IoFaults holds.      *)
(***************************************************************************)
EXTENDS LmStateMailbox

CONSTANTS
  IoFaults,      \* whether calls into the file system may fail
  NameGenMax,    \* largest generation of a name record (2^32 - 1 in the code)
  InitialCards   \* archives the card may hold when the console is first used

VARIABLES
  arm,       \* Phase, Seq, Session, Command, RequestId, FileId, Offset
  job,       \* Header, RequestName, RequestSeed and the deletion proof
  draft,     \* bytes written so far to the open temporary file
  cat,       \* Catalog[], CatalogMore and the request a page belongs to
  scan,      \* directory entries f_readdir has still to return
  archives,  \* archive_<id>.lms
  tmps,      \* ids with an archive_<id>.tmp
  labels,    \* archive_<id>.name0 and .name1
  keyFiles   \* archive_key0.bin and archive_key1.bin

card       == <<archives, tmps, labels, keyFiles>>
workVars   == <<job, draft, scan>>
storageVars == <<arm, job, draft, cat, scan, card>>

NoMemory == [c \in Cells |-> Blank]
Files == [header : Headers, complete : BOOLEAN, payload : Memory]
NoFile == [header |-> NoHeader, complete |-> FALSE,
           payload |-> NoMemory]

NameRecords == [gen : 0 .. NameGenMax, name : Names, header : Headers]
NoRecord == [gen |-> 0, name |-> NoName, header |-> NoHeader]

KeyFiles == [status : {"MISSING", "INVALID", "READY"}, id : KeyIds]

\* Phases 0 to 6 of the code, and the points inside one service call.
ServicePhases == {"OPEN", "HEADER", "TRANSFER", "CLOSE", "PUBLISH", "SCAN"}
InnerPhases == {"KEYCOPY0", "KEYCOPY1", "DROPNAME0", "DROPNAME1",
                "WRITENAME", "PLACENAME", "ACK"}

ASSUME StorageAssumption ==
  /\ IoFaults \in BOOLEAN
  /\ NameGenMax \in Nat \ {0}
  /\ InitialCards \subseteq [Ids -> Files]

Arms == [phase : {"IDLE"} \cup ServicePhases \cup InnerPhases,
         seq : Seqs, session : 0 .. MaxSession,
         command : Commands \cup {"NONE"}, requestId : 0 .. MaxId,
         fileId : 0 .. MaxId + 1, offset : 0 .. MaxCell, status : Statuses]

Cats == [entries : Seq(PageEntries), more : BOOLEAN, seq : Seqs,
         session : 0 .. MaxSession]

Jobs == [header : Headers, name : Names, seed : KeyIds, print : Prints]

StorageTypeOK ==
  /\ arm \in Arms
  /\ job \in Jobs
  /\ draft \in Memory
  /\ cat \in Cats
  /\ scan \subseteq Ids
  /\ archives \in [Ids -> Files]
  /\ tmps \subseteq Ids
  /\ labels \in [Ids -> [0 .. 1 -> NameRecords]]
  /\ keyFiles \in [0 .. 1 -> KeyFiles]

-----------------------------------------------------------------------------
(* What the card holds.                                                    *)

Exists(id) == archives[id] # NoFile
PrintOf(file) == [header |-> file.header, complete |-> file.complete]
Readable(file) == file.complete /\ ValidHeader(file.header)

\* ReadNames: the copy with the newest generation written for this envelope.
NamesOf(id, h) == {i \in 0 .. 1 : labels[id][i].gen # 0 /\ labels[id][i].header = h}
LatestCopy(id, h) ==
  IF 0 \in NamesOf(id, h) /\ (1 \in NamesOf(id, h) => labels[id][0].gen >= labels[id][1].gen)
  THEN 0 ELSE 1
LatestName(id, h) ==
  IF NamesOf(id, h) = {} THEN NoRecord ELSE labels[id][LatestCopy(id, h)]

\* ResolveKey over the two copies, and what one uncertain read makes of it.
ResolvedKey(files) ==
  LET ready == {i \in 0 .. 1 : files[i].status = "READY"}
  IN  IF \/ \E i \in 0 .. 1 : files[i].status = "INVALID"
         \/ ready = 0 .. 1 /\ files[0].id # files[1].id
      THEN [status |-> "INVALID", id |-> 0]
      ELSE IF ready = {} THEN [status |-> "MISSING", id |-> 0]
      ELSE [status |-> "READY", id |-> IF 0 \in ready THEN files[0].id ELSE files[1].id]

ResolveKey(files, config) ==
  \E k \in {ResolvedKey(files)} \cup
           (IF IoFaults THEN {[status |-> "IO_ERROR", id |-> 0]} ELSE {}) :
    keyLine' = [status |-> k.status, id |-> k.id, config |-> config]

\* ArchiveIdentityStatus: whose archive is this, for the latched session.
IdentityStatus(h, session) ==
  IF h.version = 1
  THEN IF h.owner = session THEN "OK" ELSE "WRONG_SESSION"
  ELSE IF keyLine.status # "READY" \/ h.owner # keyLine.id THEN "KEY_ERROR"
  ELSE IF h.config = keyLine.config THEN "OK" ELSE "CONFIG_ERROR"

-----------------------------------------------------------------------------
(* Answering.  Finish writes the receipt line, then the response line.     *)

\* Variant: the receipt names the id the worker settled on.
FinishUnderFileId(a, s) ==
  /\ arm' = [a EXCEPT !.phase = "ACK", !.status = s]
  /\ receipt' = [session |-> a.session, command |-> a.command,
                 id |-> a.fileId, seq |-> a.seq]
  /\ cat' = cat

Finish(a, s) ==
  /\ arm' = [a EXCEPT !.phase = "ACK", !.status = s]
  /\ receipt' = [session |-> a.session, command |-> a.command,
                 id |-> a.requestId, seq |-> a.seq]
  /\ cat' = CASE a.command = "CATALOG" /\ s = "OK" ->
                   [cat EXCEPT !.seq = a.seq, !.session = a.session]
              [] a.command = "CATALOG" /\ s # "OK" ->
                   [cat EXCEPT !.seq = 0, !.session = 0]
              [] a.command = "DELETE" -> [cat EXCEPT !.seq = 0, !.session = 0]
              [] OTHER -> cat

Continue(a, phase) ==
  /\ arm' = [a EXCEPT !.phase = phase]
  /\ UNCHANGED <<receipt, cat>>

PublishAck ==
  /\ arm.phase = "ACK"
  /\ response' = [ack |-> arm.seq, status |-> arm.status,
                  resultId |-> arm.fileId, transferred |-> arm.offset]
  /\ arm' = [arm EXCEPT !.phase = "IDLE"]
  /\ UNCHANGED <<receipt, cat, workVars, card, header, page, keyLine, snapshot>>

\* A new request, or a new process, ends the transfer under way.
Superseded ==
  \/ request.session # arm.session \/ request.seq # arm.seq
  \/ request.command # arm.command \/ request.id # arm.requestId

Working(phase, commands) ==
  /\ arm.phase = phase /\ arm.command \in commands
  /\ ~Superseded

Quiet == UNCHANGED <<response, page, keyLine>>

Cancel ==
  /\ arm.phase \in ServicePhases
  /\ Superseded
  /\ Finish(arm, "CANCELLED")
  /\ UNCHANGED <<workVars, card, header, snapshot>> /\ Quiet

-----------------------------------------------------------------------------
(* Phase 0: latch a request and check what it claims.                      *)

\* The deletion names the file that the last page, of this process, listed.
ProofOfAnyProcess ==    \* variant: the page may be an earlier process's
  /\ cat.seq # 0 /\ deleteProof.seq = cat.seq
  /\ \E i \in 1 .. Len(cat.entries) :
       cat.entries[i].id = request.id /\ cat.entries[i].print = deleteProof.print

ProofCurrent ==
  /\ cat.seq # 0 /\ deleteProof.seq = cat.seq /\ cat.session = request.session
  /\ \E i \in 1 .. Len(cat.entries) :
       cat.entries[i].id = request.id /\ cat.entries[i].print = deleteProof.print

WellFormed == request.id # 0 \/ request.command \in {"CATALOG", "KEY"}

LatchStatus ==
  IF ~WellFormed THEN "BAD_FILE"
  ELSE IF request.command = "DELETE" /\ ~ProofCurrent THEN "STALE_SELECTION"
  ELSE IF request.command # "EXPORT" THEN "OK"
  ELSE IF ~ValidHeader(header) THEN "BAD_FILE"
  ELSE IdentityStatus(header, request.session)

Latched == [phase |-> "OPEN", seq |-> request.seq, session |-> request.session,
            command |-> request.command, requestId |-> request.id,
            fileId |-> request.id, offset |-> 0, status |-> "OK"]

\* Each command copies the lines it uses; the other copies stay.
LatchedJob ==
  LET Copied(commands, new, old) ==
        IF WellFormed /\ request.command \in commands THEN new ELSE old
  IN  [header |-> Copied({"EXPORT"}, header, job.header),
       name   |-> Copied({"EXPORT", "RENAME"}, requestName, job.name),
       seed   |-> Copied({"KEY"}, keySeed, job.seed),
       print  |-> IF ProofCurrent THEN Copied({"DELETE"}, deleteProof.print, job.print)
                  ELSE job.print]

\* Variant: a request that is refused is dropped without an answer.
LatchDropped ==
  /\ arm.phase = "IDLE" /\ request.seq # response.ack
  /\ Continue(Latched, IF LatchStatus = "OK" THEN "OPEN" ELSE "IDLE")
  /\ job' = LatchedJob
  /\ UNCHANGED <<draft, scan, card, header, snapshot>> /\ Quiet

Latch ==
  /\ arm.phase = "IDLE" /\ request.seq # response.ack
  /\ IF LatchStatus = "OK" THEN Continue(Latched, "OPEN")
     ELSE Finish(Latched, LatchStatus)
  /\ job' = LatchedJob
  /\ UNCHANGED <<draft, scan, card, header, snapshot>> /\ Quiet

-----------------------------------------------------------------------------
(* KEY: EnsureKey.  Two copies, neither ever overwritten.                  *)

OpenKey ==
  /\ Working("OPEN", {"KEY"})
  /\ ResolveKey(keyFiles, keyLine.config)
  /\ CASE keyLine'.status = "READY"   -> Finish(arm, "OK")
       [] keyLine'.status = "MISSING" -> Continue(arm, "KEYCOPY0")
       [] OTHER                       -> Finish(arm, "KEY_ERROR")
  /\ UNCHANGED <<workVars, card, header, response, page, snapshot>>

KeyRecord == [status |-> "READY", id |-> job.seed]

\* Variant: a failure publishes the key that was to be written.
WriteKeyCopy0Trusting ==
  /\ arm.phase = "KEYCOPY0"
  /\ \/ /\ keyFiles[0].status = "MISSING"
        /\ keyFiles' = [keyFiles EXCEPT ![0] = KeyRecord]
        /\ Continue(arm, "KEYCOPY1")
        /\ UNCHANGED keyLine
     \/ /\ IoFaults
        /\ keyLine' = [keyLine EXCEPT !.status = "READY", !.id = job.seed]
        /\ Finish(arm, "KEY_ERROR")
        /\ UNCHANGED keyFiles
  /\ UNCHANGED <<workVars, archives, tmps, labels, header, response, page, snapshot>>

WriteKeyCopy0 ==
  /\ arm.phase = "KEYCOPY0"
  /\ \/ /\ keyFiles[0].status = "MISSING"
        /\ keyFiles' = [keyFiles EXCEPT ![0] = KeyRecord]
        /\ Continue(arm, "KEYCOPY1")
        /\ UNCHANGED keyLine
     \/ /\ IoFaults
        /\ ResolveKey(keyFiles, keyLine.config)
        /\ Finish(arm, "KEY_ERROR")
        /\ UNCHANGED keyFiles
  /\ UNCHANGED <<workVars, archives, tmps, labels, header, response, page, snapshot>>

WriteKeyCopy1 ==
  /\ arm.phase = "KEYCOPY1"
  /\ \/ /\ keyFiles[1].status = "MISSING"
        /\ keyFiles' = [keyFiles EXCEPT ![1] = KeyRecord]
        /\ ResolveKey(keyFiles', keyLine.config)
        /\ Finish(arm, IF keyLine'.status = "READY" THEN "OK" ELSE "KEY_ERROR")
     \/ /\ IoFaults
        /\ ResolveKey(keyFiles, keyLine.config)
        /\ Finish(arm, "KEY_ERROR")
        /\ UNCHANGED keyFiles
  /\ UNCHANGED <<workVars, archives, tmps, labels, header, response, page, snapshot>>

-----------------------------------------------------------------------------
(* CATALOG: the Capacity smallest ids above the cursor, in readdir order.  *)

OpenCatalog ==
  /\ Working("OPEN", {"CATALOG"})
  /\ \/ /\ arm' = [arm EXCEPT !.phase = "SCAN"]
        /\ scan' = {id \in Ids : Exists(id)}
        /\ cat' = [entries |-> <<>>, more |-> FALSE, seq |-> 0, session |-> 0]
        /\ UNCHANGED receipt
     \/ IoFaults /\ Finish(arm, "IO_ERROR") /\ UNCHANGED scan
  /\ UNCHANGED <<job, draft, card, header, snapshot>> /\ Quiet

Listed(id, name) == [id |-> id, print |-> PrintOf(archives[id]), name |-> name]

InsertedIfRoom(entries, entry) ==    \* variant: a full page keeps what it has
  LET pos == Cardinality({i \in 1 .. Len(entries) : entries[i].id < entry.id})
  IN  IF Len(entries) = Capacity THEN entries
      ELSE SubSeq(entries, 1, pos) \o <<entry>> \o SubSeq(entries, pos + 1, Len(entries))

\* Sorted insertion; a full page drops its largest entry and admits to more.
Inserted(entries, entry) ==
  LET smaller == {i \in 1 .. Len(entries) : entries[i].id < entry.id}
      pos     == Cardinality(smaller)
      all     == SubSeq(entries, 1, pos) \o <<entry>>
                   \o SubSeq(entries, pos + 1, Len(entries))
  IN  SubSeq(all, 1, IF Len(all) > Capacity THEN Capacity ELSE Len(all))

ScanEntry ==
  /\ Working("SCAN", {"CATALOG"})
  /\ \E id \in scan :
       /\ scan' = scan \ {id}
       /\ \/ /\ id <= arm.requestId
             /\ UNCHANGED cat
          \/ /\ id > arm.requestId
             /\ \E name \in {LatestName(id, archives[id].header).name} \cup
                            (IF IoFaults THEN {NoName} ELSE {}) :
                  cat' = [cat EXCEPT
                    !.entries = Inserted(cat.entries,
                      Listed(id, IF ValidHeader(archives[id].header) THEN name ELSE NoName)),
                    !.more = cat.more \/ Len(cat.entries) = Capacity]
  /\ UNCHANGED <<arm, receipt, job, draft, card, header, snapshot>> /\ Quiet

PublishPage ==
  /\ scan = {}
  /\ page' = [after |-> arm.requestId, entries |-> cat.entries, more |-> cat.more]

\* Variant: the page is published and the phase reset, with no acknowledgement.
EndScanUnanswered ==
  /\ Working("SCAN", {"CATALOG"})
  /\ \/ PublishPage /\ Continue(arm, "IDLE")
     \/ IoFaults /\ Finish(arm, "IO_ERROR") /\ (PublishPage \/ UNCHANGED page)
  /\ UNCHANGED <<workVars, card, header, snapshot, response, keyLine>>

\* A page that was written is refused all the same if closing fails.
EndScan ==
  /\ Working("SCAN", {"CATALOG"})
  /\ \/ PublishPage /\ Finish(arm, "OK")
     \/ IoFaults /\ Finish(arm, "IO_ERROR") /\ (PublishPage \/ UNCHANGED page)
  /\ UNCHANGED <<workVars, card, header, snapshot, response, keyLine>>

-----------------------------------------------------------------------------
(* DELETE: DeleteArchive, then its two name records.                       *)

DeleteStatus ==
  IF ~Exists(arm.fileId) THEN "NOT_FOUND"
  ELSE IF PrintOf(archives[arm.fileId]) # job.print THEN "STALE_SELECTION" ELSE "OK"

\* Variant: the name records go before the archive does.
DeleteNamesFirst ==
  /\ Working("OPEN", {"DELETE"})
  /\ DeleteStatus = "OK"
  /\ labels' = [labels EXCEPT ![arm.fileId] = [i \in 0 .. 1 |-> NoRecord]]
  /\ Continue(arm, "DROPNAME0")
  /\ UNCHANGED <<workVars, archives, tmps, keyFiles, header, snapshot>> /\ Quiet

DeleteArchive ==
  /\ Working("OPEN", {"DELETE"})
  /\ \/ IF DeleteStatus = "OK"
        THEN /\ archives' = [archives EXCEPT ![arm.fileId] = NoFile]
             /\ Continue(arm, "DROPNAME0")
        ELSE Finish(arm, DeleteStatus) /\ UNCHANGED archives
     \/ IoFaults /\ Finish(arm, "IO_ERROR") /\ UNCHANGED archives
  /\ UNCHANGED <<workVars, tmps, labels, keyFiles, header, snapshot>> /\ Quiet

\* A record that cannot be looked up or removed stays, and the end reports it.
DropName(i, stays) ==
  /\ stays => IoFaults
  /\ labels' = IF stays THEN labels ELSE [labels EXCEPT ![arm.fileId][i] = NoRecord]
  /\ UNCHANGED <<workVars, archives, tmps, keyFiles, header, snapshot>> /\ Quiet

Cleanup(stays) == IF stays THEN "DELETE_CLEANUP" ELSE arm.status

DropName0 ==
  /\ arm.phase = "DROPNAME0"
  /\ \E stays \in BOOLEAN :
       /\ DropName(0, stays)
       /\ Continue([arm EXCEPT !.status = Cleanup(stays)], "DROPNAME1")

DropName1 ==
  /\ arm.phase = "DROPNAME1"
  /\ \E stays \in BOOLEAN : DropName(1, stays) /\ Finish(arm, Cleanup(stays))

-----------------------------------------------------------------------------
(* Names: WriteName replaces the older copy, in two directory updates.     *)

NameFailureIgnored == "OK"   \* variant: a name that could not be written is not reported

NameFailure == IF arm.command = "EXPORT" THEN "NAME_ERROR" ELSE "IO_ERROR"

RenameStatus ==
  IF ~Exists(arm.fileId) THEN "NOT_FOUND"
  ELSE IF ~Readable(archives[arm.fileId]) THEN "BAD_FILE" ELSE "OK"

OpenRename ==
  /\ Working("OPEN", {"RENAME"})
  /\ \/ IF RenameStatus = "OK"
        THEN /\ job' = [job EXCEPT !.header = archives[arm.fileId].header]
             /\ Continue(arm, "WRITENAME")
        ELSE Finish(arm, RenameStatus) /\ UNCHANGED job
     \/ IoFaults /\ Finish(arm, "IO_ERROR") /\ UNCHANGED job
  /\ UNCHANGED <<draft, scan, card, header, snapshot>> /\ Quiet

\* The temporary record is durable; the copy it replaces goes first.
RemoveOldName ==
  /\ arm.phase = "WRITENAME"
  /\ \/ /\ LatestName(arm.fileId, job.header).gen < NameGenMax
        /\ labels' = [labels EXCEPT
             ![arm.fileId][1 - LatestCopy(arm.fileId, job.header)] = NoRecord]
        /\ Continue(arm, "PLACENAME")
     \/ /\ IoFaults \/ LatestName(arm.fileId, job.header).gen = NameGenMax
        /\ Finish(arm, NameFailure) /\ UNCHANGED labels
  /\ UNCHANGED <<workVars, archives, tmps, keyFiles, header, snapshot>> /\ Quiet

PlaceName ==
  /\ arm.phase = "PLACENAME"
  /\ \/ /\ LatestName(arm.fileId, job.header).gen < NameGenMax
        /\ labels' = [labels EXCEPT
             ![arm.fileId][1 - LatestCopy(arm.fileId, job.header)] =
               [gen |-> LatestName(arm.fileId, job.header).gen + 1,
                name |-> job.name, header |-> job.header]]
        /\ Finish(arm, "OK")
     \/ IoFaults /\ Finish(arm, NameFailure) /\ UNCHANGED labels
  /\ UNCHANGED <<workVars, archives, tmps, keyFiles, header, snapshot>> /\ Quiet

-----------------------------------------------------------------------------
(* EXPORT and IMPORT: open, header, one slice per call, close, publish.    *)

TakenByFile(id) == Exists(id) \/ id \in tmps    \* variant: orphaned names do not count

\* An id with an archive, an orphaned name or a leftover temporary is taken.
Taken(id) ==
  Exists(id) \/ id \in tmps \/ \E i \in 0 .. 1 : labels[id][i] # NoRecord

OpenExport ==
  /\ Working("OPEN", {"EXPORT"})
  /\ \/ /\ Taken(arm.fileId)
        /\ LET a == [arm EXCEPT !.fileId = arm.fileId + 1]
           IN  IF a.fileId > MaxId THEN Finish(a, "FULL") ELSE Continue(a, "OPEN")
        /\ UNCHANGED <<tmps, draft>>
     \/ /\ ~Taken(arm.fileId)
        /\ tmps' = tmps \cup {arm.fileId}
        /\ draft' = NoMemory
        /\ Continue(arm, "HEADER")
     \/ IoFaults /\ Finish(arm, "IO_ERROR") /\ UNCHANGED <<tmps, draft>>
  /\ UNCHANGED <<job, scan, archives, labels, keyFiles, header, snapshot>> /\ Quiet

OpenImport ==
  /\ Working("OPEN", {"IMPORT"})
  /\ \/ ~Exists(arm.fileId) /\ Finish(arm, "NOT_FOUND")
     \/ Exists(arm.fileId) /\ Continue(arm, "HEADER")
     \/ IoFaults /\ Finish(arm, "IO_ERROR")
  /\ UNCHANGED <<workVars, card, header, snapshot>> /\ Quiet

WriteHeader ==
  /\ Working("HEADER", {"EXPORT"})
  /\ \/ Continue(arm, "TRANSFER")
     \/ IoFaults /\ Finish(arm, "IO_ERROR")
  /\ UNCHANGED <<workVars, card, header, snapshot>> /\ Quiet

ReadHeader ==
  /\ Working("HEADER", {"IMPORT"})
  /\ LET file == archives[arm.fileId]
         s    == IF ~Readable(file) THEN "BAD_FILE"
                 ELSE IdentityStatus(file.header, arm.session)
     IN  /\ \/ s = "OK" /\ Continue(arm, "TRANSFER")
            \/ s # "OK" /\ Finish(arm, s)
            \/ IoFaults /\ Finish(arm, "IO_ERROR")
         /\ job' = [job EXCEPT !.header = file.header]
  /\ UNCHANGED <<draft, scan, card, header, snapshot>> /\ Quiet

NextSlice == arm.offset + 1
Advanced == [arm EXCEPT !.offset = NextSlice]

\* A read that fails part-way may still have changed the memory.
Transfer ==
  /\ Working("TRANSFER", {"EXPORT", "IMPORT"})
  /\ \/ /\ Continue(Advanced, IF NextSlice = MaxCell THEN "CLOSE" ELSE "TRANSFER")
        /\ IF arm.command = "EXPORT"
           THEN /\ draft' = [draft EXCEPT ![NextSlice] = snapshot[NextSlice]]
                /\ UNCHANGED snapshot
           ELSE /\ snapshot' = [snapshot EXCEPT
                     ![NextSlice] = archives[arm.fileId].payload[NextSlice]]
                /\ UNCHANGED draft
     \/ /\ IoFaults /\ Finish(arm, "IO_ERROR")
        /\ \/ arm.command = "IMPORT" /\ snapshot' = [snapshot EXCEPT ![NextSlice] = Blank]
           \/ UNCHANGED snapshot
        /\ UNCHANGED draft
  /\ UNCHANGED <<job, scan, card, header>> /\ Quiet

Close ==
  /\ Working("CLOSE", {"EXPORT", "IMPORT"})
  /\ \/ Continue(arm, "PUBLISH")
     \/ IoFaults /\ Finish(arm, "IO_ERROR")
  /\ UNCHANGED <<workVars, card, header, snapshot>> /\ Quiet

\* RenameArchive gives the complete file its name; FatFs never replaces one.
PublishExport ==
  /\ Working("PUBLISH", {"EXPORT"})
  /\ \/ /\ archives' = [archives EXCEPT ![arm.fileId] =
             [header |-> job.header, complete |-> TRUE, payload |-> draft]]
        /\ tmps' = tmps \ {arm.fileId}
        /\ Continue(arm, "WRITENAME")
     \/ IoFaults /\ Finish(arm, "IO_ERROR") /\ UNCHANGED <<archives, tmps>>
  /\ UNCHANGED <<workVars, labels, keyFiles, header, snapshot>> /\ Quiet

PublishImport ==
  /\ Working("PUBLISH", {"IMPORT"})
  /\ header' = job.header
  /\ Finish(arm, "OK")
  /\ UNCHANGED <<workVars, card, snapshot>> /\ Quiet

-----------------------------------------------------------------------------
IdleArm == [phase |-> "IDLE", seq |-> 0, session |-> 0, command |-> "NONE",
            requestId |-> 0, fileId |-> 0, offset |-> 0, status |-> "OK"]

NoJob == [header |-> NoHeader, name |-> NoName, seed |-> 0, print |-> NoPrint]
NoCat == [entries |-> <<>>, more |-> FALSE, seq |-> 0, session |-> 0]

\* LmStateStorageInit on a card that never had a key.
StorageInit ==
  /\ arm = IdleArm /\ job = NoJob /\ draft = NoMemory /\ cat = NoCat /\ scan = {}
  /\ request = NoRequest /\ requestName = NoName /\ keySeed = 0 /\ deleteProof = NoProof
  /\ header = NoHeader /\ response = NoResponse /\ receipt = NoReceipt /\ page = NoPage
  /\ archives \in InitialCards
  /\ tmps = {}
  /\ labels = [id \in Ids |-> [i \in 0 .. 1 |-> NoRecord]]
  /\ keyFiles = [i \in 0 .. 1 |-> [status |-> "MISSING", id |-> 0]]
  /\ \E c \in Configs : keyLine = [status |-> "MISSING", id |-> 0, config |-> c]
  /\ snapshot = NoMemory

\* Power fails and returns: RAM is gone, the card is not, except perhaps the
\* directory entry of a temporary file that was never synced.
StorageRestart ==
  /\ arm' = IdleArm /\ job' = NoJob /\ draft' = NoMemory /\ cat' = NoCat /\ scan' = {}
  /\ request' = NoRequest /\ requestName' = NoName /\ keySeed' = 0 /\ deleteProof' = NoProof
  /\ header' = NoHeader /\ response' = NoResponse /\ receipt' = NoReceipt /\ page' = NoPage
  /\ \E c \in Configs : ResolveKey(keyFiles, c)
  /\ \/ UNCHANGED tmps
     \/ /\ arm.command = "EXPORT" /\ arm.phase \in {"HEADER", "TRANSFER", "CLOSE"}
        /\ tmps' = tmps \ {arm.fileId}
  /\ snapshot' = NoMemory
  /\ UNCHANGED <<archives, labels, keyFiles>>

StorageStep ==
  \/ PublishAck \/ Cancel \/ Latch
  \/ OpenKey \/ WriteKeyCopy0 \/ WriteKeyCopy1
  \/ OpenCatalog \/ ScanEntry \/ EndScan
  \/ DeleteArchive \/ DropName0 \/ DropName1
  \/ OpenRename \/ RemoveOldName \/ PlaceName
  \/ OpenExport \/ OpenImport \/ WriteHeader \/ ReadHeader
  \/ Transfer \/ Close \/ PublishExport \/ PublishImport

\* The worker never writes a line the game owns.
StorageNext == StorageStep /\ UNCHANGED ppcLines
=============================================================================
