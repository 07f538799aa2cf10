------------------------- MODULE LmPreferencesKernel -------------------------
(***************************************************************************)
(* The kernel's half of the preferences (launcher/kernel/LmPreferences.c): *)
(* loading them before the game starts, and saving them by replacing the   *)
(* configuration file in steps, with the previous file kept as a backup.   *)
(***************************************************************************)
EXTENDS ConfigurationFile

CONSTANT IoFaults   \* whether a file call may fail

ASSUME FaultAssumption == IoFaults \in BOOLEAN

VARIABLE worker   \* [stage, original, draft, status]: where Save is

kernelVars == <<path, backup, launcher, reply, worker>>

Stages == {"IDLE", "UNLINK", "KEEP", "PROMOTE", "ROLLBACK", "ACK"}
Workers == [stage : Stages, original : BOOLEAN, draft : Files, status : LoadStatuses]

IdleWorker == [stage |-> "IDLE", original |-> FALSE, draft |-> EmptyFile,
               status |-> "UNAVAILABLE"]

KernelTypeOK == FileTypeOK /\ worker \in Workers

\* What a boot finds on the card: the section of the file, or of the backup
\* when the file, or its section, is not there.
StoredIn(file, kept) ==
  IF SectionOf(file) # Missing THEN SectionOf(file) ELSE SectionOf(kept)

Stored == StoredIn(path, backup)

\* Only a file that has been moved away leaves its section in the backup alone.
Settled(file, kept) ==
  file # Missing /\ SectionOf(file) = Missing => SectionOf(kept) = Missing

\* Parse, after both files have been looked at.
StatusOf(section) ==
  IF section = Missing THEN "NO_FILE" ELSE IF section = Damaged THEN "INVALID" ELSE "OK"

Loaded(status, values) ==
  /\ request' = [seq |-> 0, values |-> values]
  /\ reply' = [ack |-> 0, status |-> status, ready |-> status # "UNAVAILABLE"]

\* LmPreferencesInit: publish what is stored, or why nothing is.
PreferencesInit ==
  /\ worker' = IdleWorker
  /\ \/ Loaded(StatusOf(Stored), IF StatusOf(Stored) = "OK" THEN Stored ELSE NoValues)
     \/ IoFaults /\ \E status \in {"IO_ERROR", "UNAVAILABLE"} : Loaded(status, NoValues)

Pending == reply.ready /\ request.seq # reply.ack

At(stage) == worker.stage = stage

Finish(status) == worker' = [worker EXCEPT !.stage = "ACK", !.status = status]
Continue(stage) == worker' = [worker EXCEPT !.stage = stage]

DraftOurs == [setup |-> Missing, section |-> request.values]   \* variant: our section alone

\* Copy the source with [lm_preferences] replaced into the temporary and sync
\* it.  The temporary is rewritten from nothing by every save and never read.
Draft ==
  LET source == IF path # Missing THEN path ELSE backup
  IN [setup |-> SetupOf(source), section |-> request.values]

WriteDraft ==
  /\ At("IDLE") /\ Pending
  /\ \/ worker' = [stage |-> IF path # Missing THEN "UNLINK" ELSE "PROMOTE",
                   original |-> path # Missing, draft |-> Draft, status |-> "OK"]
     \/ IoFaults /\ Finish("IO_ERROR")
  /\ UNCHANGED <<path, backup, reply>>

UnlinkBackup ==
  /\ At("UNLINK")
  /\ \/ backup' = Missing /\ Continue("KEEP")
     \/ IoFaults /\ Finish("IO_ERROR") /\ UNCHANGED backup
  /\ UNCHANGED <<path, reply>>

\* Variant: the original makes room for the new file instead of being kept.
DropOriginal ==
  /\ At("KEEP")
  /\ \/ path' = Missing /\ Continue("PROMOTE")
     \/ IoFaults /\ Finish("IO_ERROR") /\ UNCHANGED path
  /\ UNCHANGED <<backup, reply>>

KeepOriginal ==
  /\ At("KEEP")
  /\ \/ backup' = path /\ path' = Missing /\ Continue("PROMOTE")
     \/ IoFaults /\ Finish("IO_ERROR") /\ UNCHANGED fileVars
  /\ UNCHANGED reply

Promote ==
  /\ At("PROMOTE")
  /\ \/ path' = worker.draft /\ Finish("OK")
     \/ /\ IoFaults /\ UNCHANGED path
        /\ IF worker.original THEN Continue("ROLLBACK") ELSE Finish("IO_ERROR")
  /\ UNCHANGED <<backup, reply>>

Rollback ==
  /\ At("ROLLBACK")
  /\ \/ path' = backup /\ backup' = Missing
     \/ UNCHANGED fileVars
  /\ Finish("IO_ERROR")
  /\ UNCHANGED reply

Acknowledge ==
  /\ At("ACK")
  /\ reply' = [reply EXCEPT !.ack = request.seq, !.status = worker.status]
  /\ worker' = IdleWorker
  /\ UNCHANGED fileVars

\* LmPreferencesService, one directory update at a time.
Service ==
  /\ \/ WriteDraft \/ UnlinkBackup \/ KeepOriginal
     \/ Promote \/ Rollback \/ Acknowledge
  /\ UNCHANGED <<launcher, request>>
=============================================================================
