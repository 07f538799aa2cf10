# Darkmoonshine: a TLA+ model of what two processors do to one SD card

The repository turns a Wii into a practice console for *Luigi's Mansion* (and, in the
parts it inherits, for *Super Mario Sunshine*): a Nintendont-derived kernel runs on
one processor (ARM, "Starlet"), the game and an injected payload run on the other
(PowerPC). They share physical memory, without coherent caches and without locks, and
only the kernel can reach the SD card. Every feature that outlives the game is therefore a
small protocol: the game fills a mailbox and rings, the kernel copies and writes files,
and answers. The game may be reset at any instruction, the power may fail between any two
directory updates, and any file call may fail.

This directory models the four such protocols of the repository, checks them with TLC,
and proves the most important properties with TLAPS:

- **state storage**: save states between the game and archives on the card;
- **preferences**: the settings of the mod, in a file shared with the launcher;
- **crash telemetry**: a trace of what the game was doing, and crash reports;
- **binary journals**: personal bests, records, stage targets, split statistics.

## 1. The system's parts

| part | code | state | operations | hard behaviours | correct when |
|---|---|---|---|---|---|
| State mailbox, protocol 6 | `include/susamune/lm_state_storage.h` | 928 bytes, one owner per cache line; the MEM2 snapshot reservation | write-back and invalidate of a line | neither side can lock; lines of one answer become visible one after the other | an answer is taken for the request it answers, and no other |
| Archive worker | `launcher/kernel/LmStateStorage.c` | `Phase`, `Seq`, `Session`, `Command`, `FileId`, `Offset`, cached page, the card | `LmStateStorageService`: EXPORT, IMPORT, CATALOG, RENAME, KEY, DELETE, cancellation | any file call may fail; a request may be superseded at any slice; power may fail between two directory updates | the card never loses, tears, mixes up or resurrects an archive, a name or the key |
| State client | `lm_diag/src/lm_state_storage.inc`, `lm_archive_delete.h` | `sStorage*`, key view, cached page, delete prompt | `initializeStorage`, `beginStorage`, `serviceStorage` | a reset restarts the client alone, in the middle of anything | what the player is told is true; a failed import costs nothing |
| Resident slot and `tick` | `lm_diag/src/lm_state.cpp` | `sSlots`, `sMenuRequest`, `sGeneration` | `initializeSlot`, `saveState`, `loadState`, `clearSelectedSlot` | shares its memory with the worker | the slot is whole or marked empty |
| Preferences | `launcher/kernel/LmPreferences.c`, `lm_preferences.cpp`, the launcher's `SusamuneIni.c` | a mailbox of 48 words; a configuration file, its backup and a temporary | load at boot, adopt, edit, queue, save in up to four directory updates | two programs rewrite one file; the player edits before, during and after loading and saving | an acknowledged save is what the next boot loads; nobody's words are lost |
| Crash telemetry | `launcher/kernel/SusamuneCrash.c`, `lm_crash.cpp`, `lm_crash_telemetry.h` | a phase line, a ring of critical phases, a crash report; eight rotating dump files, two report files | publish, drain, sample, rotate, capture, report | the reader races a writer that may die at any store, and whose cache writes back when it likes | what is written is whole, in order, complete since the save; the newest survives |
| Binary journals | `launcher/kernel/SusamuneCfg.c`; `records_persistence.cpp`, `iling.cpp`, `stage_targets.cpp`, `split_stats.cpp` | per journal: a mailbox, two files written in turn, their generation | boot, ring, copy, truncate, write, acknowledge; edit, retry, reset of all records | five journals share one service; the game edits while its last request is copied | what the menu calls saved is saved; what was reset stays reset; a newer launcher's file is not written over |
| Main loop | `launcher/kernel/main.c` | one pass over a priority chain | calls one service per pass | starvation of the low priorities | every service with work is eventually called |
| Capture, codecs, authentication, retained owners | `lm_state_shared.inc`, `lm_state_deflate.*`, `lm_state_codec.h`, `lm_state_auth.h`, `lm_persistent_profile.h` | buffers | pack, unpack, sign, compare | bounds of byte streams | decoding inverts encoding |
| Warps, practice menu, timer, tools | `lm_warp.cpp`, `lm_practice.cpp`, `lm_timer*.cpp`, ... | per-frame state over game objects | hooks called by the game | game state changing under a warp | no half-applied warp |
| Scene and heap guards | `lm_exp_heap.h`, `lm_grain_state.h`, ... | none | pure validators | malformed lists | every walk ends and accepts only closed heaps |
| Inherited: ghosts, the rest of the Sunshine payload, Nintendont's DI/EXI/SI/HID, FatFs, loader, code handler | `launcher/`, `src/src` | | | | third-party or unused by this game |

How they interact: the kernel's main loop looks, in this order, at disc reads, crash
reports, binary journals, settings, preferences, ghosts and archives, and gives one of
them a step per pass. The services share no state but the card, where each has files of
its own (the launcher and the preferences share one), so each protocol is a composition
of its own: `LmStateSystem`, `LmPreferencesSystem`, `LmCrashSystem`, `JournalSystem`. A soft
reset starts a new payload while the kernel, the mailboxes and MEM2 carry on. A power
cut leaves only the card.

`PROJECT.json` lists every part, modelled or not, and the hazards at their lines.

## 2. Modules

| module | models |
|---|---|
| `LmStateMailbox` | the shared memory: one variable per cache line or group of lines with one writer, the values they carry, `ReceiptMatches`, `NextSeq` |
| `LmStateStorage` (extends the mailbox) | the worker's statics and the card; one action per phase and command of `LmStateStorageService` |
| `LmStateClient` (extends the mailbox) | the game's statics; one action per call of `tick()` and per request of the menu |
| `ArchiveStore` | the abstract card: archives appear, are renamed and disappear in one step each, and never change otherwise; the key appears once |
| `LmStateSystem` (extends storage and client) | the two processors interleaved, resets and power cuts, fairness, properties, refinement of `ArchiveStore` |
| `LmPreferencesBlock` | the mailbox: the request, the reply, the words a section holds |
| `ConfigurationFile` | the file, its backup, and the launcher that reads and rewrites it in place |
| `LmPreferencesKernel` | loading at boot; a save, one directory update at a time |
| `LmPreferencesGame` | adopting, merging, queueing and publishing, one frame at a time |
| `PreferenceRegister` | the abstract register: a save replaces one value in one step, and the answer says whether it did |
| `LmPreferencesSystem` | launcher, kernel and game on one card; properties, refinement of `PreferenceRegister` |
| `LmCrashMailbox` | the phase line, the ring with its two control lines as memory and as their owner's cache hold them, the report |
| `LmCrashGame` | publishing a phase and enqueueing it store by store, capturing a crash; the cache writing a line back by itself |
| `LmDumpJournal` | the dump files and the table the kernel keeps of them |
| `LmCrashKernel` | the poll (drain, sample, look again) and the service that writes reports |
| `CriticalQueue` | the abstract ring: a bounded queue that keeps what it took, in order |
| `LmCrashSystem` | both, with resets at any instruction; properties, refinement of `CriticalQueue` |
| `BinaryJournals` | the kernel's side of the journals: boot, priority, copying in two parts, truncate, write, acknowledge |
| `JournalClients` | the game's side: edit, reset of all records, stage in two parts, ring, poll, retry or give up |
| `JournalRegister` | the abstract bank of registers: what was acknowledged last is not lost |
| `JournalSystem` | both, with resets and power cuts; properties, refinement of `JournalRegister` |
| `MCLmState`, `MCLmPreferences`, `MCLmCrash`, `MCJournal` | values for TLC: what is on the card at first |
| `LmStateTypeProofs`, `LmStateProtocolProofs`, `LmStateStoreProofs`, `LmStateOutcomeProofs` | the theorems about state storage, each module resting on those before it |
| `LmPreferencesProofs`, `JournalProofs` | the theorems about preferences and journals |
| `LmCrashRingProofs`, `LmCrashDumpProofs` | the theorems about crash telemetry: what the kernel takes, and what it writes |

### How the models correspond to the code

State storage:

- **Cache lines.** Each side writes whole lines of its own and publishes them by a
  write-back, so a variable changes as a whole. The order in which one side writes
  *different* lines matters and is kept: `Finish` writes `receipt` and enters the
  phase `ACK`; `PublishAck` then writes `response`. On the game's side the request
  line is last and one action writes all lines: before `requestSeq` changes the
  worker is idle (theorem `WorkerIsIdle`) and reads none of the others.
- **Service calls.** One action is one call of `LmStateStorageService`. A call that
  updates the card's directory more than once is one action per update
  (`KEYCOPY0`, `KEYCOPY1`, `DROPNAME0`, `DROPNAME1`, `WRITENAME`, `PLACENAME`), because
  the power may fail in between. Everything else the call does belongs to the action.
- **File calls** fail nondeterministically when `IoFaults` holds, each failure
  taking the code's own error path. A failed read in an import may already have changed
  memory. A power cut may drop a temporary that was never synced.
- **tick()** is `initializeSlot`, `serviceStorage`, menu and hotkeys, in turn. Each
  is an action, since the worker runs between any two of them. Nothing makes the model call
  them every frame but fairness, so a slow frame is covered.
- **Data.** A snapshot is `[owner, gen, profile]`: process, generation, and whether it
  carries a retained-owner profile. Memory is a few cells (slices), each holding a
  snapshot or `Blank`; the first cell carries the header with the commit word. A file's
  CRC-32 and SipHash tag are the header fields themselves, that is, checksums are
  taken as injective. A key is the session whose seed made it; 0 is another card's.
- **Sessions** are fresh per process: `initializeStorage` mixes time-base and
  hardware words, and the code relies on them never repeating.

Preferences:

- A **file** is two parts, the launcher's section and `[lm_preferences]`; a section is a
  function on the words it holds, `Missing`, or `Damaged`: the parser is modelled by its verdict.
- `Save` is one action per directory update: `WriteDraft` (the temporary, synced; it is
  rewritten from nothing each time and never read, so it is a field of `worker`),
  `UnlinkBackup`, `KeepOriginal`, `Promote`, `Rollback`, `Acknowledge`.
- The **launcher** truncates and rewrites the file in place, copying other sections
  through; a power cut leaves any beginning of the new file (`Torn`).
- A **frame** of the game is one action: `LMPractice::tick`, in which the player does at most
  one thing, then `LMPreferences::tick` with everything it calls. The game takes a reset
  between frames, and the kernel reads the values only once the request line asks it to.

Crash telemetry:

- `phase()` is four actions (numbers odd, contents, first number, second number), and
  `WriteBack` lets the cache write the line to memory between any two of them.
- Each **control line** of the ring is two variables: memory (`producer`, `consumer`) and the
  owner's cache (`control`, `released`). Enqueueing is `PutEntry`, then `PutCursor` (or
  `CountDropped` at a full ring), then `PutInverse`, which completes and publishes the line;
  the kernel's `Acknowledge` and `Release` are the same two stores. `WriteBackControl`
  and `WriteBackConsumer` write a line back between them, so memory may hold a torn line. To
  the other side that is a line without its inverse, in whichever order the compiler puts
  the two stores. A torn line is refused, and the refusal is modelled by what it does: the poll
  does not drain and does not look again, but still handles what it sampled (`Drain`, `Recheck`);
  the game drops the record without counting it (`Refuse`); the next process takes a torn line up
  as it is, since `LmCriticalAttach` initialises only a line without the magic (`CriticalAttach`).
  A line is *read* whole: the readers invalidate it and fetch it once.
- The kernel's poll is one action per read of shared memory and per file operation, `Sample`
  and `Recheck` among them.
- `captureException` may interrupt the game at any instruction. `READY` is in the
  cache before the checksum, so `WriteBackReport` may publish it too soon.
- What the code takes from the retail game for a record is `event`, a number that tells the
  phases apart. Dump files are sequences of records; a torn one has generation 0.

Binary journals:

- A **payload** is two parts, so that a copy taken while the other side writes is visible
  as a mixture. `Stage` fills the first and `Ring` the second part and the number;
  `CopyFirst` and `CopySecond` are the kernel's copy.
- A **file** is good, in a newer format, or neither. `Open` truncates the file that is
  not the newest, `Write` fills it; each may fail having done its work or not.
- A file that **cannot be read** at boot makes the journal read-only (`Safe`), except that a
  personal-best file of another length counts as torn.
- Delays before a save or a retry are left to the scheduler. A time-out on the screen
  changes no protocol state, as the code goes on waiting for the same request.
- The **targets** give up after a failed save, the other journals retry (`Failed`).

Definitions with the comment "variant" change one definition the way a plausible
bug would; `PROJECT.json` names the property that then fails.

## 3. Properties and runs

| run | question | instance |
|---|---|---|
| `transfer` | Do exports and imports stay true under failing file calls, strange archives and a reset at any step? | 2 processes, ids 1..2, snapshots of 2 slices, 2 builds; the card holds one of: an archive of another card, a file that is no archive, a damaged payload, another build's archive |
| `name_faults` | Does the card implement the abstract store when any file call may fail, and does a message of success vouch for the name? | 1 process, 1 id, 2 names, 2 name generations; export, catalogue, rename, delete |
| `delete` | Are pages exact, names included, and is only the confirmed file removed, whatever a reset or a power cut leaves undone? | 2 processes, 2 ids, page capacity 1, 2 names, full cards; catalogue, rename, delete |
| `keys` | Can an archive outlive its key? Does the protocol hold over three processes? | 3 processes, 2 launcher set-ups, failing calls, resets and power cuts |
| `progress` | Is every key request, export, import and catalogue answered, and does every start-up end? | fairness; 2 processes, 1 id, taken by another card's archive, failing calls |
| `reset_cancels` | Does a reset cancel a transfer, as the comment says? | expected to be violated, see section 6 |
| `prefs_replace` | Is a save atomic and its message true? | 1 word, failing calls, power cuts, 3 resets or restarts; every kind of card |
| `prefs_player` | Does what the player sets reach the card, and nothing else change? | fairness; 2 words, the launcher writing, 1 reset or restart |
| `prefs_setup_lost` | Does a power cut spare the launcher's settings, as the testing notes say? | expected to be violated, see section 6 |
| `telemetry` | Is what the kernel handles whole, in order and complete, whatever a cache writes back in the middle of a change? Does the newest file survive, and is the ring emptied? | fairness; 3 phases or crashes, ring of 2, 3 dump files, failing writes, 1 reset or power cut |
| `jumps_ahead` | Do samples wait for the backlog, as the telemetry notes say? | expected to be violated, see section 6 |
| `journals` | Are saves atomic per journal, and what is shown as saved saved, while journals compete? | fairness; personal bests, records and targets; 4 versions, 2 failing calls, 2 resets or power cuts; a card with both files good and one with a newer format |

What the properties say (each is stated in full in its system module):

State storage (`LmStateSystem`)

- `Protocol` and its visible parts `NoBadResponse`, `WorkerIdleBetweenRequests`: an
  answer is never taken for another request's, even across a reset and with
  sequence numbers wrapping round; nothing new begins while the worker owes work.
- `SlotOwnership`, `SlotIntact`: the worker writes MEM2 only for the import the
  current process waits for, or before the process owns it; outside an import the slot
  is one whole state or marked empty.
- `PublishedWhole`: an archive that appears is complete and holds the state of its
  envelope, though it is copied slice by slice while the game goes on.
- `ExportTruth`: after EXPORTED or NAME NOT SAVED the card holds the slot's state under
  the id of the message (and, for EXPORTED, under the given name). `transfer` gives no names
  (`Names = {NoName}`) and shows the rest; `name_faults` gives names and shows that part.
- `ImportAtomic`: an import ends with the chosen file in the slot, or with the slot as
  it was before.
- `StoreImplemented`: the card refines `ArchiveStore`. A rename takes two directory
  updates and is still atomic; a name never comes back with another archive. Every state between
  two updates is looked at, so a call that fails there (`name_faults`) shows on the card what
  a power cut would; `delete` adds the restart.
- `DeleteExact`, `PageExact`: only the file the player was shown is removed, and
  pages miss nothing, show the newest names and say so when there is more.
- `KeyOutlivesArchives`: no order of failures publishes an archive whose key is lost.
- `RequestsEnd`, `StartupEnds`: progress.

Preferences (`LmPreferencesSystem`)

- `SavedMeansStored`: SAVED TO SD is true for as long as it is shown.
- `LineOwned`: a process that has adopted the block numbers its saves as the block does.
- `RegisterImplemented`: the file, its backup and the temporary refine one register.
- `UntouchedKept`: no save changes a stored word the player never changed.
- `LauncherSettingsKept`: the launcher starts with the settings it was left with; it
  holds without power cuts and is violated with them.
- `EditsReachCard`: once the menu is closed, what the player set is what the next boot
  brings back, or a failure is reported.

Crash telemetry (`LmCrashSystem`)

- `RecordsWhole`: the kernel takes no mixture of two phases for a phase.
- `EmittedInOrder`: phases are handled in the order of publication and once, though they arrive
  by two ways. The exception: a phase sampled while a control line could not be read
  (`strays`) may be ahead of critical ones that waited in the ring; critical phases are even then
  handled in the order of their numbers.
- `CriticalKept`: a critical phase that got into the ring is handled or waits there, unless
  the order of the numbers has passed it over (`PassedOver`): a critical one with a number no
  smaller was handled first, either sampled past the torn line or from before a reset
  that made the numbers start again. Records kept out of the ring are `lost`: refused at a
  torn line, dropped at a full ring, or cut short with their process.
- `DumpFollows`: the open dump holds everything handled since the save that opened it.
- `NewestKept`: nothing newer is overwritten by something older, through power cuts and
  wrapped generations.
- `RingIsQueue`: the ring refines a bounded queue.
- `QueueDrains`, `CrashReported`: the ring empties though the game is dead, unless the game left
  its control line torn for good; a captured crash reaches the card or its file cannot be written.

Each of the exceptions is met: without it TLC finds `EmittedInOrder`, `CriticalKept` and
`QueueDrains` violated.

Binary journals (`JournalSystem`)

- `FilesWhole`: a file with a good checksum holds one payload.
- `ShownSaved`: when the menu shows neither "saving" nor "not checkpointed" nor an error,
  a restart finds exactly what is shown.
- `ResetSticks`: once both writes of a reset are over, neither file can bring the old
  records back.
- `NewerFormatKept`: a newer launcher's file is never written over.
- `JournalsImplemented`: each pair of files refines a register that keeps what it
  acknowledged last.
- `EditsSaved`: when the player pauses and the card works, every change ends on the
  card, in every journal, although one service serves them in a fixed order.

### Bounds, and why they are enough

State storage

- `MaxSession` 2 or 3: a new process can meet the leftovers of one before it; with 3, of
  two. The protocol invariant, proved for every bound, relates only the
  current process to what is in the mailbox.
- `SeqMax` 2 or 3 stands for 2^32 - 1, so the wrap that skips zero happens
  within a few requests. The theorems hold for every `SeqMax >= 2`.
- `MaxCell` 2 lets an archive or an import be torn; 1 where tearing is not the question.
- `MaxId` 2 with `Capacity` 1: pages overflow, ids run out (`FULL`), an export walks
  past taken ids. `MaxId` 1 where only one file matters.
- `NameGenMax` 2 stands for 2^32 - 1: both copies get used, one is replaced, and
  the generation runs out.
- `MaxGen` 1: the states that could be mixed are those of two processes or of an archive.

Preferences

- One word with two values tells old from new contents, which is all that atomicity asks;
  two words in `prefs_player`, where one is the player's and one is not.
- `MaxRuns` 3 in `prefs_replace`: a save may be cut, its recovery cut again, and the next
  one observed. The theorems hold for every bound, under the hypotheses of section 4.
- `UntouchedKept` is checked without failing calls. With them TLC finds what the code
  does: preferences that could not be read leave the mod on its defaults, and the next
  change saves all words, so defaults replace what the player had stored. It is listed as
  a hazard without a property.

Crash telemetry

- `RingSize` 2 with `CursorSpan` 4: the ring fills, overflows and wraps. `Span` 32 stands for
  2^32 in sequence numbers and generations; the files start with generations just below
  it, so those wrap. The numbers of phases do not reach their wrap in 3 events. `DropMax` 1:
  the count of dropped records saturates at once.
- `SlotCount` 3 instead of 8, all in use: one is newest, one oldest, one neither. `DrainMax` 1
  instead of 4 gives every interleaving of a drain with a sample.
- `MaxEvents` 3: a record in the ring, a sampled one, and one whose control line is torn; or a save, a
  phase of the dump it opens, and a crash or another save. `MaxRuns` 1. The theorems
  hold for every bound.

Binary journals

- Three journals of the five: the personal bests (first, and laxer with strange files),
  the records (with resets) and the targets (which give up). The split statistics follow
  the protocol of the records.
- `Span` 8 stands for 2^32; the generations start at its end and wrap. Failing calls and
  runs are bounded by 2: a failed write that left a good file behind, then a power cut in
  the retry. The theorems hold for every bound; two of them while the game is reset less often
  than there are numbers.

### Fairness

- State storage: weak fairness of the worker as a whole, of `InitializeStorage`, of
  `InitializeSlot` and of `ServiceStorage`. The last three are calls of `tick()`, which the game makes
  once a frame.
- Preferences: `WF(Kernel)` and `WF(IdleFrame)`, a frame in which the player does nothing.
- Telemetry: `WF(Kernel)` only; the game may die.
- Journals: `WF(Kernel)` as a whole, not per journal, so that the order of priority must do
  the rest; and, per journal, fairness of the client's call in each frame.

Fairness of a kernel service says that the main loop gets to it eventually. The loop
calls a service only when no branch before it has work (`main.c`, the priority chain); the
code does not enforce that, and it is listed as a hazard. Nothing is assumed about
the player, about resets or about failures, whose number is bounded instead: what
must happen eventually happens after the last of them.

Deadlock is checked except in `journals`, where the player may stop for good.

## 4. What is proved

For every value of the constants, with the TLA+ proof system:

| module | theorem | states |
|---|---|---|
| `LmStateTypeProofs` | `TypeCorrect` | `Spec => []TypeOK` |
| `LmStateProtocolProofs` | `ProtocolHolds` | `Spec => []Protocol` |
| | `AnswersAreOwn` | `Spec => []NoBadResponse` |
| | `WorkerIsIdle` | `Spec => []WorkerIdleBetweenRequests` |
| | `SlotIsOwned` | `Spec => []SlotOwnership` |
| | `SlotIsIntact` | `Spec => []SlotIntact` |
| `LmStateStoreProofs` | `KeyIsKept` | `Spec => []KeyOutlivesArchives`, on a card without reboot archives of its own |
| | `StoreIsImplemented` | `Spec => StoreImplemented` |
| | `ArchivesAreWhole` | `Spec => PublishedWhole` |
| `LmStateOutcomeProofs` | `ImportIsAtomic` | `Spec => ImportAtomic` |
| | `ExportIsTrue` | `Spec => ExportTruth` |
| | `DeleteIsExact` | `Spec => DeleteExact` |
| | `PageIsExact` | `Spec => PageExact` |
| `LmPreferencesProofs` | `TypeCorrect` | `Spec => []TypeOK` |
| | `LineIsOwned` | `Spec => []LineOwned` |
| | `SaveIsSafe` | `Spec => []CardInv`, if the launcher does not write |
| | `ReplacementIsAtomic` | `Spec => RegisterImplemented`, if the launcher does not write |
| | `SavedIsStored` | `Spec => []SavedMeansStored`, if the launcher does not write |
| | `UntouchedIsKept` | `Spec => UntouchedKept`, if the launcher does not write and no file call fails |
| | `ReplacementIsShared` | `Spec => RegisterImplemented`, launcher at work (*) |
| | `SavedIsShared` | `Spec => []SavedMeansStored`, launcher at work (*) |
| | `UntouchedIsShared` | `Spec => UntouchedKept`, launcher at work (*) |
| | `SettingsAreKept` | `Spec => LauncherSettingsKept`, launcher at work (*) |
| `LmCrashRingProofs` | `RecordsAreWhole` | `Spec => []RecordsWhole` |
| | `EmissionsAreInOrder` | `Spec => []EmittedInOrder`, if `4 * MaxEvents <= Span` |
| | `RingImplementsQueue` | `Spec => RingIsQueue` |
| | `CriticalsAreKept` | `Spec => []CriticalKept`, if `4 * MaxEvents <= Span` |
| `LmCrashDumpProofs` | `CrashTypes` | `Spec => []TypeOK` |
| | `DumpsFollow` | `Spec => []DumpFollows` |
| | `NewestIsKept` | `Spec => NewestKept` |
| `JournalProofs` | `TypeCorrect` | `Spec => []TypeOK` |
| | `NewerIsKept` | `Spec => NewerFormatKept` |
| | `WholeFiles` | `Spec => []FilesWhole` |
| | `JournalsAreRegisters` | `Spec => JournalsImplemented` |
| | `ShownIsSaved` | `Spec => []ShownSaved`, if `MaxRuns + 1 < Span` |
| | `ResetLasts` | `Spec => []ResetSticks`, if `MaxRuns + 1 < Span` |

(*) if no file call fails, no power is cut, and no card starts with a backup alone. `RegisterImplemented`
is run without the launcher only (`prefs_replace`); with it at work `ReplacementIsShared` stands alone.

They assume what the constants are (the named `ASSUME`s of each module): bounds are
natural numbers, numbers wrap at an even span above 2 (or `SeqMax >= 2`), initial cards
are cards, `Blank` and `Missing` are none of the values they stand beside. For the
telemetry a card is as this code leaves one (`Rotated`: no two dumps of one generation,
all within half the span of the newest; a report in the file of its parity), there is
more than one dump file, and the counts of starts and files leave room in the word. Where a
theorem needs more, its hypotheses are in the table; each one is there because the code
does not keep the promise without it:

- `~LauncherWrites`: the launcher truncates and rewrites the configuration file in place, so a
  power cut in the middle loses it. The theorems marked (*) let it write but cut no power.
- `~IoFaults` for the words and settings: preferences that could not be read leave the mod on its
  defaults, and the next change saves all words; a failed rollback leaves the file missing.
- no lone backups: the launcher opens only the file, so it would start from its defaults.
- `MaxRuns + 1 < Span`: each reset of the game may leave one request unanswered. With `Span` 4 and 4
  resets TLC finds a process that takes the answer to an old request for its own. In the
  code that takes 2^32 resets without a power-off.
- `4 * MaxEvents <= Span`: a phase takes two numbers, and numbers compare by their difference. In
  the code that is 2^30 phases in one power-on.

**State storage**, in layers, each using those before it:

1. `TypeInv == TypeOK /\ WorkerShape`. Types alone are not inductive: that a slice
   written at `offset + 1` is inside the image needs `offset < MaxCell` in the phase
   `TRANSFER`, and that `archives[fileId]` is applied inside its domain needs a file id in the phases
   that use one. `WorkerShape` says just that.
2. `ProtocolInv == TypeInv /\ Protocol`. `NoBadResponse` is not inductive: it needs that
   a busy worker serves the very request still in the line (`WorkerOwes`), under this session
   if the process has asked for something, with the receipt already
   written in `ACK`; that the line holds what the process waits for
   (`RequestOutstanding`); and that a process past its start-up with nothing outstanding has
   nothing unacknowledged (`StartupOrder`). The worker's steps are first reduced to
   three: latch, serve, acknowledge (`WorkerServes`); the game's to start, take over, ask, read
   (`GameMoves`). `WorkerIsIdle` and `SlotIsOwned` follow without further induction.
3. `SlotInv` adds that a process not yet in service has no raw slot.
   The worker writes memory in one action only, and by layer 2 the process is then
   waiting for that import or has not taken the slot over.
4. `KeyInv` (on layer 1 alone): a key the mailbox shows is the one the card resolves to
   (`KeyLineTrue`), the second copy is written only after the first (`KeyCopiesAgree`), and an
   export stays bound from its latch to the key on the card (`ExportBound`). Every
   step then keeps `KeyOutlivesArchives`. The theorem starts from `NewCards`: a card
   handed over with archives under a key it does not hold is no fault of this code.
5. `StoreInv` follows an export. The envelope of one that nobody answered is that of
   the slot, which the game leaves alone until the answer (`PendingWhole`); the draft
   agrees with the envelope below the offset (`DraftWhole`); the id it will be published under is free
   and has no name record, and a name is written only for a file that is there, under its
   envelope (`TargetKnown`). Each update of the directory is then one step of `ArchiveStore`
   or changes nothing it can see.
6. `OutcomeInv` carries what the worker did to the moment the player is told.
   `ImportWhole` and `ExportWhole` say it of the worker up to its
   acknowledgement, `ImportTold` and `ExportTold` from there until the process reads the
   answer; `Errand` says that a phase belongs to its command and that only an
   export looks for another id. A failed import is undone from the backup (`BackupKept`).
   For deletion, `SessionOrder` and `OldDelete` say that a request left over from an
   earlier process carries an earlier session, which no page of this one has; `PromptTrue`
   that the prompt is an entry of the cached page, `ProofLatched` that the worker holds the
   proof that goes with it. It needs that a page lists an archive once. The page is kept ascending
   by comparing neighbours; that any two entries then differ is an induction over
   positions, made through the least counterexample (`LeastNatural`, by well-foundedness of
   the naturals, whose theorem takes no operator).
   For a page, `ScanTrue` says what the worker holds while it reads the directory: the smallest of
   the ids it has passed above the cursor, ascending, all of them unless the page is full and
   admits to more (`Smallest`), each entry as the file is and under its newest name. One more
   entry goes where as many smaller ones stand before it (`PlaceOfEntry`: that set of positions is
   an interval, again by the least counterexample), and a full page gives up its largest
   (`InsertedFacts`), which stays larger than all that is listed (`SmallestGrows`). A page
   lists a name only under a valid envelope, and `NamesValid` says that no other name exists.
   `PageWhole` and `PageTold` carry the page to the moment it is shown: the card does not change
   while an answer waits.

**Preferences.** `LineOwned` is inductive with the types. `SaveInv` says, stage by stage,
where the original, the backup and the draft are (`SaveShape`), that what a boot would
find does not depend on a backup left beside a whole file (`Settled`), and that an answer
of success is true (`AnswerTrue`). Atomicity then follows action by action: only `Promote`
changes what a boot would find. `SavedIsStored` adds that a process which shows SAVED waits for
nothing.

`UntouchedIsKept` rests on `WordsInv`: in every word the player never changed, what is asked
for, what the process holds, what it queued and what a boot would load are the same
(`RequestAgrees`, `WordsAgree`); before a process has adopted the block, what it holds is its own
baseline, which is what tells a change of the player from a value adopted late. No answer is a
failure while a section is stored (`FaultFree`). With the launcher at work `CalmInv` adds that the
backup is never alone but between the two renames (`NeverAlone`) and that the settings the
launcher was left with are in the file, or in the draft that becomes the file
(`SetupsAgree`). A rewrite of the launcher is then one that leaves the section as it was, and
the refinement of the register goes through with it.

**Crash telemetry**, in two modules.

1. `RingInv`. `LinesTrue`: a phase line that reads as valid, in the cache or in memory, is one
   the game published, and memory is never ahead of the cache; `Storing` says what the numbers of
   the line are between two stores, so that no write-back shows a valid mixture. `ControlsTrue`
   says the same of the control lines: how far memory may be behind its owner's cache, and
   between which two stores. `RingOrdered`: the entries between the cursors are published phases in the
   order of their events, and the place being stored is outside them, whichever of the two
   copies of a cursor one counts from. `HandledWhole`: so is what was handled.
   `RingImplementsQueue` follows action by action; the arithmetic of cursors that wrap
   is in lemmas on `%` of its own (`CursorSpan` is a multiple of `RingSize`).
   `EmissionsAreInOrder` needs `OrderInv`: what is still to come, out of the ring (`QueueLater`) or
   out of the sampled line (`ComingLater`, `LineLast`), is later than everything handled but the
   head in hand and the `strays`; the kernel's two statics are the numbers it handled last
   (`Statics`); and a stray is only overtaken by critical phases of a larger number (`Sequel`), which
   is the kernel's check for stale records. That check compares by difference, which needs
   `NumbersFew`: the numbers of a power-on do not come round. Without torn lines the poll's second
   look alone would give the order; with them it is skipped, and the numbers are all there is.
   `CriticalsAreKept` adds `HeadSettled` and `KeptSoFar`: the one place where the kernel drops an
   entry is one whose number is no newer than the last critical one, which is what `PassedOver`
   says.
2. `DumpInv`: the kernel's table agrees with the files (`TableTrue`), the file a record is
   for is open and, before its anchor, empty (`RecordInHand`), and the files stay `Rotated`.
   `Rotated` is what makes comparison by signed difference an order although the generations
   wrap: that the file given up is the oldest, and that there always is one, follow
   from it. Files fill one by one, so it counts the unused ones as room. `ReportInv`: a
   report goes to the file of its parity, once, while the other holds the number
   before it. `NewestIsKept` combines both.

**Binary journals.**

- `NewerIsKept`: a ready journal has no newer file (`ReadyOwned`), and only a ready one is
  served (`BusyReady`); a boot that finds one does not make it ready.
- `WholeFiles`: `Synced` (a client that does not wait has nothing unanswered, and its mailbox
  is whole unless it is staging) and `Served` (what the kernel copies is asked for, not yet
  answered, and so far copied unchanged). Neither holds for a journal that a reset
  caught with a request unanswered; `mixed` remembers those, and without that exception TLC finds a counterexample.
- `JournalsAreRegisters`: `Shape` says that the file the kernel remembers as newest is good and
  carries the generation it remembers, which makes the file just written the chosen one
  even when the generation wraps (`ChosenWritten`) and the other one chosen when it is torn
  (`ChosenTorn`). Every step of the kernel is then a step on one register, and every cut
  leaves the stored, the kept or the asked value.
- `ShownIsSaved`, `ResetLasts`: `ToldInv` adds, per journal, that the requests not answered are at
  most those of the resets and the one waited for, and that the kernel serves one of them
  (`Numbered`), so a number that comes back is the answer to the request that carried it. Then
  the copy of the awaited request is what is shown (`Asks`, `Answers`), and a client at rest stands
  on the card (`Rests`). For a reset of the records (`Wiped`): after the first of its two writes
  the file that counts is clean and nothing older is on its way, not even a request of an earlier
  process (`FirstDone`); after the second, the other file is clean too (`BothClean`).

## 5. What is only model-checked, and what is not modelled

Only model-checked:

- Preferences and journals outside the hypotheses in the table of section 4.
- Liveness: `RequestsEnd`, `StartupEnds`, `EditsReachCard`, `QueueDrains`, `CrashReported` and
  `EditsSaved`. The proof system does not reach it.

### Not modelled inside the modelled parts

State storage:

- The storage device is assumed present at boot (`Enabled`), and cheat or debugger
  set-ups (`KeyUnsupported`) are not varied. Both only make requests be refused at once.
- The cached copies of the menu and every text. The player's message is
  reduced to what it claims.
- What a save captures and a load restores in the game's own memory, their gates
  and reject reasons. A refused save or a load is `NoSave`.
- A packed backup is the state it decodes to, and packing never fails: a
  backup that does not fit refuses the import before it begins.
- The kernel's static `Header` is also scratch space while a catalogue is read. Every
  request that uses it loads it first, so the model's `job.header` keeps the latched copy.
- The refusal in `savedSlotCommitted` ("STATE STORAGE BOUNDS"): `saveState` has already
  kept the stored size below the payload limit, so a committed save is always usable.
- The menu runs before `LMState::tick` in a frame. `MenuFree` asks that `initializeSlot`
  has run, which assumes the player cannot open the menu and confirm a request within
  the first frame the process draws.
- Garbage in directory entries. Files that parse as archive names are modelled,
  others are skipped by the scan.
- Leftover `archive_<id>.tmp` files reserve their id for ever; the model keeps them, and no
  property says otherwise because the code never reclaims them.

Preferences:

- The text of the file and the ranges of the words.
- Failing calls of the launcher. `SusamuneIniSave` takes a failed read for an empty file
  and then writes its own section alone; the preferences of the file would be lost, unless
  a backup is still there. It is listed as a hazard.

Crash telemetry:

- The text report beside the binary one, and what a record says about the game.
- Read errors of dump and report files at boot.
- After a reset between the stores of a phase the numbers start again at 2, and the kernel
  refuses what follows until they pass the last. The model does this; `CriticalKept` lets those
  records go and says only that no others are lost. Records cut short by a reset or a crash
  are lost too.
- A control line is fetched whole, and the record in the ring is stored and read as one: its place is
  outside the cursors while it is stored.
- A `READY` that the cache publishes before the checksum makes the kernel reject that
  report for good; `CrashReported` names it (`early`).

Binary journals:

- A process started by a reset takes up the payload and the number of the mailbox but not
  that a request is pending. It shows as saved what may still fail, and may stage again
  while the kernel copies, although `susamune_cfg.h:549` says that the payload stays
  immutable until the answer. `FilesWhole` leaves out journals caught that way (`mixed`),
  `ShownSaved` and `EditsSaved` what was taken over unconfirmed (`orphan`).
- The writes that a reset of all records still owes are forgotten when the game is reset.
- The personal bests' reader does not look for a newer format in a file of another
  length, so `NewerFormatKept` leaves that journal out.
- Playlists, whose payload the game edits in place under the same numbering, and the
  conversions from older formats, which run once at boot.
- That two split-statistics files of equal generation must agree: the code never writes two.

### Not modelled at all, and why

- **Main loop**: only fairness. What its first branch leaves to the others depends on how often
  the game reads the disc, which nothing in the repository bounds.
- **Warps**: guards over scene objects of the retail game, whose code is not here.
- **Capture, codecs, authentication, guards, timers, encoders**: sequential functions of bytes,
  with host tests; a model would repeat them.
- **Settings text file** (`SusamuneCfgService`): another file rewritten in place, as the
  launcher does with its own; what there is to it beyond that is the layout of a text.
- **Menus, drawing, rumble, tools**: they hold no state that outlives a frame.
- **Ghosts**: not used by this game's payload.
- **Nintendont, FatFs, loader, code handler, SDK headers**: third-party code; FatFs appears
  through its results, one directory update being atomic and a file torn until synced.

## 6. Findings

`reset_cancels`. The comment in `initializeStorage` says "A reset cancels any old
in-flight ARM transfer before it can touch the new process's slot", and
`doc/lm-state-storage.md` says the transport cancels old transfers. A request that was
queued but not yet latched when the game was reset is not cancelled. The worker
latches `processSession`, already the new one, beside the old command and sequence number. The
comparison that cancels therefore never differs, and an old IMPORT of a reboot archive
passes `ArchiveIdentityStatus` and is copied in full. The slot stays safe: the new
process waits for the acknowledgement and clears the commit word after it
(`SlotOwnership`, `SlotIntact`). The cost is a start-up held up by the whole
transfer. An old EXPORT is completed in the same way and an old DELETE is refused,
since its page belongs to the earlier session.

`prefs_setup_lost`. The testing notes say that the companions of the configuration file
"support recoverable replacement without dropping the launcher settings"
(`doc/lm-testing-0.3.42.md:75`). Between the two renames of a save the only copy of the
launcher's settings is the backup. The mod falls back to it; the launcher opens only the file,
starts with its defaults and writes them, so its settings are lost when the power
fails in that moment. The preferences themselves survive (`RegisterImplemented`).

`jumps_ahead`. The telemetry notes say "While a backlog remains, sampled phases cannot jump
ahead of it" (`doc/lm-crash-telemetry.md:43-44`). The game stores the cursor of its control line and then
the inverse, and the cache may write the line back in between. `CriticalEnrolled` is then
false, and the poll goes on as if the game had never enrolled: it does not drain, does not
look again, and handles the phase it sampled, ahead of what waits. If the sampled phase is
critical, the records that waited are then older than the last critical number; the kernel
skips and acknowledges them, and they are never logged. If the game stops at that point,
with the torn line in memory, no process after it repairs the line, and nothing goes through the
ring until the console is restarted (`QueueDrains` excepts it).

The kernel releases a record by the same two stores. While memory holds *its* line torn,
`LmCriticalEnqueue` returns zero and counts nothing (`Refuse`), although the comment on it says
"Zero means legacy or full" (`lm_crash_telemetry.h:85`). The record is then one of those that
`CriticalKept` leaves out; no run is about this alone.

## 7. Left to do

1. The liveness of the archive worker from a model of the main loop,
   once the rate of disc reads is known.
2. The playlist journal, with the edit in place that its client makes while a request is
   under way.
3. The micro-steps of `saveState` around its commit word: `SaveState` is one action, so
   `SlotIntact` says nothing about a reset in the middle of a save. By reading, the next process
   clears the commit word itself, so the half-written slot is marked empty.
