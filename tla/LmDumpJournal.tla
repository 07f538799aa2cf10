---------------------------- MODULE LmDumpJournal ----------------------------
(***************************************************************************)
(* The attempt journals lm_dumps/lm_attempt_a..h.bin                       *)
(* (launcher/kernel/SusamuneCrash.c): every successful save, and the first *)
(* load of a boot, starts a file that the phases after it are appended to. *)
(* A file whose header and first record cannot be read has generation 0.   *)
(***************************************************************************)
EXTENDS LmCrashMailbox

CONSTANTS
  SlotCount,  \* SUSAMUNE_LM_DUMP_SLOTS
  IoFaults    \* whether a call that writes may fail

ASSUME JournalAssumption ==
  /\ SlotCount \in Nat /\ 1 < SlotCount /\ SlotCount + 1 < Span \div 2
  /\ IoFaults \in BOOLEAN

Slots == 0 .. SlotCount - 1

VARIABLES
  dumps,      \* the files
  journal     \* [enabled, open, target, generation, generations]: the kernel's table

journalVars == <<dumps, journal>>

Torn == [generation |-> 0, records |-> <<>>]
Dump(generation, record) == [generation |-> generation, records |-> <<record>>]
Readable(dump) == dump.generation # 0

Dumps == [generation : Numbers, records : Seq(Traces)]
Journals == [enabled : BOOLEAN, open : BOOLEAN, target : Slots,
             generation : Numbers, generations : [Slots -> Numbers]]

JournalTypeOK ==
  /\ dumps \in [Slots -> Dumps]
  /\ journal \in Journals

NextGenerationWide(generation) == generation + 1   \* variant: the counter does not wrap

NextGeneration(generation) == IF (generation + 1) % Span = 0 THEN 1 ELSE generation + 1

\* The newest of the generations, or 0.
NewestOf(generations) ==
  IF generations \ {0} = {} THEN 0
  ELSE CHOOSE g \in generations \ {0} : \A h \in generations \ {0, g} : Newer(g, h)

Known(files) == {files[s].generation : s \in Slots}

\* What rotation makes of a card: no two files of one generation, and none so
\* old that the comparison by signed difference could mistake it, however many
\* of the unused files fill up first.  The counter skips 0.
Age(g, n) == IF g <= n THEN n - g ELSE n - g + Span - 1
Unused(files) == {s \in Slots : files[s].generation = 0}
Rotated(files) ==
  /\ \A s, t \in Slots : files[s].generation = files[t].generation =>
       s = t \/ files[s].generation = 0
  /\ Unused(files) # Slots => \E newest \in Slots \ Unused(files) :
       \A s \in Slots \ Unused(files) :
         Age(files[s].generation, files[newest].generation) + Cardinality(Unused(files))
           <= Span \div 2 - 2

\* InitLmDump: the files are looked at, or the directory cannot be made.
Loaded(files) ==
  [enabled |-> TRUE, open |-> FALSE, target |-> 0,
   generation |-> NewestOf(Known(files)), generations |-> [s \in Slots |-> files[s].generation]]
NotLoaded ==
  [enabled |-> FALSE, open |-> FALSE, target |-> 0,
   generation |-> 0, generations |-> [s \in Slots |-> 0]]
InitLmDump(files) == {Loaded(files)} \cup IF IoFaults THEN {NotLoaded} ELSE {}

Empty == {s \in Slots : journal.generations[s] = 0}

\* Variant: the slots are used in turn, whatever they hold.
InTurn == (journal.target + 1) % SlotCount

\* LmDumpTarget: the first empty slot, else the oldest dump.
LmDumpTarget ==
  IF Empty # {} THEN CHOOSE s \in Empty : \A other \in Empty : s <= other
  ELSE CHOOSE s \in Slots : \A other \in Slots \ {s} :
         Newer(journal.generations[other], journal.generations[s])

Disable == journal' = [journal EXCEPT !.enabled = FALSE, !.open = FALSE]

\* What the files become: truncated, started with a record, extended by one.
Truncated == [dumps EXCEPT ![LmDumpTarget] = Torn]
Anchored(record) ==
  [dumps EXCEPT ![journal.target] = Dump(NextGeneration(journal.generation), record)]
Extended(record) == [dumps EXCEPT ![journal.target].records = Append(@, record)]

\* BeginLmDump closes the open dump and truncates the file it takes next ...
Create ==
  \/ /\ dumps' = Truncated
     /\ journal' = [journal EXCEPT !.open = TRUE, !.target = LmDumpTarget]
  \/ IoFaults /\ Disable /\ dumps' \in {dumps, Truncated}

\* ... then writes header and first record, and syncs.
Anchor(record) ==
  \/ /\ dumps' = Anchored(record)
     /\ LET generation == NextGeneration(journal.generation)
        IN  journal' = [journal EXCEPT !.generation = generation,
                                       !.generations[journal.target] = generation]
  \/ IoFaults /\ Disable /\ dumps' \in {dumps, Anchored(record)}

Extend(record) ==
  \/ dumps' = Extended(record) /\ UNCHANGED journal
  \/ IoFaults /\ Disable /\ dumps' \in {dumps, Extended(record)}

\* RecordLmDump: what a record asks of the files.
Anchors(record) == record.kind = "SAVE" \/ (record.kind = "LOAD" /\ ~journal.open)
Opens(record) == journal.enabled /\ Anchors(record)
ExtendsCritical(record) ==    \* variant: only critical phases are written
  journal.enabled /\ journal.open /\ ~Opens(record) /\ LmPhaseCritical(record)

Extends(record) == journal.enabled /\ journal.open /\ ~Opens(record)
=============================================================================
