---------------------------- MODULE LmCrashSystem ----------------------------
(***************************************************************************)
(* Crash telemetry as a whole: the game and the kernel on two processors   *)
(* with memory between them, resets of the game at any instruction, and    *)
(* the console switched off at any step.                                   *)
(***************************************************************************)
EXTENDS LmCrashGame, LmCrashKernel

CONSTANTS
  InitialDumps,     \* the dump files on the card at first
  InitialReports,   \* the report files
  MaxRuns           \* bound: resets and restarts

ASSUME SystemAssumption == MaxRuns \in Nat

\* Cards as this code leaves them, with room for the reports to come: a report
\* is counted at every start, and the count is compared with zero.
ASSUME CardAssumption ==
  /\ \A files \in InitialDumps : files \in [Slots -> Dumps] /\ Rotated(files)
  /\ \A files \in InitialReports :
       /\ files \in [0 .. 1 -> Numbers]
       /\ \A i \in 0 .. 1 : /\ files[i] = 0 \/ files[i] % 2 = i
                            /\ files[i] + MaxRuns + 2 < Span \div 2

VARIABLE runs

vars == <<mailboxVars, gameVars, kernelVars, runs>>

\* SusamuneCrashInit clears the memory; the game has not started.
Init ==
  /\ dumps \in InitialDumps /\ reports \in InitialReports
  /\ producer = ControlInit(FALSE) /\ control = ControlInit(FALSE)
  /\ consumer = ControlInit(TRUE) /\ released = ControlInit(TRUE)
  /\ trace = NoTrace /\ entries = NoEntries
  /\ report = ArmedReport(reports)
  /\ line = NoTrace /\ cpu = NoCpu(0) /\ published = {} /\ lost = {} /\ early = FALSE
  /\ journal \in InitLmDump(dumps)
  /\ kernel = FreshKernel /\ emitted = <<>> /\ strays = {}
  /\ runs = 0

\* The first process of the console enrols.
Start ==
  /\ In("OFF")
  /\ CrashInit
  /\ UNCHANGED <<published, lost, early, kernelVars, runs>>

Game == GameNext /\ UNCHANGED <<kernelVars, runs>>
Kernel == KernelNext /\ UNCHANGED <<gameVars, runs>>

\* The game is reset, at any instruction, and its payload injected again.
Reset ==
  /\ ~In("OFF")
  /\ runs < MaxRuns /\ runs' = runs + 1
  /\ CrashInit
  /\ lost' = lost \cup CutShort
  /\ UNCHANGED <<published, early, kernelVars>>

CutDumps == IF At("ANCHOR") THEN {dumps, Anchored(kernel.snapshot)}
            ELSE IF At("EXTEND") THEN {dumps, Extended(kernel.snapshot)} ELSE {dumps}
CutReports == IF At("WRITE") THEN {reports, Written} ELSE {reports}

\* The console is switched off and on.
Restart ==
  /\ runs < MaxRuns /\ runs' = runs + 1
  /\ dumps' \in CutDumps /\ reports' \in CutReports
  /\ producer' = ControlInit(FALSE) /\ control' = ControlInit(FALSE)
  /\ consumer' = ControlInit(TRUE) /\ released' = ControlInit(TRUE)
  /\ trace' = NoTrace /\ entries' = NoEntries
  /\ report' = ArmedReport(reports')
  /\ line' = NoTrace /\ cpu' = NoCpu(cpu.event) /\ published' = {} /\ lost' = {} /\ early' = FALSE
  /\ journal' \in InitLmDump(dumps')
  /\ kernel' = FreshKernel /\ emitted' = <<>> /\ strays' = {}

Next == Start \/ Game \/ Kernel \/ Reset \/ Restart

Spec == Init /\ [][Next]_vars

\* The kernel's main loop comes round to the poll.
FairSpec == Spec /\ WF_vars(Kernel)

TypeOK == MailboxTypeOK /\ GameTypeOK /\ KernelTypeOK /\ runs \in 0 .. MaxRuns

-----------------------------------------------------------------------------
(* What can go wrong only over several steps of both processors.           *)

\* The kernel takes no mixture of two phases for a phase, however the game's
\* cache writes its line back and wherever the game stops.
RecordsWhole == \A i \in DOMAIN emitted : emitted[i] \in published

\* Phases are handled in the order the game published them, each at most once,
\* though they arrive by two ways, one of which is read again and again.  Only
\* one that was sampled past a ring which could not be read may be ahead of what
\* waited there; critical ones then still keep the order of their numbers.
EmittedInOrder ==
  \A i, j \in DOMAIN emitted : i < j =>
    \/ emitted[i].event < emitted[j].event
    \/ /\ emitted[i] \in strays /\ LmPhaseCritical(emitted[j])
       /\ LmPhaseCritical(emitted[i]) => emitted[i].begin < emitted[j].begin

InQueue(record) == \E i \in DOMAIN Queue : Queue[i] = record
Emitted(record) == \E i \in DOMAIN emitted : emitted[i] = record
BeingPut(record) == Putting /\ record = line

\* Another critical phase with a number no smaller was handled first: one that
\* was sampled past the ring, or an earlier one, whose numbers were not carried
\* on (they start again at 2 when a reset strikes between two stores of a phase).
PassedOver(record) ==
  \E i \in DOMAIN emitted :
    /\ LmPhaseCritical(emitted[i]) /\ emitted[i].begin >= record.begin
    /\ emitted[i] \in strays \/ emitted[i].event < record.event

\* A critical phase that was not kept out of the ring (by its being full, by a
\* torn line, by the end of the process) is handled, or waits in the ring, unless
\* the order of the numbers has already passed it over.
CriticalKept ==
  \A record \in published \ lost :
    LmPhaseCritical(record) =>
      Emitted(record) \/ InQueue(record) \/ BeingPut(record) \/ PassedOver(record)

\* The dump being written holds everything handled since the save that opened it.
OpenDump == dumps[journal.target].records
Behind == IF kernel.stage \in {"ANCHOR", "EXTEND"} THEN 1 ELSE 0
DumpFollows ==
  journal.open /\ ~At("CREATE") =>
    LET n == Len(OpenDump)  total == Len(emitted) - Behind
    IN  /\ n > 0 \/ At("ANCHOR")
        /\ n > 0 => /\ n <= total
                    /\ OpenDump = SubSeq(emitted, total - n + 1, total)
                    /\ OpenDump[1].kind \in {"SAVE", "LOAD"}

\* The newest dump and the newest crash report on the card stay until a newer
\* one is complete, through power cuts, failing calls and wrapped generations;
\* and a dump that goes is the oldest there is.
Newest(generations) == NewestOf(generations \ {0})
NotOlder(later, sooner) == later = sooner \/ Newer(later, sooner)
NewestKept ==
  [][/\ NotOlder(Newest(Known(dumps')), Newest(Known(dumps)))
     /\ NotOlder(Newest({reports'[i] : i \in 0 .. 1}), Newest({reports[i] : i \in 0 .. 1}))
     /\ \A s \in Slots :
          Readable(dumps[s]) /\ ~Readable(dumps'[s]) =>
            \A other \in Slots \ {s} : Newer(dumps[other].generation, dumps[s].generation)
    ]_vars

\* The ring is the queue it claims to be.
Ring == INSTANCE CriticalQueue WITH
  Records <- Traces, Capacity <- RingSize, queue <- Queue

RingIsQueue == Ring!QueueSpec

\* When the game falls silent, or dies, the ring is emptied, unless the game has
\* left its control line torn in memory for good.
QueueDrains == Queue # <<>> ~> (Queue = <<>> \/ []~LmCriticalControlValid(producer))

\* doc/lm-crash-telemetry.md:43-44: while a backlog remains, sampled phases cannot
\* jump ahead of it.
SamplesWait ==
  [][At("RECHECK") /\ emitted' # emitted =>
       \A i \in DOMAIN Queue : Queue[i].event >= kernel.snapshot.event]_vars

\* A crash that has been captured reaches the card, or its file cannot be
\* written, or the cache gave it away before it was complete.
Captured == report.state = "READY" /\ report.whole
Recorded == reports[report.seq % 2] = report.seq
CrashReported ==
  Captured ~> (~Captured \/ Recorded \/ kernel.outcome = "FAILED" \/ early)
=============================================================================
