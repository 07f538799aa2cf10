---------------------------- MODULE LmCrashKernel ----------------------------
(***************************************************************************)
(* The kernel's half (launcher/kernel/SusamuneCrash.c): a poll that drains *)
(* the ring, samples the latest phase and looks for a crash report, and    *)
(* the two report files it writes in turn.  The game runs between any two  *)
(* steps.                                                                  *)
(***************************************************************************)
EXTENDS LmDumpJournal

CONSTANT DrainMax   \* records drained per poll (4)

ASSUME DrainAssumption == DrainMax \in Nat \ {0}

VARIABLES
  kernel,    \* where PollPhaseTrace and the service are, and their statics
  reports,   \* the captureSeq of the two report files; 0 is no valid report
  emitted,   \* history: the records the poll has handled since the console was started
  strays     \* history: those it sampled while the ring could not be read

kernelVars == <<journalVars, kernel, reports, emitted, strays>>

KernelStages == {"DRAIN", "SAMPLE", "RECHECK", "CREATE", "ANCHOR", "EXTEND",
                 "ACK", "RELEASE", "CHECK", "READ", "OPEN", "WRITE"}
Outcomes == {"NONE", "SAVED", "FAILED", "REFUSED"}

Kernels == [stage : KernelStages, back : KernelStages, count : 0 .. DrainMax,
            snapshot : Traces, lastPhase : Numbers, lastCritical : Numbers,
            attempted : Numbers, outcome : Outcomes]

FreshKernel == [stage |-> "DRAIN", back |-> "DRAIN", count |-> 0, snapshot |-> NoTrace,
                lastPhase |-> 0, lastCritical |-> 0, attempted |-> 0, outcome |-> "NONE"]

KernelTypeOK ==
  /\ kernel \in Kernels
  /\ reports \in [0 .. 1 -> Numbers]
  /\ emitted \in Seq(Traces) /\ strays \subseteq Traces
  /\ JournalTypeOK

At(stage) == kernel.stage = stage
Goto(stage) == kernel' = [kernel EXCEPT !.stage = stage]

\* The generation the armed report will carry: one more than the newest file's.
ArmedSeq(files) ==
  NextGeneration(NewestOf({files[i] : i \in {j \in 0 .. 1 : Newer(files[j], 0)}}))

\* SusamuneCrashInit arms the report before the game starts.
ArmedReport(files) == [state |-> "ARMED", seq |-> ArmedSeq(files), whole |-> FALSE]

Stale(record) ==
  /\ LmPhaseCritical(record)
  /\ kernel.lastCritical # 0 /\ ~Newer(record.begin, kernel.lastCritical)

\* EmitPhaseTrace: a critical record no newer than the last is skipped.
EmitPhaseTrace(record, back) ==
  IF Stale(record)
  THEN Goto(back) /\ UNCHANGED emitted
  ELSE /\ emitted' = Append(emitted, record)
       /\ kernel' = [kernel EXCEPT
            !.stage = IF Opens(record) THEN "CREATE" ELSE IF Extends(record) THEN "EXTEND"
                      ELSE back,
            !.back = back, !.snapshot = record, !.lastPhase = record.begin,
            !.lastCritical = IF LmPhaseCritical(record) THEN record.begin ELSE @]

\* The record in hand is a local of one poll.
Done == [kernel EXCEPT !.snapshot = NoTrace, !.back = "DRAIN"]

Drain ==
  /\ At("DRAIN")
  /\ IF kernel.count < DrainMax /\ CriticalPeek
     THEN EmitPhaseTrace(entries[Slot(released.cursor)], "ACK")
     ELSE Goto("SAMPLE") /\ UNCHANGED emitted
  /\ UNCHANGED <<mailboxVars, journalVars, reports, strays>>

Acknowledge ==
  /\ At("ACK")
  /\ CriticalAcknowledge
  /\ Goto("RELEASE")
  /\ UNCHANGED <<journalVars, reports, emitted, strays>>

Release ==
  /\ At("RELEASE")
  /\ CriticalRelease
  /\ kernel' = [Done EXCEPT !.stage = "DRAIN", !.count = @ + 1]
  /\ UNCHANGED <<journalVars, reports, emitted, strays>>

\* The kernel's cache writes its control line back by itself.
WriteBackConsumer ==
  /\ released # consumer
  /\ consumer' = released
  /\ UNCHANGED <<trace, producer, control, released, entries, report, kernelVars>>

Sample ==
  /\ At("SAMPLE")
  /\ kernel' = [kernel EXCEPT !.snapshot = trace, !.stage = "RECHECK"]
  /\ UNCHANGED <<mailboxVars, journalVars, reports, emitted, strays>>

QueuedNever == FALSE   \* variant: the ring is not looked at again

\* What belongs to the ring, or must wait for it.
Queued == CriticalEnrolled /\ (Waiting # 0 \/ LmPhaseCritical(kernel.snapshot))

TraceValid == LmPhaseValid(kernel.snapshot)

Recheck ==
  /\ At("RECHECK")
  /\ IF /\ ~Queued /\ TraceValid
        /\ kernel.lastPhase = 0 \/ Newer(kernel.snapshot.begin, kernel.lastPhase)
     THEN EmitPhaseTrace(kernel.snapshot, "CHECK")
     ELSE Goto("CHECK") /\ UNCHANGED emitted
  /\ strays' = IF CriticalEnrolled \/ emitted' = emitted THEN strays
               ELSE strays \cup {kernel.snapshot}
  /\ UNCHANGED <<mailboxVars, journalVars, reports>>

CreateDump ==
  /\ At("CREATE")
  /\ Create
  /\ Goto(IF journal'.enabled THEN "ANCHOR" ELSE kernel.back)
  /\ UNCHANGED <<mailboxVars, reports, emitted, strays>>

AnchorDump ==
  /\ At("ANCHOR")
  /\ Anchor(kernel.snapshot)
  /\ Goto(kernel.back)
  /\ UNCHANGED <<mailboxVars, reports, emitted, strays>>

ExtendDump ==
  /\ At("EXTEND")
  /\ Extend(kernel.snapshot)
  /\ Goto(kernel.back)
  /\ UNCHANGED <<mailboxVars, reports, emitted, strays>>

AttemptAnyState == report.state # "ARMED" /\ report.seq # kernel.attempted   \* variant

\* SusamuneCrashPending: each capture is attempted once.
ReportPending == report.state = "READY" /\ report.seq # kernel.attempted

CheckReport ==
  /\ At("CHECK")
  /\ kernel' = [Done EXCEPT !.stage = IF ReportPending THEN "READ" ELSE "DRAIN", !.count = 0]
  /\ UNCHANGED <<mailboxVars, journalVars, reports, emitted, strays>>

\* SusamuneCrashService: an invalid capture is rejected for good.
ReadReport ==
  /\ At("READ")
  /\ kernel' = [kernel EXCEPT
       !.attempted = report.seq,
       !.stage = IF report.state = "READY" /\ report.whole THEN "OPEN" ELSE "DRAIN",
       !.outcome = IF report.state = "READY" /\ report.whole THEN @ ELSE "REFUSED"]
  /\ UNCHANGED <<mailboxVars, journalVars, reports, emitted, strays>>

ReportFile == kernel.attempted % 2

OpenReport ==
  /\ At("OPEN")
  /\ \/ reports' = [reports EXCEPT ![ReportFile] = 0] /\ Goto("WRITE")
     \/ /\ IoFaults /\ UNCHANGED reports
        /\ kernel' = [kernel EXCEPT !.stage = "DRAIN", !.outcome = "FAILED"]
  /\ UNCHANGED <<mailboxVars, journalVars, emitted, strays>>

Written == [reports EXCEPT ![ReportFile] = kernel.attempted]

WriteReport ==
  /\ At("WRITE")
  /\ LET done(outcome) == kernel' = [kernel EXCEPT !.stage = "DRAIN", !.outcome = outcome]
     IN  \/ reports' = Written /\ done("SAVED")
         \/ IoFaults /\ reports' \in {reports, Written} /\ done("FAILED")
  /\ UNCHANGED <<mailboxVars, journalVars, emitted, strays>>

KernelNext ==
  \/ Drain \/ Acknowledge \/ Release \/ WriteBackConsumer \/ Sample \/ Recheck
  \/ CreateDump \/ AnchorDump \/ ExtendDump
  \/ CheckReport \/ ReadReport \/ OpenReport \/ WriteReport
=============================================================================
