----------------------------- MODULE LmCrashGame -----------------------------
(***************************************************************************)
(* The game's half of the telemetry (lm_diag/src/lm_crash.cpp), one store  *)
(* that matters at a time: publishing a phase, and the exception handler   *)
(* that captures a crash.  A dirty line may reach memory at any moment.    *)
(***************************************************************************)
EXTENDS LmCrashMailbox

VARIABLES
  line,       \* the phase line as the game's cache holds it
  cpu,        \* [stage, seq, kind, event]: what the game is executing, and sPhaseSequence
  published,  \* history: the records the game has made valid
  lost,       \* history: those that did not get into the ring
  early       \* history: READY reached memory before the checksum

gameVars == <<line, cpu, published, lost, early>>

Stages == {"OFF", "RUN", "BODY", "BEGIN", "END", "QUEUE", "CURSOR", "INVERSE", "SEAL", "DEAD"}
Cpus == [stage : Stages, seq : Numbers, kind : Kinds \cup {"NONE"}, event : 0 .. MaxEvents]

GameTypeOK ==
  /\ line \in Traces
  /\ cpu \in Cpus
  /\ published \subseteq Traces
  /\ lost \subseteq published
  /\ early \in BOOLEAN

Armed == report.state = "ARMED"
In(stage) == cpu.stage = stage
To(stage) == cpu' = [cpu EXCEPT !.stage = stage]

\* sPhaseSequence += 2, skipping zero.
NextSequence(seq) == IF (seq + 2) % Span = 0 THEN 2 ELSE seq + 2

\* No process has run yet.
NoCpu(events) == [stage |-> "OFF", seq |-> 0, kind |-> "NONE", event |-> events]

\* LMCrash::init of a fresh process, which finds the lines as memory has them:
\* enrol, and carry on the numbering of the process before if its last phase
\* can be read.
CrashInit ==
  /\ cpu' = [cpu EXCEPT !.stage = "RUN", !.kind = "NONE",
                        !.seq = IF Armed /\ LmPhaseValid(trace) THEN trace.begin ELSE 0]
  /\ line' = trace
  /\ IF Armed THEN CriticalAttach ELSE producer' = producer /\ control' = producer
  /\ UNCHANGED <<trace, consumer, released, entries, report>>

\* The record being published.
Begun(kind) == [stage |-> "BODY", seq |-> NextSequence(cpu.seq), kind |-> kind,
                event |-> cpu.event + 1]

\* Variant: the old numbers stand while the contents change.
OpenPhaseEven(kind) ==
  /\ In("RUN") /\ Armed
  /\ cpu.event < MaxEvents
  /\ cpu' = Begun(kind)
  /\ UNCHANGED <<line, mailboxVars, published, lost, early>>

\* phase(): the numbers are made odd and the line is stored; a line with one
\* odd number reads no better than one with two ...
OpenPhase(kind) ==
  /\ In("RUN") /\ Armed
  /\ cpu.event < MaxEvents
  /\ cpu' = Begun(kind)
  /\ line' = [line EXCEPT !.begin = cpu'.seq - 1, !.end = cpu'.seq - 1]
  /\ trace' = line'
  /\ UNCHANGED <<ringVars, report, published, lost, early>>

\* ... then the contents change ...
StoreBody ==
  /\ In("BODY")
  /\ line' = [line EXCEPT !.kind = cpu.kind, !.event = cpu.event]
  /\ To("BEGIN")
  /\ UNCHANGED <<mailboxVars, published, lost, early>>

StoreBegin ==
  /\ In("BEGIN")
  /\ line' = [line EXCEPT !.begin = cpu.seq]
  /\ To("END")
  /\ UNCHANGED <<mailboxVars, published, lost, early>>

\* ... and the even number completes and publishes the record.
StoreEnd ==
  /\ In("END")
  /\ line' = [line EXCEPT !.end = cpu.seq]
  /\ trace' = line'
  /\ published' = published \cup {line'}
  /\ To(IF LmPhaseCritical(line') THEN "QUEUE" ELSE "RUN")
  /\ UNCHANGED <<ringVars, report, lost, early>>

\* LmCriticalEnqueue returns at once when a control line does not hold ...
Refuse ==
  /\ In("QUEUE") /\ Refused
  /\ lost' = lost \cup {line}
  /\ To("RUN")
  /\ UNCHANGED <<mailboxVars, line, published, early>>

\* ... counts the record when the ring is full ...
CountDropped ==
  /\ In("QUEUE") /\ ~Refused /\ Full
  /\ control' = Counted(control)
  /\ lost' = lost \cup {line}
  /\ To("INVERSE")
  /\ UNCHANGED <<trace, producer, consumer, released, entries, report, line, published, early>>

\* ... or stores the record first ...
PutEntry ==
  /\ In("QUEUE") /\ ~Refused /\ ~Full
  /\ entries' = [entries EXCEPT ![Slot(control.cursor)] = line]
  /\ To("CURSOR")
  /\ UNCHANGED <<trace, producer, control, consumer, released, report, line, published, lost, early>>

\* ... and then the cursor; ...
PutCursor ==
  /\ In("CURSOR")
  /\ control' = Advanced(control)
  /\ To("INVERSE")
  /\ UNCHANGED <<trace, producer, consumer, released, entries, report, line, published, lost, early>>

\* ... the inverse completes and publishes the line.
PutInverse ==
  /\ In("INVERSE")
  /\ control' = Inverted(control)
  /\ producer' = control'
  /\ To("RUN")
  /\ UNCHANGED <<trace, consumer, released, entries, report, line, published, lost, early>>

\* The cache writes the phase line back by itself ...
WriteBack ==
  /\ line # trace
  /\ trace' = line
  /\ UNCHANGED <<ringVars, report, gameVars>>

\* ... or the control line.
WriteBackControl ==
  /\ control # producer
  /\ producer' = control
  /\ UNCHANGED <<trace, control, consumer, released, entries, report, gameVars>>

Putting == cpu.stage \in {"QUEUE", "CURSOR", "INVERSE"}
CutShort == IF Putting THEN {line} ELSE {}

\* captureException, from any instruction: the report is claimed ...
Capture ==
  /\ Armed /\ ~In("OFF")
  /\ cpu.event < MaxEvents
  /\ report' = [report EXCEPT !.state = "WRITING"]
  /\ cpu' = [cpu EXCEPT !.stage = "SEAL", !.event = @ + 1]
  /\ lost' = lost \cup CutShort
  /\ UNCHANGED <<trace, ringVars, line, published, early>>

\* ... filled in; READY is in the cache before the checksum, and the cache may
\* write it back ...
WriteBackReport ==
  /\ In("SEAL") /\ report.state = "WRITING"
  /\ report' = [report EXCEPT !.state = "READY"]
  /\ early' = TRUE
  /\ UNCHANGED <<trace, ringVars, line, cpu, published, lost>>

\* ... and stored, its first line last.
Seal ==
  /\ In("SEAL")
  /\ report' = [report EXCEPT !.state = "READY", !.whole = TRUE]
  /\ To("DEAD")
  /\ UNCHANGED <<trace, ringVars, line, published, lost, early>>

GameNext ==
  \/ \E kind \in Kinds : OpenPhase(kind)
  \/ StoreBody \/ StoreBegin \/ StoreEnd
  \/ Refuse \/ CountDropped \/ PutEntry \/ PutCursor \/ PutInverse
  \/ WriteBack \/ WriteBackControl
  \/ Capture \/ WriteBackReport \/ Seal
=============================================================================
