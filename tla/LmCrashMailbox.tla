--------------------------- MODULE LmCrashMailbox ---------------------------
(***************************************************************************)
(* The memory through which the game tells the kernel what it is doing and *)
(* how it died (lm_crash_telemetry.h, crash_report.h): the latest phase,   *)
(* a ring of the critical ones, and the crash report.  Each is made of     *)
(* cache lines, and each line has one owner, which changes it in its       *)
(* cache: memory gets the line when the owner stores it, or when the cache *)
(* happens to write it back in the middle of a change.                     *)
(***************************************************************************)
EXTENDS Integers, FiniteSets, Sequences

CONSTANTS
  Kinds,        \* the kinds of phase the game may publish
  RingSize,     \* LM_CRITICAL_COUNT
  CursorSpan,   \* cursors count modulo 2^32
  Span,         \* sequence numbers and generations count modulo 2^32
  DropMax,      \* dropped saturates at 2^32 - 1
  MaxEvents     \* bound: phases and crashes, over all boots

\* A save that succeeded, the start of a load, any other critical phase, and
\* the frequent phases that are only sampled.
CriticalKinds == {"SAVE", "LOAD", "WARP"}

ASSUME MailboxAssumption ==
  /\ Kinds \subseteq CriticalKinds \cup {"SAMPLED"}
  /\ RingSize \in Nat \ {0}
  /\ CursorSpan \in Nat /\ CursorSpan > RingSize /\ CursorSpan % RingSize = 0
  /\ Span \in Nat /\ Span > 4 /\ Span % 2 = 0
  /\ DropMax \in Nat \ {0}
  /\ MaxEvents \in Nat

VARIABLES
  trace,      \* the phase line
  producer,   \* the game's control line of the ring, in memory
  control,    \* the same line as the game's cache holds it
  consumer,   \* the kernel's control line, in memory
  released,   \* the same line as the kernel's cache holds it
  entries,    \* the records of the ring
  report      \* [state, seq, whole]: the crash report, and whether its checksum holds

ringVars == <<producer, control, consumer, released, entries>>
mailboxVars == <<trace, ringVars, report>>

Numbers == 0 .. Span - 1
Cursors == 0 .. CursorSpan - 1

\* event stands for the contents: which phase of all.
Traces == [begin : Numbers, end : Numbers, kind : Kinds \cup {"NONE"}, event : 0 .. MaxEvents]
NoTrace == [begin |-> 0, end |-> 0, kind |-> "NONE", event |-> 0]

\* LmCriticalControl; an inverse is named by the value it is the inverse of.
Controls == [magic : BOOLEAN, cursor : Cursors, inverse : Cursors,
             dropped : 0 .. DropMax, droppedInverse : 0 .. DropMax]
Reports == [state : {"ARMED", "WRITING", "READY"}, seq : Numbers, whole : BOOLEAN]

MailboxTypeOK ==
  /\ trace \in Traces
  /\ producer \in Controls /\ control \in Controls
  /\ consumer \in Controls /\ released \in Controls
  /\ entries \in [0 .. RingSize - 1 -> Traces]
  /\ report \in Reports

LmPhaseValid(t) == t.begin # 0 /\ t.begin % 2 = 0 /\ t.begin = t.end
LmPhaseCritical(t) == t.kind \in CriticalKinds

\* GenerationNewer: the signed difference, so numbers may wrap.
Newer(candidate, current) == (candidate - current) % Span \in 1 .. Span \div 2 - 1

LmCriticalControlValid(c) == c.magic /\ c.cursor = c.inverse /\ c.dropped = c.droppedInverse

\* The records between two control lines.
Pending(ahead, behind) == (ahead.cursor - behind.cursor) % CursorSpan
Slot(cursor) == cursor % RingSize

\* The records that memory says are there and the kernel has not released,
\* oldest first.
Waiting == Pending(producer, released)
Queue == [i \in 1 .. Waiting |-> entries[Slot(released.cursor + i - 1)]]

\* LmCriticalInit: the kernel owns everything until the game enrols.
ControlInit(magic) ==
  [magic |-> magic, cursor |-> 0, inverse |-> 0, dropped |-> 0, droppedInverse |-> 0]
NoEntries == [i \in 0 .. RingSize - 1 |-> NoTrace]

\* LmCriticalAttach: the process takes up the line that it finds in memory,
\* torn or not, unless none has enrolled before it.
CriticalAttach ==
  /\ producer' = IF LmCriticalControlValid(consumer) /\ ~producer.magic /\ consumer.cursor = 0
                 THEN ControlInit(TRUE) ELSE producer
  /\ control' = producer'

\* One store into a control line: of a value ...
Advanced(c) == [c EXCEPT !.cursor = (@ + 1) % CursorSpan]
Counted(c) == [c EXCEPT !.dropped = IF @ = DropMax THEN @ ELSE @ + 1]

\* ... and of its inverse; the other value has its own already.
Inverted(c) == [c EXCEPT !.inverse = c.cursor, !.droppedInverse = c.dropped]

\* LmCriticalEnqueue, as the game reads the kernel's line and its own: nothing
\* is put into the ring past a line that does not hold ...
Refused == ~LmCriticalControlValid(consumer) \/ ~LmCriticalControlValid(control)

FullLate == Pending(control, consumer) > RingSize   \* variant: one record too many

\* ... and there is no waiting and no overwriting.
Full == Pending(control, consumer) >= RingSize

\* The kernel may read the ring.
CriticalEnrolled == LmCriticalControlValid(released) /\ LmCriticalControlValid(producer)

PeekUnlessFull == CriticalEnrolled /\ Waiting \in 1 .. RingSize - 1   \* variant

CriticalPeek == CriticalEnrolled /\ Waiting \in 1 .. RingSize

\* Variant: what has come meanwhile is released too.
AcknowledgeAll ==
  /\ released' = [released EXCEPT !.cursor = producer.cursor]
  /\ UNCHANGED <<trace, producer, control, consumer, entries, report>>

\* LmCriticalAcknowledge releases a record only after it has been handled ...
CriticalAcknowledge ==
  /\ released' = Advanced(released)
  /\ UNCHANGED <<trace, producer, control, consumer, entries, report>>

\* ... and the inverse completes and publishes the line.
CriticalRelease ==
  /\ released' = Inverted(released)
  /\ consumer' = released'
  /\ UNCHANGED <<trace, producer, control, entries, report>>
=============================================================================
