--------------------------- MODULE LmCrashRingProofs ---------------------------
(***************************************************************************)
(* Crash telemetry, for any size of the ring, any number of phases, resets *)
(* and power cuts: the kernel reads a line that the game is storing and a  *)
(* ring that the game is filling, and still takes only records that were   *)
(* whole, in their order, each once, and loses none that met a free place. *)
(***************************************************************************)
EXTENDS LmCrashSystem, FiniteSetTheorems, SequenceTheorems, TLAPS

-----------------------------------------------------------------------------
(* Counting modulo the size of the ring, of its cursors and of numbers.    *)

LEMMA ModSmall ==
  ASSUME NEW n \in Nat \ {0}, NEW a \in Nat
  PROVE  /\ a < n => a % n = a
         /\ n <= a /\ a < 2 * n => a % n = a - n
         /\ a % n \in 0 .. n - 1
OBVIOUS

LEMMA ModDifference ==
  ASSUME NEW n \in Nat \ {0}, NEW a \in 0 .. n - 1, NEW b \in 0 .. n - 1
  PROVE  (a - b) % n = IF a >= b THEN a - b ELSE a - b + n
<1>1. CASE a >= b
  <2>1. a - b \in Nat /\ a - b < n
    BY <1>1
  <2> QED BY <1>1, <2>1, ModSmall
<1>2. CASE a < b
  <2>1. a - b < 0 /\ -n < a - b
    BY <1>2
  <2> QED BY <1>2, <2>1
<1> QED BY <1>1, <1>2

LEMMA ModNext ==
  ASSUME NEW n \in Nat \ {0}, NEW a \in 0 .. n - 1
  PROVE  (a + 1) % n = IF a + 1 = n THEN 0 ELSE a + 1
<1>1. CASE a + 1 = n
  <2>1. n % n = 0
    BY ModSmall
  <2> QED BY <1>1, <2>1
<1>2. CASE a + 1 # n
  <2>1. PICK b \in Nat : b = a + 1
    OBVIOUS
  <2>2. b < n
    BY <1>2, <2>1
  <2>3. b % n = b
    BY <2>2, ModSmall
  <2> QED BY <1>2, <2>1, <2>3
<1> QED BY <1>1, <1>2

LEMMA DivMod ==
  ASSUME NEW n \in Nat \ {0}, NEW a \in Nat
  PROVE  \E q \in Nat : a = n * q + (a % n)
<1>1. a \div n \in Nat /\ a = n * (a \div n) + (a % n)
  OBVIOUS
<1> QED BY <1>1

\* A number less than n that is a multiple of n is 0.
LEMMA SmallMultiple ==
  ASSUME NEW n \in Nat \ {0}, NEW p \in Nat, NEW q \in Nat, NEW d \in Nat,
         n * p + d = n * q, d < n
  PROVE  d = 0
<1>1. d = n * (q - p)
  OBVIOUS
<1>2. CASE q - p <= 0
  <2>1. n * (q - p) <= 0
    BY <1>2
  <2> QED BY <1>1, <2>1
<1>3. CASE q - p >= 1
  <2>1. n * (q - p) >= n
    BY <1>3
  <2> QED BY <1>1, <2>1
<1> QED BY <1>2, <1>3

\* Numbers that differ by less than the modulus have different rests ...
LEMMA ModDiffers ==
  ASSUME NEW n \in Nat \ {0}, NEW a \in Nat, NEW b \in Nat, a < b, b < a + n
  PROVE  a % n # b % n
<1> SUFFICES ASSUME a % n = b % n PROVE FALSE
  OBVIOUS
<1>1. PICK p \in Nat : a = n * p + (a % n)
  BY DivMod
<1>2. PICK q \in Nat : b = n * q + (b % n)
  BY DivMod
<1>3. n * p \in Nat /\ n * q \in Nat /\ a % n \in Nat
  OBVIOUS
<1>4. n * p + (b - a) = n * q
  BY <1>1, <1>2, <1>3
<1>5. b - a \in Nat /\ b - a < n
  OBVIOUS
<1>6. b - a = 0
  BY <1>4, <1>5, SmallMultiple
<1> QED BY <1>6

\* ... and a multiple of the modulus makes no difference.
LEMMA ModPeriod ==
  ASSUME NEW n \in Nat \ {0}, NEW m \in Nat, m % n = 0, NEW a \in Nat
  PROVE  (a + m) % n = a % n
<1>1. PICK p \in Nat : a = n * p + (a % n)
  BY DivMod
<1>2. PICK q \in Nat : m = n * q
  <2>1. \E q \in Nat : m = n * q + (m % n)
    BY DivMod
  <2> QED BY <2>1
<1>3. PICK r \in Nat : a + m = n * r + ((a + m) % n)
  <2>1. a + m \in Nat
    OBVIOUS
  <2> QED BY <2>1, DivMod
<1>4. /\ n * p \in Nat /\ n * q \in Nat /\ n * r \in Nat
      /\ a % n \in 0 .. n - 1 /\ (a + m) % n \in 0 .. n - 1
      /\ p + q \in Nat /\ n * (p + q) = n * p + n * q
  OBVIOUS
<1>5. CASE a % n <= (a + m) % n
  <2>1. n * r + (((a + m) % n) - (a % n)) = n * (p + q)
    BY <1>1, <1>2, <1>3, <1>4
  <2>2. ((a + m) % n) - (a % n) \in Nat /\ ((a + m) % n) - (a % n) < n
    BY <1>4, <1>5
  <2>3. ((a + m) % n) - (a % n) = 0
    BY <1>4, <2>1, <2>2, SmallMultiple
  <2> QED BY <1>4, <2>3
<1>6. CASE (a + m) % n <= a % n
  <2>0. n * (p + q) + (a % n) = n * r + ((a + m) % n)
    BY <1>1, <1>2, <1>3, <1>4
  <2>1. n * (p + q) + ((a % n) - ((a + m) % n)) = n * r
    BY <2>0, <1>4
  <2>2. (a % n) - ((a + m) % n) \in Nat /\ (a % n) - ((a + m) % n) < n
    BY <1>4, <1>6
  <2>3. (a % n) - ((a + m) % n) = 0
    BY <1>4, <2>1, <2>2, SmallMultiple
  <2> QED BY <1>4, <2>3
<1> QED BY <1>4, <1>5, <1>6

LEMMA RingCounts ==
  ASSUME NEW p \in Cursors, NEW c \in Cursors, NEW d, d = (p - c) % CursorSpan
  PROVE  /\ d \in 0 .. CursorSpan - 1
         /\ (p + 1) % CursorSpan \in Cursors /\ (c + 1) % CursorSpan \in Cursors
         /\ d + 1 < CursorSpan => (((p + 1) % CursorSpan) - c) % CursorSpan = d + 1
         /\ d > 0 => (p - ((c + 1) % CursorSpan)) % CursorSpan = d - 1
         /\ p = c + d \/ p + CursorSpan = c + d
<1>1. CursorSpan \in Nat \ {0} /\ p \in 0 .. CursorSpan - 1 /\ c \in 0 .. CursorSpan - 1
  BY MailboxAssumption DEF Cursors
<1>2. d = IF p >= c THEN p - c ELSE p - c + CursorSpan
  BY <1>1, ModDifference
<1>3. /\ (p + 1) % CursorSpan = IF p + 1 = CursorSpan THEN 0 ELSE p + 1
      /\ (c + 1) % CursorSpan = IF c + 1 = CursorSpan THEN 0 ELSE c + 1
  BY <1>1, ModNext
<1>4. /\ (p + 1) % CursorSpan \in 0 .. CursorSpan - 1
      /\ (c + 1) % CursorSpan \in 0 .. CursorSpan - 1
  BY <1>1, <1>3
<1>5. (((p + 1) % CursorSpan) - c) % CursorSpan =
        IF (p + 1) % CursorSpan >= c THEN ((p + 1) % CursorSpan) - c
        ELSE ((p + 1) % CursorSpan) - c + CursorSpan
  BY <1>1, <1>4, ModDifference
<1>6. (p - ((c + 1) % CursorSpan)) % CursorSpan =
        IF p >= (c + 1) % CursorSpan THEN p - ((c + 1) % CursorSpan)
        ELSE p - ((c + 1) % CursorSpan) + CursorSpan
  BY <1>1, <1>4, ModDifference
<1> QED BY <1>1, <1>2, <1>3, <1>4, <1>5, <1>6 DEF Cursors

\* The places of the ring: those of a full queue are different, and the cursors
\* may wrap because they count a multiple of its size.
LEMMA RingSlots ==
  ASSUME NEW p \in Cursors, NEW c \in Cursors
  PROVE  /\ Slot(p) = Slot(c + ((p - c) % CursorSpan))
         /\ \A i \in Nat : Slot(((c + 1) % CursorSpan) + i) = Slot(c + 1 + i)
         /\ \A i, j \in Nat : i < j /\ j < i + RingSize => Slot(c + i) # Slot(c + j)
         /\ \A i \in Nat : Slot(c + i) \in 0 .. RingSize - 1
<1>1. /\ CursorSpan \in Nat /\ RingSize \in Nat \ {0} /\ CursorSpan % RingSize = 0
      /\ p \in Nat /\ c \in Nat /\ c < CursorSpan
  BY MailboxAssumption DEF Cursors
<1>2. \A a \in Nat : Slot(a + CursorSpan) = Slot(a)
  BY <1>1, ModPeriod DEF Slot
<1>3. Slot(p) = Slot(c + ((p - c) % CursorSpan))
  <2>1. p = c + ((p - c) % CursorSpan) \/ p + CursorSpan = c + ((p - c) % CursorSpan)
    BY RingCounts
  <2> QED BY <1>1, <1>2, <2>1
<1>4. ASSUME NEW i \in Nat
      PROVE  Slot(((c + 1) % CursorSpan) + i) = Slot(c + 1 + i)
  <2>0. (c + 1) % CursorSpan = IF c + 1 = CursorSpan THEN 0 ELSE c + 1
    <3>1. CursorSpan \in Nat \ {0} /\ c \in 0 .. CursorSpan - 1
      BY <1>1
    <3> QED BY <3>1, ModNext
  <2>1. CASE c + 1 < CursorSpan
    <3>1. (c + 1) % CursorSpan = c + 1
      BY <1>1, <2>0, <2>1
    <3> QED BY <3>1
  <2>2. CASE c + 1 = CursorSpan
    <3>1. (c + 1) % CursorSpan = 0
      BY <2>0, <2>2
    <3>2. Slot(i + CursorSpan) = Slot(i)
      BY <1>2
    <3>3. i + CursorSpan = c + 1 + i /\ 0 + i = i
      BY <1>1, <2>2
    <3> QED BY <3>1, <3>2, <3>3
  <2> QED BY <1>1, <2>1, <2>2
<1>5. ASSUME NEW i \in Nat, NEW j \in Nat, i < j, j < i + RingSize
      PROVE  Slot(c + i) # Slot(c + j)
  <2>1. c + i \in Nat /\ c + j \in Nat /\ c + i < c + j /\ c + j < c + i + RingSize
    BY <1>1, <1>5
  <2> QED BY <1>1, <2>1, ModDiffers DEF Slot
<1>6. \A i \in Nat : Slot(c + i) \in 0 .. RingSize - 1
  BY <1>1, ModSmall DEF Slot
<1> QED BY <1>3, <1>4, <1>5, <1>6

-----------------------------------------------------------------------------
(* Types.                                                                  *)

\* The poll has the head of the ring in hand, from its read to its release.
Handling ==
  \/ At("ACK")
  \/ kernel.stage \in {"CREATE", "ANCHOR", "EXTEND"} /\ kernel.back = "ACK"

RingTypeOK ==
  /\ MailboxTypeOK /\ GameTypeOK
  /\ kernel \in Kernels /\ reports \in [0 .. 1 -> Numbers]
  /\ emitted \in Seq(Traces) /\ strays \subseteq Traces
  /\ runs \in 0 .. MaxRuns

\* A record is released within the budget of one poll; the numbers of the game
\* are even; what it puts into the ring has been published.
PollShape ==
  /\ Handling \/ At("RELEASE") => kernel.count < DrainMax /\ ~In("OFF")
  /\ kernel.stage \in {"CREATE", "ANCHOR", "EXTEND"} => kernel.back \in {"ACK", "CHECK"}
  /\ cpu.seq % 2 = 0
  /\ Putting => line \in published

\* The console's first process enrols, and nothing is published before.
Enrolment ==
  /\ producer.magic <=> ~In("OFF")
  /\ control.magic <=> ~In("OFF")
  /\ In("OFF") =>
       /\ Armed /\ published = {}
       /\ producer = ControlInit(FALSE) /\ control = producer
       /\ consumer = ControlInit(TRUE) /\ released = consumer

TypeInv == RingTypeOK /\ PollShape /\ Enrolment

-----------------------------------------------------------------------------
(* The invariant.                                                          *)

\* A line that reads as a phase is one, in the cache and in memory, and memory
\* is never ahead of the cache.
LinesTrue ==
  /\ LmPhaseValid(line) => line \in published
  /\ LmPhaseValid(trace) => trace \in published
  /\ trace.event <= line.event /\ line.event <= cpu.event
  /\ \A record \in published : LmPhaseValid(record) /\ record.event <= trace.event
  /\ \A record, other \in published : record.event = other.event => record = other

\* What the numbers of the line are while the game stores it.
Storing ==
  /\ cpu.stage \in {"BODY", "BEGIN", "END"} =>
       /\ cpu.seq # 0 /\ line.end = cpu.seq - 1
       /\ \A record \in published : record.event < cpu.event
  /\ cpu.stage \in {"BODY", "BEGIN"} => line.begin = cpu.seq - 1
  /\ In("END") => line.begin = cpu.seq
  /\ cpu.stage \in {"BEGIN", "END"} => line.kind = cpu.kind /\ line.event = cpu.event
  /\ Putting => LmPhaseCritical(line)

\* The game's control line is ahead of memory by one record at the most, and
\* only between two stores or where a process was stopped between them; one
\* that is torn in memory is torn in the cache.
Ahead == control.cursor # producer.cursor
Held == Pending(producer, consumer)

ControlsTrue ==
  /\ cpu.stage \notin {"INVERSE", "SEAL", "DEAD"} => control = producer
  /\ In("CURSOR") => LmCriticalControlValid(control)
  /\ ~LmCriticalControlValid(producer) => control = producer
  /\ released.magic /\ (~At("RELEASE") => LmCriticalControlValid(released))
  /\ Ahead => /\ control.cursor = (producer.cursor + 1) % CursorSpan
              /\ line \in published /\ LmPhaseCritical(line)
  /\ In("CURSOR") \/ Ahead => Held < RingSize /\ entries[Slot(producer.cursor)] = line
  /\ Held <= RingSize
  /\ \/ released.cursor = consumer.cursor
     \/ /\ At("RELEASE") /\ Held > 0
        /\ released.cursor = (consumer.cursor + 1) % CursorSpan

\* A record on its way into the ring.
Coming == cpu.stage \in {"QUEUE", "CURSOR"} \/ Ahead

\* The ring holds published records in their order, and the one that is coming
\* is later than all of them.
RingOrdered ==
  /\ Handling => Waiting > 0
  /\ \A i \in 1 .. Waiting : Queue[i] \in published /\ LmPhaseCritical(Queue[i])
  /\ \A i, j \in 1 .. Waiting : i < j => Queue[i].event < Queue[j].event
  /\ Coming => \A i \in 1 .. Waiting : Queue[i].event < line.event

\* The kernel has handled published records, and has none else in hand.
HandledWhole ==
  /\ \A i \in DOMAIN emitted : emitted[i] \in published
  /\ At("RECHECK") =>
       /\ TraceValid => kernel.snapshot \in published
       /\ kernel.snapshot.event <= trace.event
       /\ \A i \in DOMAIN emitted : emitted[i].event <= kernel.snapshot.event

RingInv == TypeInv /\ LinesTrue /\ Storing /\ ControlsTrue /\ RingOrdered /\ HandledWhole

\* No number is more than twice the count of the phases so far.
NumbersFew ==
  /\ cpu.seq <= 2 * cpu.event
  /\ \A record \in published : record.begin <= 2 * record.event

\* The kernel's statics: the numbers of the last record and of the last critical
\* one, which is the greatest of theirs and not above the other.
Statics ==
  /\ kernel.lastPhase = IF emitted = <<>> THEN 0 ELSE emitted[Len(emitted)].begin
  /\ kernel.lastCritical <= kernel.lastPhase
  /\ kernel.lastCritical # 0 =>
       \E i \in DOMAIN emitted :
         LmPhaseCritical(emitted[i]) /\ emitted[i].begin = kernel.lastCritical
  /\ \A i \in DOMAIN emitted :
       LmPhaseCritical(emitted[i]) => emitted[i].begin <= kernel.lastCritical

\* The game was stopped between two stores of its control line, which is torn in
\* memory until the console is switched off.
Broken == ~LmCriticalControlValid(producer) /\ cpu.stage \notin {"OFF", "INVERSE"}

\* What waits in the ring is later than all that was handled, but for a head that
\* is not yet released and for strays; so is a record on its way into it.
QueueLater ==
  \A k \in 1 .. Waiting, i \in DOMAIN emitted :
    \/ emitted[i].event < Queue[k].event \/ emitted[i] \in strays
    \/ k = 1 /\ Handling
ComingLater ==
  Coming => \A i \in DOMAIN emitted : emitted[i].event < line.event \/ emitted[i] \in strays

\* What the phase line shows was the last to be handled, if it was handled and is
\* not critical.
LineLast ==
  \A i \in DOMAIN emitted : ~LmPhaseCritical(emitted[i]) =>
    /\ emitted[i].event = trace.event => i = Len(emitted)
    /\ emitted[i] \in strays => emitted[i].event < trace.event \/ Broken
    /\ At("RECHECK") /\ emitted[i] = kernel.snapshot => i = Len(emitted)

StraysHandled == \A record \in strays : Emitted(record)

Sequel == QueueLater /\ ComingLater /\ LineLast /\ StraysHandled

OrderInv == NumbersFew /\ Statics /\ EmittedInOrder /\ Sequel

\* The head in hand was handled, or had been passed over.
HeadSettled == Handling => Emitted(Queue[1]) \/ PassedOver(Queue[1])

\* What the ring takes is not lost from sight until the head is released.
KeptSoFar ==
  /\ \A record \in published \ lost :
       LmPhaseCritical(record) =>
         Emitted(record) \/ InQueue(record) \/ (Coming /\ record = line) \/ PassedOver(record)
  /\ Ahead => In("INVERSE") \/ line \in lost

-----------------------------------------------------------------------------
(* Types are kept.                                                         *)

LEMMA TraceTypes ==
  /\ NoTrace \in Traces /\ ~LmPhaseValid(NoTrace) /\ 0 \in Numbers /\ Span \in Nat
  /\ FreshKernel \in Kernels /\ 0 \in 0 .. RingSize - 1
  /\ \A magic \in BOOLEAN : ControlInit(magic) \in Controls
BY MailboxAssumption, DrainAssumption
   DEF NoTrace, Traces, Numbers, LmPhaseValid, FreshKernel, Kernels, KernelStages, Outcomes,
       ControlInit, Controls, Cursors

\* The numbers of phases stay even and skip zero.
LEMMA SequenceType ==
  ASSUME NEW seq \in Numbers, seq % 2 = 0
  PROVE  NextSequence(seq) \in Numbers \ {0} /\ NextSequence(seq) % 2 = 0
<1>1. Span \in Nat /\ Span > 4 /\ Span % 2 = 0
  BY MailboxAssumption
<1>2. seq + 2 <= Span
  BY <1>1 DEF Numbers
<1>3. CASE seq + 2 = Span
  <2>1. (seq + 2) % Span = 0
    BY <1>1, <1>3, ModSmall
  <2> QED BY <1>1, <2>1 DEF NextSequence, Numbers
<1>4. CASE seq + 2 < Span
  <2>1. (seq + 2) % Span = seq + 2
    <3>1. seq + 2 \in Nat
      BY DEF Numbers
    <3> QED BY <1>1, <1>4, <3>1, ModSmall
  <2> QED BY <1>1, <1>4, <2>1 DEF NextSequence, Numbers
<1> QED BY <1>1, <1>2, <1>3, <1>4 DEF Numbers

LEMMA NewerThanZero ==
  ASSUME NEW n \in Numbers
  PROVE  Newer(n, 0) <=> n # 0 /\ n < Span \div 2
<1>1. (n - 0) % Span = n
  BY MailboxAssumption, ModSmall DEF Numbers
<1> QED BY <1>1, MailboxAssumption DEF Newer, Numbers

\* Below half the span one number is newer than another if it is greater.
LEMMA NewerIsGreater ==
  ASSUME NEW m \in Numbers, NEW n \in Numbers, m < Span \div 2, n < Span \div 2
  PROVE  Newer(n, m) <=> m < n
<1>1. Span \in Nat \ {0} /\ Span % 2 = 0 /\ m \in 0 .. Span - 1 /\ n \in 0 .. Span - 1
  BY MailboxAssumption DEF Numbers
<1>2. (n - m) % Span = IF n >= m THEN n - m ELSE n - m + Span
  BY <1>1, ModDifference
<1> QED BY <1>1, <1>2 DEF Newer

LEMMA ArmedNext ==
  ASSUME NEW files \in [0 .. 1 -> Numbers]
  PROVE  \E newest \in Numbers :
           /\ ArmedSeq(files) = newest + 1 /\ newest + 1 \in Numbers
           /\ newest = 0 \/ newest < Span \div 2
           /\ newest = 0 \/ newest \in {files[0], files[1]}
           /\ \A i \in 0 .. 1 : files[i] < Span \div 2 => files[i] <= newest
<1> DEFINE G == {files[i] : i \in {j \in 0 .. 1 : Newer(files[j], 0)}}
           above(g) == \A h \in G \ {0, g} : Newer(g, h)
<1>1. Span \in Nat /\ Span > 4 /\ Span % 2 = 0 /\ 0 \in Numbers
  BY MailboxAssumption DEF Numbers
<1>2. /\ \A g \in G : g \in Numbers /\ g # 0 /\ g < Span \div 2 /\ g \in {files[0], files[1]}
      /\ \A i \in 0 .. 1 : files[i] # 0 /\ files[i] < Span \div 2 => files[i] \in G
  BY NewerThanZero
<1> HIDE DEF G
<1>3. \A g \in Numbers : g < Span \div 2 => NextGeneration(g) = g + 1 /\ g + 1 \in Numbers
  <2> SUFFICES ASSUME NEW g \in Numbers, g < Span \div 2
               PROVE  NextGeneration(g) = g + 1 /\ g + 1 \in Numbers
    OBVIOUS
  <2>1. (g + 1) % Span = g + 1
    BY <1>1, ModNext DEF Numbers
  <2> QED BY <1>1, <2>1 DEF NextGeneration, Numbers
<1>4. CASE G = {}
  <2>1. ArmedSeq(files) = NextGeneration(0)
    BY <1>4 DEF ArmedSeq, NewestOf, G
  <2>2. ArmedSeq(files) = 0 + 1 /\ 0 + 1 \in Numbers
    BY <1>1, <1>3, <2>1
  <2>3. \A i \in 0 .. 1 : files[i] < Span \div 2 => files[i] <= 0
    BY <1>1, <1>2, <1>4 DEF Numbers
  <2> QED BY <1>1, <2>2, <2>3
<1>5. CASE G # {}
  <2>1. \E g \in G : above(g)
    <3>1. PICK g \in G : \A h \in G : h <= g
      BY <1>2, <1>5 DEF Numbers
    <3>2. \A h \in G : h # g => Newer(g, h)
      BY <1>2, <3>1, NewerIsGreater DEF Numbers
    <3> QED BY <3>1, <3>2
  <2>2. G \ {0} = G
    BY <1>2
  <2> DEFINE newest == CHOOSE g \in G : above(g)
  <2>3. newest \in G /\ above(newest)
    BY <2>1
  <2>4. ArmedSeq(files) = NextGeneration(newest)
    BY <1>5, <2>2 DEF ArmedSeq, NewestOf, G
  <2> HIDE DEF newest
  <2>5. \A h \in G : h <= newest
    BY <1>2, <2>3, NewerIsGreater DEF Numbers
  <2>6. \A i \in 0 .. 1 : files[i] < Span \div 2 => files[i] <= newest
    BY <1>2, <2>3, <2>5 DEF Numbers
  <2> QED BY <1>2, <1>3, <2>3, <2>4, <2>6
<1> QED BY <1>4, <1>5
\* The stores into a control line.
LEMMA ControlStores ==
  ASSUME NEW c \in Controls
  PROVE  /\ Advanced(c) \in Controls /\ Counted(c) \in Controls /\ Inverted(c) \in Controls
         /\ c.cursor \in Cursors /\ c.magic \in BOOLEAN
         /\ Advanced(c).magic = c.magic /\ Advanced(c).cursor = (c.cursor + 1) % CursorSpan
         /\ Counted(c).magic = c.magic /\ Counted(c).cursor = c.cursor
         /\ Inverted(c).magic = c.magic /\ Inverted(c).cursor = c.cursor
         /\ c.magic => LmCriticalControlValid(Inverted(c))
<1>1. c.cursor \in Cursors /\ c.dropped \in 0 .. DropMax /\ c.magic \in BOOLEAN
  BY DEF Controls
<1>2. (c.cursor + 1) % CursorSpan \in Cursors
  BY <1>1, RingCounts
<1>3. Advanced(c) \in Controls /\ Advanced(c).magic = c.magic
      /\ Advanced(c).cursor = (c.cursor + 1) % CursorSpan
  BY <1>1, <1>2 DEF Advanced, Controls
<1>4. Counted(c) \in Controls /\ Counted(c).magic = c.magic /\ Counted(c).cursor = c.cursor
  BY <1>1, MailboxAssumption DEF Counted, Controls
<1>5. Inverted(c) \in Controls /\ Inverted(c).magic = c.magic /\ Inverted(c).cursor = c.cursor
      /\ (c.magic => LmCriticalControlValid(Inverted(c)))
  BY <1>1 DEF Inverted, Controls, LmCriticalControlValid
<1> QED BY <1>1, <1>3, <1>4, <1>5

LEMMA GameTypes ==
  ASSUME TypeInv, Game
  PROVE  TypeInv'
<1>1. UNCHANGED <<kernel, reports, emitted, strays, runs>> /\ GameNext
  BY DEF Game, kernelVars
<1>2. /\ trace \in Traces /\ line \in Traces /\ entries \in [0 .. RingSize - 1 -> Traces]
      /\ producer \in Controls /\ control \in Controls
      /\ consumer \in Controls /\ released \in Controls /\ report \in Reports /\ cpu \in Cpus
      /\ published \subseteq Traces /\ lost \subseteq published /\ early \in BOOLEAN
      /\ cpu.seq \in Numbers /\ cpu.seq % 2 = 0
  BY DEF TypeInv, RingTypeOK, MailboxTypeOK, GameTypeOK, PollShape, Cpus
<1>3. ASSUME MailboxTypeOK', GameTypeOK', cpu'.seq % 2 = 0, Enrolment',
             cpu'.stage \in {"QUEUE", "CURSOR", "INVERSE"} => line' \in published',
             cpu'.stage = "OFF" => cpu.stage = "OFF"
      PROVE  TypeInv'
  BY <1>1, <1>3 DEF TypeInv, RingTypeOK, PollShape, Handling, At, In, Putting
<1>4. ASSUME NEW kind \in Kinds, OpenPhase(kind) PROVE TypeInv'
  <2>1. Begun(kind) \in Cpus /\ Begun(kind).seq % 2 = 0 /\ Begun(kind).seq \in Numbers \ {0}
        /\ Begun(kind).stage = "BODY"
    BY <1>2, <1>4, SequenceType, MailboxAssumption DEF Begun, Cpus, Stages, OpenPhase
  <2>2. cpu' = Begun(kind) /\ cpu'.seq - 1 \in Numbers
    <3>1. \A n \in Numbers \ {0} : n - 1 \in Numbers
      BY MailboxAssumption DEF Numbers
    <3>2. cpu' = Begun(kind)
      BY <1>4 DEF OpenPhase
    <3> QED BY <2>1, <3>1, <3>2
  <2>3. line' \in Traces /\ trace' \in Traces
    BY <1>2, <1>4, <2>2 DEF OpenPhase, Traces
  <2>4. MailboxTypeOK' /\ GameTypeOK'
    BY <1>2, <1>4, <2>1, <2>2, <2>3
       DEF OpenPhase, MailboxTypeOK, GameTypeOK, ringVars
  <2>5. Enrolment'
    BY <1>2, <1>4, <2>1, <2>2 DEF OpenPhase, TypeInv, Enrolment, In, ringVars, Armed
  <2>6. cpu'.stage \notin {"QUEUE", "CURSOR", "INVERSE", "OFF"}
    BY <2>1, <2>2
  <2> QED BY <1>3, <2>1, <2>2, <2>4, <2>5, <2>6
<1>5. CASE StoreBody \/ StoreBegin \/ StoreEnd
  <2>1. line' \in Traces
    BY <1>2, <1>5 DEF StoreBody, StoreBegin, StoreEnd, Traces, Cpus
  <2>2. cpu' \in Cpus /\ cpu'.seq = cpu.seq /\ cpu'.stage # "OFF" /\ cpu.stage # "OFF"
    BY <1>2, <1>5 DEF StoreBody, StoreBegin, StoreEnd, To, In, Cpus, Stages
  <2>3. trace' \in Traces /\ published' \subseteq Traces /\ lost' \subseteq published'
    BY <1>2, <1>5, <2>1 DEF StoreBody, StoreBegin, StoreEnd, mailboxVars
  <2>4. UNCHANGED <<ringVars, report, early>>
    BY <1>5 DEF StoreBody, StoreBegin, StoreEnd, mailboxVars, ringVars
  <2>5. MailboxTypeOK' /\ GameTypeOK'
    BY <1>2, <2>1, <2>2, <2>3, <2>4 DEF MailboxTypeOK, GameTypeOK, ringVars
  <2>6. Enrolment'
    BY <2>2, <2>4 DEF TypeInv, Enrolment, In, ringVars
  <2>7. cpu'.stage \in {"QUEUE", "CURSOR", "INVERSE"} => line' \in published'
    BY <1>2, <1>5 DEF StoreBody, StoreBegin, StoreEnd, To, Cpus
  <2> QED BY <1>2, <1>3, <2>2, <2>5, <2>6, <2>7
<1>6. CASE Refuse \/ CountDropped \/ PutEntry \/ PutCursor \/ PutInverse
  <2>1. cpu' \in Cpus /\ cpu'.seq = cpu.seq /\ cpu'.stage # "OFF" /\ Putting
    BY <1>2, <1>6
       DEF Refuse, CountDropped, PutEntry, PutCursor, PutInverse, To, In, Cpus, Stages, Putting
  <2>2. /\ entries' \in [0 .. RingSize - 1 -> Traces]
        /\ producer' \in Controls /\ control' \in Controls
        /\ producer'.magic \in {producer.magic, control.magic} /\ control'.magic = control.magic
    BY <1>2, <1>6, ControlStores
       DEF Refuse, CountDropped, PutEntry, PutCursor, PutInverse, mailboxVars, ringVars
  <2>3. line \in published
    BY <2>1 DEF TypeInv, PollShape
  <2>4. /\ lost' \subseteq published
        /\ UNCHANGED <<trace, consumer, released, report, line, published, early>>
    BY <1>2, <1>6, <2>3
       DEF Refuse, CountDropped, PutEntry, PutCursor, PutInverse, mailboxVars, ringVars
  <2>5. MailboxTypeOK' /\ GameTypeOK'
    BY <1>2, <2>1, <2>2, <2>4 DEF MailboxTypeOK, GameTypeOK
  <2>6. Enrolment'
    BY <2>1, <2>2 DEF TypeInv, Enrolment, In, Putting
  <2> QED BY <1>2, <1>3, <2>1, <2>3, <2>4, <2>5, <2>6 DEF Putting
<1>7. CASE WriteBack \/ WriteBackControl
  <2>1. /\ UNCHANGED <<line, cpu, published, lost, early, control, consumer, released, entries,
                       report>>
        /\ trace' \in Traces /\ producer' \in {producer, control}
        /\ In("OFF") => producer' = producer
    BY <1>2, <1>7
       DEF WriteBack, WriteBackControl, gameVars, ringVars, TypeInv, Enrolment
  <2>2. MailboxTypeOK' /\ GameTypeOK' /\ Enrolment'
    BY <1>2, <2>1 DEF MailboxTypeOK, GameTypeOK, TypeInv, Enrolment, In, Armed
  <2> QED BY <1>2, <1>3, <2>1, <2>2 DEF TypeInv, PollShape, Putting
<1>8. CASE Capture \/ WriteBackReport \/ Seal
  <2>1. cpu' \in Cpus /\ cpu'.seq = cpu.seq /\ cpu'.stage \in {"SEAL", "DEAD"} /\ ~In("OFF")
    <3>1. CASE Capture
      <4>1. cpu.event + 1 \in 0 .. MaxEvents /\ ~In("OFF")
        BY <1>2, <3>1, MailboxAssumption DEF Capture, Cpus
      <4> QED BY <1>2, <3>1, <4>1 DEF Capture, Cpus, Stages
    <3>2. CASE WriteBackReport \/ Seal
      BY <1>2, <3>2 DEF WriteBackReport, Seal, To, In, Cpus, Stages
    <3> QED BY <1>8, <3>1, <3>2
  <2>2. report' \in Reports /\ early' \in BOOLEAN
    BY <1>2, <1>8 DEF Capture, WriteBackReport, Seal, Reports
  <2>3. lost' \subseteq published /\ UNCHANGED <<trace, ringVars, line, published>>
    BY <1>2, <1>8 DEF Capture, WriteBackReport, Seal, CutShort, TypeInv, PollShape
  <2>4. MailboxTypeOK' /\ GameTypeOK' /\ Enrolment'
    BY <1>2, <2>1, <2>2, <2>3 DEF MailboxTypeOK, GameTypeOK, ringVars, TypeInv, Enrolment, In
  <2> QED BY <1>2, <1>3, <2>1, <2>4
<1> QED BY <1>1, <1>4, <1>5, <1>6, <1>7, <1>8 DEF GameNext

\* What the poll leaves alone.
LEMMA KernelFrame ==
  ASSUME Kernel
  PROVE  /\ UNCHANGED <<trace, producer, control, entries, report, runs>>
         /\ UNCHANGED <<line, cpu, published, lost, early>> /\ KernelNext
         /\ ~Acknowledge /\ ~Release => released' = released
         /\ ~WriteBackConsumer /\ ~Release => consumer' = consumer
         /\ ~Recheck => strays' = strays
BY DEF Kernel, KernelNext, mailboxVars, ringVars, Drain, Acknowledge, CriticalAcknowledge, Release,
       CriticalRelease, WriteBackConsumer, Sample, Recheck, CreateDump, AnchorDump, ExtendDump,
       CheckReport, ReadReport, OpenReport, WriteReport, gameVars, kernelVars

LEMMA KernelTypes ==
  ASSUME TypeInv, Kernel
  PROVE  TypeInv'
<1>1. UNCHANGED <<trace, producer, control, entries, report, gameVars, runs>> /\ KernelNext
      /\ (~Recheck => strays' = strays)
  BY KernelFrame DEF gameVars
<1>2. /\ trace \in Traces /\ entries \in [0 .. RingSize - 1 -> Traces]
      /\ consumer \in Controls /\ released \in Controls /\ report \in Reports
      /\ kernel \in Kernels /\ reports \in [0 .. 1 -> Numbers] /\ emitted \in Seq(Traces)
      /\ strays \subseteq Traces /\ DrainMax \in Nat \ {0}
  BY DrainAssumption DEF TypeInv, RingTypeOK, MailboxTypeOK
<1>3. ASSUME kernel' \in Kernels, reports' \in [0 .. 1 -> Numbers], emitted' \in Seq(Traces),
             strays' \subseteq Traces, consumer' \in Controls, released' \in Controls,
             In("OFF") => consumer' = consumer /\ released' = released,
             Handling' \/ kernel'.stage = "RELEASE" => kernel'.count < DrainMax /\ ~In("OFF"),
             kernel'.stage \in {"CREATE", "ANCHOR", "EXTEND"} => kernel'.back \in {"ACK", "CHECK"}
      PROVE  TypeInv'
  BY <1>1, <1>3
     DEF TypeInv, RingTypeOK, PollShape, MailboxTypeOK, GameTypeOK, gameVars, Enrolment, In, Armed,
         At, Putting
\* The record and where the poll goes on with it.
<1>4. ASSUME NEW record \in Traces, NEW back \in {"ACK", "CHECK"}, EmitPhaseTrace(record, back),
             back = "ACK" => kernel.count < DrainMax /\ ~In("OFF"),
             UNCHANGED <<consumer, released, reports>>, strays' \subseteq Traces
      PROVE  TypeInv'
  <2>1. kernel' \in Kernels /\ emitted' \in Seq(Traces)
    <3>1. CASE Stale(record)
      BY <1>2, <1>4, <3>1 DEF EmitPhaseTrace, Goto, Kernels, KernelStages
    <3>2. CASE ~Stale(record)
      <4>1. record.begin \in Numbers
        BY DEF Traces
      <4>2. kernel' \in Kernels
        BY <1>2, <1>4, <3>2, <4>1 DEF EmitPhaseTrace, Kernels, KernelStages
      <4> QED BY <1>2, <1>4, <3>2, <4>2 DEF EmitPhaseTrace
    <3> QED BY <3>1, <3>2
  <2>2. /\ kernel'.count = kernel.count /\ (Handling' => back = "ACK")
        /\ kernel'.stage # "RELEASE"
    BY <1>2, <1>4 DEF EmitPhaseTrace, Goto, Kernels, Handling, At
  <2>3. kernel'.stage \in {"CREATE", "ANCHOR", "EXTEND"} => kernel'.back \in {"ACK", "CHECK"}
    BY <1>2, <1>4 DEF EmitPhaseTrace, Goto, Kernels
  <2> QED BY <1>2, <1>3, <1>4, <2>1, <2>2, <2>3
<1>5. CASE Drain
  <2>1. CASE kernel.count < DrainMax /\ CriticalPeek
    <3>1. entries[Slot(released.cursor)] \in Traces
      <4>1. released.cursor \in Nat /\ RingSize \in Nat \ {0}
        BY <1>2, MailboxAssumption DEF Controls, Cursors
      <4>2. Slot(released.cursor) \in 0 .. RingSize - 1
        BY <4>1, ModSmall DEF Slot
      <4> QED BY <1>2, <4>2
    <3>2. ~In("OFF")
      BY <2>1 DEF CriticalPeek, CriticalEnrolled, LmCriticalControlValid, TypeInv, Enrolment
    <3> QED BY <1>2, <1>4, <1>5, <2>1, <3>1, <3>2 DEF Drain, mailboxVars, ringVars
  <2>2. CASE ~(kernel.count < DrainMax /\ CriticalPeek)
    <3>1. kernel' = [kernel EXCEPT !.stage = "SAMPLE"]
          /\ UNCHANGED <<consumer, released, reports, emitted, strays>>
      BY <1>5, <2>2 DEF Drain, Goto, mailboxVars, ringVars
    <3> QED BY <1>2, <1>3, <3>1 DEF Kernels, KernelStages, Handling, At
  <2> QED BY <2>1, <2>2
<1>6. CASE Acknowledge \/ Release
  <2>1. released' \in Controls /\ consumer' \in Controls /\ UNCHANGED <<reports, emitted, strays>>
    BY <1>2, <1>6, ControlStores
       DEF Acknowledge, CriticalAcknowledge, Release, CriticalRelease
  <2>2. ~In("OFF") /\ kernel.count < DrainMax
    BY <1>6 DEF Acknowledge, Release, TypeInv, PollShape, Handling
  <2>3. CASE Acknowledge
    <3>1. kernel' \in Kernels /\ kernel'.stage = "RELEASE" /\ kernel'.count = kernel.count
      BY <1>2, <2>3 DEF Acknowledge, Goto, Kernels, KernelStages
    <3> QED BY <1>2, <1>3, <2>1, <2>2, <3>1
  <2>4. CASE Release
    <3>1. kernel.count + 1 \in 0 .. DrainMax
      BY <1>2, <2>2 DEF Kernels
    <3>2. kernel' \in Kernels /\ kernel'.stage = "DRAIN"
      BY <1>2, <2>4, <3>1, TraceTypes DEF Release, Done, Kernels, KernelStages
    <3> QED BY <1>2, <1>3, <2>1, <2>2, <3>2 DEF Handling, At
  <2> QED BY <1>6, <2>3, <2>4
<1>7. CASE WriteBackConsumer
  <2>1. UNCHANGED <<released, kernelVars>> /\ consumer' = released /\ released # consumer
    BY <1>7 DEF WriteBackConsumer
  <2>2. ~In("OFF")
    BY <2>1 DEF TypeInv, Enrolment
  <2> QED BY <1>2, <1>3, <2>1, <2>2 DEF kernelVars, TypeInv, PollShape, Handling, At
<1>8. CASE Sample
  <2>1. kernel' \in Kernels /\ kernel'.stage = "RECHECK"
    BY <1>2, <1>8 DEF Sample, Kernels, KernelStages
  <2> QED BY <1>2, <1>3, <1>8, <2>1 DEF Sample, mailboxVars, ringVars, Handling, At
<1>9. CASE Recheck
  <2>1. kernel.snapshot \in Traces /\ UNCHANGED <<consumer, released, reports>>
    BY <1>2, <1>9 DEF Recheck, mailboxVars, ringVars, Kernels
  <2>2. strays' \subseteq Traces
    BY <1>2, <1>9, <2>1 DEF Recheck
  <2>3. CASE EmitPhaseTrace(kernel.snapshot, "CHECK")
    BY <1>4, <2>1, <2>2, <2>3
  <2>4. CASE Goto("CHECK") /\ UNCHANGED emitted
    <3>1. kernel' \in Kernels /\ kernel'.stage = "CHECK"
      BY <1>2, <2>4 DEF Goto, Kernels, KernelStages
    <3> QED BY <1>2, <1>3, <2>1, <2>2, <2>4, <3>1 DEF Handling, At
  <2> QED BY <1>9, <2>3, <2>4 DEF Recheck
<1>10. CASE CreateDump \/ AnchorDump \/ ExtendDump
  <2>1. /\ kernel.stage \in {"CREATE", "ANCHOR", "EXTEND"}
        /\ UNCHANGED <<consumer, released, reports, emitted, strays>>
        /\ \E stage \in {"ANCHOR", kernel.back} : Goto(stage)
    BY <1>10 DEF CreateDump, AnchorDump, ExtendDump, At, mailboxVars, ringVars
  <2>2. kernel.back \in {"ACK", "CHECK"}
    BY <2>1 DEF TypeInv, PollShape
  <2>3. /\ kernel' \in Kernels /\ kernel'.back = kernel.back /\ kernel'.count = kernel.count
        /\ kernel'.stage \in {"ANCHOR", kernel.back}
    BY <1>2, <2>1, <2>2 DEF Goto, Kernels, KernelStages
  <2>4. Handling' \/ kernel'.stage = "RELEASE" => Handling
    BY <2>1, <2>2, <2>3 DEF Handling, At
  <2> QED BY <1>2, <1>3, <2>1, <2>2, <2>3, <2>4 DEF TypeInv, PollShape
<1>11. CASE CheckReport
  <2>1. kernel' \in Kernels /\ kernel'.stage \in {"READ", "DRAIN"}
    <3>1. Done \in Kernels
      BY <1>2, TraceTypes DEF Done, Kernels, KernelStages
    <3>2. PICK stage \in {"READ", "DRAIN"} :
            kernel' = [Done EXCEPT !.stage = stage, !.count = 0]
      BY <1>11 DEF CheckReport
    <3>3. 0 \in 0 .. DrainMax
      BY <1>2
    <3> QED BY <3>1, <3>2, <3>3 DEF Kernels, KernelStages
  <2> QED BY <1>2, <1>3, <1>11, <2>1 DEF CheckReport, mailboxVars, ringVars, Handling, At
<1>12. CASE ReadReport
  <2>1. kernel' \in Kernels /\ kernel'.stage \in {"OPEN", "DRAIN"}
    BY <1>2, <1>12 DEF ReadReport, Kernels, KernelStages, Outcomes, Reports
  <2> QED BY <1>2, <1>3, <1>12, <2>1 DEF ReadReport, mailboxVars, ringVars, Handling, At
<1>13. CASE OpenReport \/ WriteReport
  <2>1. kernel' \in Kernels /\ kernel'.stage \in {"WRITE", "DRAIN"}
    BY <1>2, <1>13 DEF OpenReport, WriteReport, Goto, Kernels, KernelStages, Outcomes
  <2>2. reports' \in [0 .. 1 -> Numbers]
    BY <1>2, <1>13, TraceTypes DEF OpenReport, WriteReport, Written, Kernels
  <2> QED
    BY <1>2, <1>3, <1>13, <2>1, <2>2
       DEF OpenReport, WriteReport, mailboxVars, ringVars, Handling, At
<1> QED
  BY <1>1, <1>5, <1>6, <1>7, <1>8, <1>9, <1>10, <1>11, <1>12, <1>13 DEF KernelNext

\* A process that starts takes up the line as it is, but for the magic of the first.
LEMMA Attached ==
  ASSUME TypeInv, CrashInit, Start \/ Reset
  PROVE  /\ producer' = IF In("OFF") THEN ControlInit(TRUE) ELSE producer
         /\ control' = producer' /\ producer'.cursor = producer.cursor
         /\ producer' \in Controls
<1>1. CASE In("OFF")
  <2>1. Armed /\ producer = ControlInit(FALSE) /\ consumer = ControlInit(TRUE)
    BY <1>1 DEF TypeInv, Enrolment
  <2>2. producer' = ControlInit(TRUE) /\ control' = producer'
    BY <2>1 DEF CrashInit, CriticalAttach, ControlInit, LmCriticalControlValid
  <2> QED BY <1>1, <2>1, <2>2, TraceTypes DEF ControlInit
<1>2. CASE ~In("OFF")
  <2>1. producer.magic /\ producer \in Controls
    BY <1>2 DEF TypeInv, Enrolment, RingTypeOK, MailboxTypeOK
  <2>2. producer' = producer /\ control' = producer'
    BY <2>1 DEF CrashInit, CriticalAttach
  <2> QED BY <1>2, <2>1, <2>2
<1> QED BY <1>1, <1>2

LEMMA FreshTypes ==
  ASSUME TypeInv, Start \/ Reset \/ Restart
  PROVE  TypeInv'
<1>1. /\ trace \in Traces /\ producer \in Controls /\ cpu \in Cpus /\ line \in Traces
      /\ published \subseteq Traces /\ lost \subseteq published /\ reports \in [0 .. 1 -> Numbers]
      /\ kernel \in Kernels
  BY DEF TypeInv, RingTypeOK, MailboxTypeOK, GameTypeOK
<1>2. CASE CrashInit /\ (Start \/ Reset)
  <2>1. /\ cpu' \in Cpus /\ cpu'.stage = "RUN" /\ cpu'.seq % 2 = 0
    <3>1. cpu' = [cpu EXCEPT !.stage = "RUN", !.kind = "NONE",
                             !.seq = IF Armed /\ LmPhaseValid(trace) THEN trace.begin ELSE 0]
      BY <1>2 DEF CrashInit
    <3>2. cpu'.seq \in Numbers /\ cpu'.seq % 2 = 0
      BY <1>1, <3>1, TraceTypes DEF LmPhaseValid, Traces, Cpus
    <3> QED BY <1>1, <3>1, <3>2 DEF Cpus, Stages
  <2>2. producer' \in Controls /\ control' \in Controls /\ producer'.magic /\ control'.magic
    <3>1. producer'.magic
      BY <1>2, Attached DEF TypeInv, Enrolment, ControlInit
    <3> QED BY <1>2, <3>1, Attached
  <2>3. /\ line' \in Traces /\ lost' \subseteq published
        /\ UNCHANGED <<trace, consumer, released, entries, report, published, early, kernelVars>>
    BY <1>1, <1>2 DEF CrashInit, Start, Reset, CutShort, TypeInv, PollShape
  <2>4. runs' \in 0 .. MaxRuns
    BY <1>2, SystemAssumption DEF Start, Reset, TypeInv, RingTypeOK
  <2>5. RingTypeOK'
    BY <1>1, <2>1, <2>2, <2>3, <2>4
       DEF TypeInv, RingTypeOK, MailboxTypeOK, GameTypeOK, kernelVars
  <2> QED
    BY <2>1, <2>2, <2>3, <2>5
       DEF TypeInv, PollShape, Enrolment, In, Handling, At, kernelVars, Putting
<1>3. CASE Restart
  <2>1. reports' \in [0 .. 1 -> Numbers]
    BY <1>1, <1>3 DEF Restart, CutReports, Written, Kernels
  <2>2. report' \in Reports /\ report'.state = "ARMED"
    <3>1. ArmedSeq(reports') \in Numbers
      BY <2>1, ArmedNext
    <3> QED BY <1>3, <3>1 DEF Restart, ArmedReport, Reports
  <2>3. cpu' \in Cpus /\ cpu'.stage = "OFF" /\ cpu'.seq % 2 = 0
    BY <1>1, <1>3, TraceTypes DEF Restart, NoCpu, Cpus, Stages
  <2>4. /\ producer' = ControlInit(FALSE) /\ control' = ControlInit(FALSE)
        /\ consumer' = ControlInit(TRUE) /\ released' = ControlInit(TRUE)
        /\ entries' \in [0 .. RingSize - 1 -> Traces] /\ published' = {}
    BY <1>3, TraceTypes DEF Restart, NoEntries
  <2>5. runs' \in 0 .. MaxRuns
    BY <1>3, SystemAssumption DEF Restart, TypeInv, RingTypeOK
  <2>6. RingTypeOK'
    <3>1. MailboxTypeOK'
      BY <1>3, <2>2, <2>4, TraceTypes DEF Restart, MailboxTypeOK
    <3>2. GameTypeOK'
      BY <1>3, <2>3, TraceTypes DEF Restart, GameTypeOK
    <3>3. kernel' \in Kernels /\ emitted' \in Seq(Traces) /\ strays' \subseteq Traces
      BY <1>3, TraceTypes DEF Restart
    <3> QED BY <2>1, <2>5, <3>1, <3>2, <3>3 DEF RingTypeOK
  <2>7. ~Handling' /\ kernel'.stage = "DRAIN"
    BY <1>3 DEF Restart, FreshKernel, Handling, At
  <2>8. Enrolment'
    BY <2>2, <2>3, <2>4 DEF Enrolment, In, Armed, ControlInit
  <2> QED
    BY <2>3, <2>6, <2>7, <2>8 DEF TypeInv, PollShape, At, Putting
<1> QED BY <1>2, <1>3 DEF Start, Reset

LEMMA InitTypes ==
  ASSUME Init
  PROVE  TypeInv
<1>1. reports \in [0 .. 1 -> Numbers]
  BY CardAssumption DEF Init
<1>2. report \in Reports /\ report.state = "ARMED"
  <2>1. ArmedSeq(reports) \in Numbers
    BY <1>1, ArmedNext
  <2> QED BY <2>1 DEF Init, ArmedReport, Reports
<1>3. cpu \in Cpus /\ cpu.stage = "OFF" /\ cpu.seq % 2 = 0
  BY MailboxAssumption, TraceTypes DEF Init, NoCpu, Cpus, Stages
<1>4. /\ producer = ControlInit(FALSE) /\ control = ControlInit(FALSE)
      /\ consumer = ControlInit(TRUE) /\ released = ControlInit(TRUE)
      /\ entries \in [0 .. RingSize - 1 -> Traces] /\ published = {}
  BY TraceTypes DEF Init, NoEntries
<1>5. RingTypeOK
  <2>1. MailboxTypeOK
    BY <1>2, <1>4, TraceTypes DEF Init, MailboxTypeOK
  <2>2. GameTypeOK
    BY <1>3, TraceTypes DEF Init, GameTypeOK
  <2>3. kernel \in Kernels /\ emitted \in Seq(Traces) /\ strays \subseteq Traces
        /\ runs \in 0 .. MaxRuns
    BY TraceTypes, SystemAssumption DEF Init
  <2> QED BY <1>1, <2>1, <2>2, <2>3 DEF RingTypeOK
<1>6. ~Handling /\ kernel.stage = "DRAIN"
  BY DEF Init, FreshKernel, Handling, At
<1>7. Enrolment
  BY <1>2, <1>3, <1>4 DEF Enrolment, In, Armed, ControlInit
<1> QED
  BY <1>3, <1>5, <1>6, <1>7 DEF TypeInv, PollShape, At, Putting

LEMMA TypeStep ==
  ASSUME TypeInv, [Next]_vars
  PROVE  TypeInv'
<1>1. CASE UNCHANGED vars
  BY <1>1 DEF vars, mailboxVars, ringVars, gameVars, kernelVars, TypeInv, RingTypeOK,
              MailboxTypeOK, GameTypeOK, PollShape, Enrolment, Handling, At, In, Armed, Putting
<1> QED BY <1>1, GameTypes, KernelTypes, FreshTypes DEF Next

-----------------------------------------------------------------------------
(* The queue.                                                              *)

\* What one more record, or one fewer, makes of the records between two lines.
LEMMA PendingCounts ==
  ASSUME NEW a \in Controls, NEW b \in Controls
  PROVE  /\ Pending(a, b) \in 0 .. CursorSpan - 1 /\ Pending(a, b) \in Nat
         /\ \A c \in Controls :
              c.cursor = (a.cursor + 1) % CursorSpan /\ Pending(a, b) + 1 < CursorSpan
              => Pending(c, b) = Pending(a, b) + 1
         /\ \A c \in Controls :
              c.cursor = (b.cursor + 1) % CursorSpan /\ Pending(a, b) > 0
              => Pending(a, c) = Pending(a, b) - 1
<1>1. a.cursor \in Cursors /\ b.cursor \in Cursors
  BY DEF Controls
<1>2. PICK p \in Cursors : p = a.cursor
  BY <1>1
<1>3. PICK q \in Cursors : q = b.cursor
  BY <1>1
<1>4. Pending(a, b) = (p - q) % CursorSpan
  BY <1>2, <1>3 DEF Pending
<1> DEFINE d == (p - q) % CursorSpan
<1>5. /\ d \in 0 .. CursorSpan - 1
      /\ d + 1 < CursorSpan => (((p + 1) % CursorSpan) - q) % CursorSpan = d + 1
      /\ d > 0 => (p - ((q + 1) % CursorSpan)) % CursorSpan = d - 1
  BY RingCounts
<1>6. Pending(a, b) = d
  BY <1>4
<1> HIDE DEF d
<1>7. d \in Nat
  BY <1>5, MailboxAssumption
<1>8. ASSUME NEW c \in Controls, c.cursor = (a.cursor + 1) % CursorSpan, d + 1 < CursorSpan
      PROVE  Pending(c, b) = d + 1
  <2>1. Pending(c, b) = (((p + 1) % CursorSpan) - q) % CursorSpan
    BY <1>2, <1>3, <1>8 DEF Pending
  <2> QED BY <1>5, <1>8, <2>1
<1>9. ASSUME NEW c \in Controls, c.cursor = (b.cursor + 1) % CursorSpan, d > 0
      PROVE  Pending(a, c) = d - 1
  <2>1. Pending(a, c) = (p - ((q + 1) % CursorSpan)) % CursorSpan
    BY <1>2, <1>3, <1>9 DEF Pending
  <2> QED BY <1>5, <1>9, <2>1
<1> QED BY <1>5, <1>6, <1>7, <1>8, <1>9

LEMMA QueueShape ==
  ASSUME TypeInv
  PROVE  /\ Waiting \in 0 .. CursorSpan - 1 /\ Waiting \in Nat
         /\ Held \in 0 .. CursorSpan - 1 /\ Held \in Nat
         /\ DOMAIN Queue = 1 .. Waiting
         /\ \A i \in 1 .. Waiting :
              Queue[i] = entries[Slot(released.cursor + i - 1)] /\ Queue[i] \in Traces
<1>1. producer.cursor \in Cursors /\ released.cursor \in Cursors /\ consumer.cursor \in Cursors
      /\ entries \in [0 .. RingSize - 1 -> Traces]
  BY DEF TypeInv, RingTypeOK, MailboxTypeOK, Controls
<1>2. Waiting \in 0 .. CursorSpan - 1 /\ Held \in 0 .. CursorSpan - 1
      /\ Waiting \in Nat /\ Held \in Nat
  BY PendingCounts DEF Waiting, Held, TypeInv, RingTypeOK, MailboxTypeOK
<1>3. ASSUME NEW i \in 1 .. Waiting PROVE entries[Slot(released.cursor + i - 1)] \in Traces
  <2>1. i - 1 \in Nat /\ released.cursor + i - 1 = released.cursor + (i - 1)
    BY <1>1, <1>2, MailboxAssumption DEF Cursors
  <2>2. Slot(released.cursor + (i - 1)) \in 0 .. RingSize - 1
    BY <1>1, <2>1, RingSlots
  <2> QED BY <1>1, <2>1, <2>2
<1> QED BY <1>2, <1>3 DEF Queue

LEMMA QueueSame ==
  ASSUME producer'.cursor = producer.cursor, released'.cursor = released.cursor, entries' = entries
  PROVE  Waiting' = Waiting /\ Queue' = Queue
<1>1. Waiting' = Waiting
  BY DEF Waiting, Pending
<1> QED BY <1>1 DEF Queue

\* What the kernel has released and memory does not show yet is one record at most.
LEMMA WaitingHeld ==
  ASSUME TypeInv, ControlsTrue
  PROVE  /\ Waiting <= Held
         /\ At("RELEASE") \/ Waiting = Held
<1>1. /\ producer \in Controls /\ consumer \in Controls /\ released \in Controls
      /\ Waiting \in Nat /\ Held \in Nat
  BY QueueShape DEF TypeInv, RingTypeOK, MailboxTypeOK
<1>2. CASE released.cursor = consumer.cursor
  BY <1>1, <1>2 DEF Waiting, Held, Pending
<1>3. CASE At("RELEASE") /\ Held > 0 /\ released.cursor = (consumer.cursor + 1) % CursorSpan
  <2>1. Waiting = Held - 1
    BY <1>1, <1>3, PendingCounts DEF Waiting, Held
  <2> QED BY <1>1, <1>3, <2>1
<1> QED BY <1>2, <1>3 DEF ControlsTrue

\* What the kernel finds at the head of the ring.
LEMMA QueueHead ==
  ASSUME TypeInv, Waiting > 0
  PROVE  1 \in 1 .. Waiting /\ entries[Slot(released.cursor)] = Queue[1]
<1>1. 1 \in 1 .. Waiting
  BY QueueShape
<1>2. Queue[1] = entries[Slot(released.cursor + 1 - 1)]
  BY <1>1, QueueShape
<1>3. released.cursor + 1 - 1 = released.cursor
  BY MailboxAssumption DEF TypeInv, RingTypeOK, MailboxTypeOK, Controls, Cursors
<1> QED BY <1>1, <1>2, <1>3

\* The places before the one that is filled keep what they hold ...
LEMMA QueueUntouched ==
  ASSUME RingInv, PutEntry
  PROVE  /\ Waiting' = Waiting /\ Queue' = Queue /\ Held < RingSize /\ Held' = Held
         /\ control = producer /\ LmCriticalControlValid(control)
         /\ entries'[Slot(producer.cursor)] = line
<1>1. /\ producer.cursor \in Cursors /\ released.cursor \in Cursors
      /\ producer \in Controls /\ cpu \in Cpus /\ TypeInv /\ ControlsTrue
      /\ entries \in [0 .. RingSize - 1 -> Traces]
      /\ RingSize \in Nat \ {0} /\ CursorSpan \in Nat /\ CursorSpan > RingSize
  BY MailboxAssumption
     DEF RingInv, TypeInv, RingTypeOK, MailboxTypeOK, GameTypeOK, Controls
<1>2. Waiting \in 0 .. CursorSpan - 1 /\ Waiting \in Nat /\ Held \in Nat /\ Waiting <= Held
  BY <1>1, QueueShape, WaitingHeld
<1>3. control = producer
  BY <1>1 DEF ControlsTrue, PutEntry, In
<1>4. /\ entries' = [entries EXCEPT ![Slot(producer.cursor)] = line]
      /\ UNCHANGED <<producer, released, consumer>> /\ Held < RingSize
      /\ LmCriticalControlValid(control)
  BY <1>1, <1>2, <1>3 DEF PutEntry, Full, Held, Refused
<1>5. Waiting' = Waiting /\ Held' = Held
  BY <1>4 DEF Waiting, Held, Pending
<1>6. /\ Slot(producer.cursor) = Slot(released.cursor + Waiting)
      /\ Slot(producer.cursor) \in 0 .. RingSize - 1
  <2>1. Slot(producer.cursor) = Slot(released.cursor + Waiting)
    BY <1>1, RingSlots DEF Waiting, Pending
  <2> QED BY <1>1, <1>2, <2>1, RingSlots
<1>7. \A i \in 1 .. Waiting :
        entries'[Slot(released.cursor + i - 1)] = entries[Slot(released.cursor + i - 1)]
  <2> SUFFICES ASSUME NEW i \in 1 .. Waiting
               PROVE  entries'[Slot(released.cursor + i - 1)] = entries[Slot(released.cursor + i - 1)]
    OBVIOUS
  <2>1. PICK j \in Nat : j = i - 1 /\ j < Waiting /\ Waiting < j + RingSize
    BY <1>1, <1>2, <1>4
  <2>2. Slot(released.cursor + j) # Slot(released.cursor + Waiting)
    BY <1>1, <1>2, <2>1, RingSlots
  <2>3. released.cursor + i - 1 = released.cursor + j
    BY <1>1, <1>2, <2>1 DEF Cursors
  <2> QED BY <1>1, <1>4, <1>6, <2>2, <2>3
<1>8. Queue' = Queue
  BY <1>4, <1>5, <1>7 DEF Queue
<1>9. entries'[Slot(producer.cursor)] = line
  BY <1>1, <1>4, <1>6
<1> QED BY <1>3, <1>4, <1>5, <1>8, <1>9

\* ... and the record becomes the last of the queue when memory gets the cursor.
LEMMA QueueAppend ==
  ASSUME RingInv, PutInverse \/ WriteBackControl, Ahead
  PROVE  /\ Waiting < RingSize /\ Waiting' = Waiting + 1
         /\ Held < RingSize /\ Held' = Held + 1
         /\ Queue'[Waiting + 1] = line
         /\ \A i \in 1 .. Waiting : Queue'[i] = Queue[i]
         /\ ~Ahead'
<1>1. /\ producer.cursor \in Cursors /\ released.cursor \in Cursors /\ consumer.cursor \in Cursors
      /\ producer \in Controls /\ control \in Controls /\ released \in Controls
      /\ consumer \in Controls /\ TypeInv /\ ControlsTrue
      /\ entries \in [0 .. RingSize - 1 -> Traces]
      /\ RingSize \in Nat \ {0} /\ CursorSpan \in Nat /\ CursorSpan > RingSize
  BY MailboxAssumption
     DEF RingInv, TypeInv, RingTypeOK, MailboxTypeOK, GameTypeOK, Controls
<1>2. Waiting \in Nat /\ Held \in Nat /\ Waiting <= Held
  BY <1>1, QueueShape, WaitingHeld
<1>3. /\ producer'.cursor = control.cursor /\ control'.cursor = control.cursor
      /\ UNCHANGED <<entries, released, consumer>>
  BY <1>1, ControlStores DEF PutInverse, WriteBackControl
<1>4. /\ producer'.cursor = (producer.cursor + 1) % CursorSpan
      /\ Held < RingSize /\ entries[Slot(producer.cursor)] = line
  BY <1>1, <1>3 DEF ControlsTrue
<1>5. Waiting' = Waiting + 1 /\ Held' = Held + 1
  <2>1. Waiting + 1 < CursorSpan /\ Held + 1 < CursorSpan
    BY <1>1, <1>2, <1>4
  <2>2. producer' \in Controls
    BY <1>1, ControlStores DEF PutInverse, WriteBackControl
  <2>3. Waiting' = Waiting + 1
    BY <1>1, <1>3, <1>4, <2>1, <2>2, PendingCounts DEF Waiting
  <2>4. Held' = Held + 1
    BY <1>1, <1>3, <1>4, <2>1, <2>2, PendingCounts DEF Held
  <2> QED BY <2>3, <2>4
<1>6. Slot(producer.cursor) = Slot(released.cursor + Waiting)
  BY <1>1, RingSlots DEF Waiting, Pending
<1>7. Queue'[Waiting + 1] = line
  <2>1. Queue'[Waiting + 1] = entries[Slot(released.cursor + (Waiting + 1) - 1)]
    BY <1>2, <1>3, <1>5 DEF Queue
  <2>2. released.cursor + (Waiting + 1) - 1 = released.cursor + Waiting
    BY <1>1, <1>2 DEF Cursors
  <2> QED BY <1>4, <1>6, <2>1, <2>2
<1>8. \A i \in 1 .. Waiting : Queue'[i] = Queue[i]
  BY <1>2, <1>3, <1>5 DEF Queue
<1>9. ~Ahead'
  BY <1>3 DEF Ahead
<1>10. Waiting < RingSize
  BY <1>1, <1>2, <1>4
<1> QED BY <1>4, <1>5, <1>7, <1>8, <1>9, <1>10

\* The ring without its head.
LEMMA QueueTail ==
  ASSUME TypeInv, Waiting > 0, CriticalAcknowledge
  PROVE  /\ Waiting' = Waiting - 1
         /\ \A i \in 1 .. Waiting - 1 : Queue'[i] = Queue[i + 1]
         /\ released'.cursor = (released.cursor + 1) % CursorSpan
         /\ released'.magic = released.magic
<1>1. /\ producer.cursor \in Cursors /\ released.cursor \in Cursors
      /\ producer \in Controls /\ released \in Controls
      /\ Waiting \in 0 .. CursorSpan - 1 /\ Waiting \in Nat
  BY QueueShape DEF TypeInv, RingTypeOK, MailboxTypeOK, Controls
<1>2. /\ released'.cursor = (released.cursor + 1) % CursorSpan /\ released'.magic = released.magic
      /\ UNCHANGED <<producer, entries>> /\ released' \in Controls
  BY <1>1, ControlStores DEF CriticalAcknowledge
<1>3. Waiting' = Waiting - 1
  BY <1>1, <1>2, PendingCounts DEF Waiting
<1>4. ASSUME NEW i \in 1 .. Waiting - 1
      PROVE  Queue'[i] = Queue[i + 1]
  <2>1. Queue'[i] = entries[Slot(released'.cursor + i - 1)]
    BY <1>2, <1>3 DEF Queue
  <2>2. Queue[i + 1] = entries[Slot(released.cursor + (i + 1) - 1)]
    BY <1>1 DEF Queue
  <2>3. PICK j \in Nat : j = i - 1
    BY <1>1
  <2>4. Slot(((released.cursor + 1) % CursorSpan) + j) = Slot(released.cursor + 1 + j)
    BY <1>1, RingSlots
  <2>5. released.cursor + 1 + j = released.cursor + (i + 1) - 1 /\ released.cursor \in Nat
    BY <1>1, <2>3, MailboxAssumption DEF Cursors
  <2>6. ((released.cursor + 1) % CursorSpan) + j = released'.cursor + i - 1
    <3>1. released'.cursor \in Nat
      BY <1>2, MailboxAssumption DEF Controls, Cursors
    <3> QED BY <1>1, <1>2, <2>3, <3>1
  <2> QED BY <2>1, <2>2, <2>4, <2>5, <2>6
<1> QED BY <1>2, <1>3, <1>4

-----------------------------------------------------------------------------
(* Steps of the game keep the invariant.                                   *)

\* A step that leaves the queue as it is, and the poll: the record on its way is
\* the one of before, or later than every other.
LEMMA OrderKept ==
  ASSUME RingInv, Waiting' = Waiting, Queue' = Queue, UNCHANGED <<kernel, emitted>>,
         published \subseteq published', trace.event <= trace'.event,
         trace.event \in Int, trace'.event \in Int,
         Coming' => (Coming /\ line' = line) \/ \A record \in published : record.event < line'.event
  PROVE  RingOrdered' /\ HandledWhole'
<1>1. Handling' <=> Handling
  BY DEF Handling, At
<1>2. RingOrdered'
  BY <1>1 DEF RingInv, RingOrdered
<1>3. kernel.snapshot.event \in Int
  BY MailboxAssumption DEF RingInv, TypeInv, RingTypeOK, Kernels, Traces
<1>4. HandledWhole'
  BY <1>3 DEF RingInv, HandledWhole, At, TraceValid
<1> QED BY <1>2, <1>4

\* The steps that change the ring, or what memory shows of it.
RingStore == CountDropped \/ PutEntry \/ PutCursor \/ PutInverse \/ WriteBackControl

LEMMA RingAlone ==
  ASSUME GameNext, ~RingStore
  PROVE  UNCHANGED ringVars
BY DEF GameNext, RingStore, OpenPhase, StoreBody, StoreBegin, StoreEnd, Refuse, WriteBack, Capture,
       WriteBackReport, Seal, mailboxVars

LEMMA StoresKeepRing ==
  ASSUME RingInv, TypeInv', GameNext, UNCHANGED <<kernelVars, runs>>, ~RingStore
  PROVE  RingInv'
<1>1. /\ trace \in Traces /\ line \in Traces /\ cpu \in Cpus /\ published \subseteq Traces
      /\ cpu.seq \in Numbers /\ cpu.seq % 2 = 0 /\ cpu.event \in Nat
      /\ line' \in Traces /\ trace' \in Traces /\ cpu' \in Cpus
      /\ cpu'.seq \in Numbers /\ cpu'.seq % 2 = 0
      /\ trace.event \in Nat /\ line.event \in Nat /\ \A r \in published : r.event \in Nat
      /\ trace'.event \in Nat
  BY MailboxAssumption
     DEF RingInv, TypeInv, RingTypeOK, MailboxTypeOK, GameTypeOK, PollShape, Cpus, Traces
<1>2. Span \in Nat /\ Span > 4 /\ Numbers = 0 .. Span - 1
  BY MailboxAssumption DEF Numbers
<1>3. LinesTrue /\ Storing /\ ControlsTrue
  BY DEF RingInv
<1>4. UNCHANGED <<kernel, emitted, producer, control, consumer, released, entries>>
      /\ Waiting' = Waiting /\ Queue' = Queue /\ Held' = Held /\ (Ahead' <=> Ahead)
  BY RingAlone, QueueSame DEF kernelVars, ringVars, Held, Pending, Ahead
\* The ring's part, for a step that keeps the record on its way.
<1>5. ASSUME LinesTrue', Storing', published \subseteq published', trace.event <= trace'.event,
             Ahead => line' = line,
             cpu'.stage \in {"INVERSE", "SEAL", "DEAD"} \/ control = producer,
             cpu'.stage = "CURSOR" => cpu.stage = "CURSOR" /\ line' = line,
             cpu'.stage \in {"QUEUE", "CURSOR"} =>
               (cpu.stage \in {"QUEUE", "CURSOR"} /\ line' = line)
               \/ \A record \in published : record.event < line'.event
      PROVE  RingInv'
  <2>1. ControlsTrue'
    <3>1. /\ cpu'.stage \notin {"INVERSE", "SEAL", "DEAD"} => control' = producer'
          /\ In("CURSOR")' => LmCriticalControlValid(control')
          /\ ~LmCriticalControlValid(producer') => control' = producer'
          /\ released'.magic /\ (~At("RELEASE")' => LmCriticalControlValid(released'))
      BY <1>3, <1>4, <1>5 DEF ControlsTrue, In, At, LmCriticalControlValid
    <3>2. /\ Ahead' => /\ control'.cursor = (producer'.cursor + 1) % CursorSpan
                       /\ line' \in published' /\ LmPhaseCritical(line')
          /\ Held' <= RingSize
      BY <1>3, <1>4, <1>5 DEF ControlsTrue
    <3>3. In("CURSOR")' \/ Ahead' => Held' < RingSize /\ entries'[Slot(producer'.cursor)] = line'
      BY <1>3, <1>4, <1>5 DEF ControlsTrue, In
    <3>4. \/ released'.cursor = consumer'.cursor
          \/ /\ At("RELEASE")' /\ Held' > 0
             /\ released'.cursor = (consumer'.cursor + 1) % CursorSpan
      BY <1>3, <1>4 DEF ControlsTrue, At
    <3> QED BY <3>1, <3>2, <3>3, <3>4 DEF ControlsTrue
  <2>2. Coming' => (Coming /\ line' = line) \/ \A record \in published : record.event < line'.event
    BY <1>4, <1>5 DEF Coming
  <2>3. RingOrdered' /\ HandledWhole'
    BY <1>1, <1>4, <1>5, <2>2, OrderKept
  <2> QED BY <1>5, <2>1, <2>3 DEF RingInv
<1>6. ASSUME NEW kind \in Kinds, OpenPhase(kind) PROVE RingInv'
  <2>1. /\ cpu' = Begun(kind) /\ cpu'.stage = "BODY" /\ cpu'.event = cpu.event + 1
        /\ line'.begin = cpu'.seq - 1 /\ line'.end = cpu'.seq - 1 /\ line'.event = line.event
        /\ trace' = line' /\ published' = published /\ cpu.stage = "RUN"
    BY <1>1, <1>6 DEF OpenPhase, Begun, Traces, In
  <2>2. cpu'.seq # 0
    BY <1>1, <2>1, SequenceType DEF Begun
  <2>3. ~LmPhaseValid(line')
    <3>1. (cpu'.seq - 1) % 2 # 0
      BY <1>1, <1>2
    <3> QED BY <2>1, <3>1 DEF LmPhaseValid
  <2>4. LinesTrue' /\ trace.event <= trace'.event
    BY <1>1, <1>3, <2>1, <2>3 DEF LinesTrue
  <2>5. Storing'
    BY <1>1, <1>3, <2>1, <2>2 DEF Storing, LinesTrue, In, Putting
  <2>6. control = producer /\ ~Ahead
    BY <1>3, <2>1 DEF ControlsTrue, Ahead
  <2> QED BY <1>5, <2>1, <2>4, <2>5, <2>6
<1>7. CASE StoreBody \/ StoreBegin
  <2>1. /\ cpu'.stage \in {"BEGIN", "END"} /\ cpu'.seq = cpu.seq /\ cpu'.event = cpu.event
        /\ cpu'.kind = cpu.kind
        /\ cpu.stage \in {"BODY", "BEGIN"} /\ UNCHANGED <<trace, published>>
    BY <1>1, <1>7 DEF StoreBody, StoreBegin, To, In, mailboxVars, Cpus
  <2>2. /\ line'.end = line.end
        /\ line'.event \in {line.event, cpu.event}
    BY <1>1, <1>7 DEF StoreBody, StoreBegin, Traces
  <2>3. Storing'
    BY <1>1, <1>3, <1>7, <2>1, <2>2
       DEF Storing, StoreBody, StoreBegin, To, In, Traces, Cpus, Putting
  <2>4. ~LmPhaseValid(line')
    <3>1. line'.end = cpu.seq - 1 /\ (cpu.seq - 1) % 2 # 0
      BY <1>1, <1>2, <1>3, <2>1, <2>2 DEF Storing
    <3> QED BY <3>1 DEF LmPhaseValid
  <2>5. LinesTrue' /\ trace.event <= trace'.event
    BY <1>1, <1>3, <2>1, <2>2, <2>4 DEF LinesTrue
  <2>6. control = producer /\ ~Ahead
    BY <1>3, <2>1 DEF ControlsTrue, Ahead
  <2> QED BY <1>5, <2>1, <2>3, <2>5, <2>6
<1>8. CASE StoreEnd
  <2>1. /\ In("END") /\ line' = [line EXCEPT !.end = cpu.seq] /\ trace' = line'
        /\ published' = published \cup {line'} /\ cpu'.event = cpu.event /\ cpu'.seq = cpu.seq
        /\ cpu'.stage = (IF LmPhaseCritical(line') THEN "QUEUE" ELSE "RUN")
    BY <1>1, <1>8 DEF StoreEnd, To, Cpus
  <2>2. /\ line'.begin = cpu.seq /\ line'.end = cpu.seq /\ cpu.seq # 0
        /\ line'.event = cpu.event /\ \A r \in published : r.event < cpu.event
    BY <1>1, <1>3, <2>1 DEF Storing, In, Traces
  <2>3. LmPhaseValid(line')
    BY <1>1, <2>2 DEF LmPhaseValid
  <2>4. LinesTrue' /\ trace.event <= trace'.event
    <3>1. \A r \in published' : r \in published \/ r = line'
      BY <2>1
    <3>2. \A r \in published' : LmPhaseValid(r) /\ r.event <= trace'.event
      <4>1. trace'.event = cpu.event /\ line'.event <= trace'.event
        BY <1>1, <2>1, <2>2
      <4>2. \A r \in published : LmPhaseValid(r) /\ r.event <= trace'.event
        BY <1>1, <1>3, <2>2, <4>1 DEF LinesTrue
      <4> QED BY <2>3, <3>1, <4>1, <4>2
    <3>3. \A r, other \in published' : r.event = other.event => r = other
      BY <1>1, <1>3, <2>2, <3>1 DEF LinesTrue
    <3>4. /\ trace'.event <= line'.event /\ line'.event <= cpu'.event
          /\ trace.event <= trace'.event
      BY <1>1, <1>3, <2>1, <2>2 DEF LinesTrue
    <3> QED BY <2>1, <3>2, <3>3, <3>4 DEF LinesTrue
  <2>5. Storing'
    BY <2>1 DEF Storing, In, Putting
  <2>6. control = producer /\ ~Ahead
    BY <1>3, <2>1 DEF ControlsTrue, Ahead, In
  <2> QED BY <1>5, <2>1, <2>2, <2>4, <2>5, <2>6
<1>9. CASE WriteBack
  <2>1. trace' = line /\ UNCHANGED <<line, cpu, published>>
    BY <1>9 DEF WriteBack, gameVars
  <2>2. LinesTrue' /\ trace.event <= trace'.event
    BY <1>1, <1>3, <2>1 DEF LinesTrue
  <2>3. Storing'
    BY <1>3, <2>1 DEF Storing, In, Putting
  <2>4. cpu'.stage \in {"INVERSE", "SEAL", "DEAD"} \/ control = producer
    BY <1>3, <2>1 DEF ControlsTrue
  <2> QED BY <1>5, <2>1, <2>2, <2>3, <2>4
<1>10. CASE Refuse \/ Capture \/ WriteBackReport \/ Seal
  <2>1. /\ UNCHANGED <<trace, line, published>>
        /\ \/ cpu'.stage = "RUN" /\ cpu.stage = "QUEUE"
           \/ cpu'.stage \in {"SEAL", "DEAD"}
        /\ cpu'.event \in {cpu.event, cpu.event + 1}
    BY <1>1, <1>10 DEF Refuse, Capture, WriteBackReport, Seal, To, In, Cpus, mailboxVars
  <2>2. LinesTrue' /\ trace.event <= trace'.event
    BY <1>1, <1>3, <2>1 DEF LinesTrue
  <2>3. Storing'
    BY <2>1 DEF Storing, In, Putting
  <2>4. cpu'.stage \in {"INVERSE", "SEAL", "DEAD"} \/ control = producer
    BY <1>3, <2>1 DEF ControlsTrue
  <2> QED BY <1>5, <2>1, <2>2, <2>3, <2>4
<1> QED BY <1>6, <1>7, <1>8, <1>9, <1>10 DEF GameNext, RingStore

LEMMA PutsKeepRing ==
  ASSUME RingInv, TypeInv', GameNext, UNCHANGED <<kernelVars, runs>>, RingStore
  PROVE  RingInv'
<1>1. /\ producer \in Controls /\ control \in Controls /\ cpu \in Cpus /\ TypeInv
      /\ RingSize \in Nat \ {0} /\ CursorSpan \in Nat /\ CursorSpan > RingSize
      /\ published \subseteq Traces /\ line.event \in Int /\ trace.event \in Int
  <2>1. /\ producer \in Controls /\ control \in Controls /\ cpu \in Cpus /\ TypeInv
        /\ published \subseteq Traces /\ line \in Traces /\ trace \in Traces
    BY DEF RingInv, TypeInv, RingTypeOK, MailboxTypeOK, GameTypeOK
  <2> QED BY <2>1, MailboxAssumption DEF Traces
<1>2. /\ Waiting \in Nat /\ Held \in Nat /\ Waiting <= Held /\ producer.cursor \in Cursors
      /\ \A i \in 1 .. Waiting : Queue[i] \in Traces
  BY <1>1, QueueShape, WaitingHeld DEF RingInv, Controls
<1>3. UNCHANGED <<trace, line, published, consumer, released, kernel, emitted>>
  BY DEF RingStore, CountDropped, PutEntry, PutCursor, PutInverse, WriteBackControl, kernelVars,
         gameVars
<1>4. /\ cpu'.event = cpu.event /\ cpu'.seq = cpu.seq
      /\ cpu' = cpu \/ (Putting /\ cpu'.stage \in {"CURSOR", "INVERSE", "RUN"})
  BY <1>1
     DEF RingStore, CountDropped, PutEntry, PutCursor, PutInverse, WriteBackControl, To, In, Cpus,
         gameVars, Putting
<1>5. LinesTrue' /\ Storing'
  BY <1>3, <1>4 DEF RingInv, LinesTrue, Storing, In, Putting
<1>6. LinesTrue /\ Storing /\ ControlsTrue /\ RingOrdered /\ HandledWhole
  BY DEF RingInv
<1>7. CASE CountDropped
  <2>1. /\ In("QUEUE") /\ cpu'.stage = "INVERSE" /\ control = producer
        /\ UNCHANGED <<producer, entries>> /\ control' = Counted(control)
        /\ LmCriticalControlValid(control)
    BY <1>1, <1>6, <1>7 DEF CountDropped, To, In, Cpus, ControlsTrue, Refused
  <2>2. ~Ahead' /\ Held' = Held /\ Waiting' = Waiting /\ Queue' = Queue
    BY <1>1, <1>3, <2>1, ControlStores, QueueSame DEF Ahead, Held, Pending
  <2>3. ControlsTrue'
    BY <1>3, <1>6, <2>1, <2>2 DEF ControlsTrue, In, At, LmCriticalControlValid
  <2>4. ~Coming'
    BY <2>1, <2>2 DEF Coming
  <2>5. RingOrdered' /\ HandledWhole'
    BY <1>1, <1>3, <2>2, <2>4, OrderKept
  <2> QED BY <1>5, <2>3, <2>5 DEF RingInv
<1>8. CASE PutEntry
  <2>1. /\ Waiting' = Waiting /\ Queue' = Queue /\ Held < RingSize /\ Held' = Held
        /\ control = producer /\ LmCriticalControlValid(control)
        /\ entries'[Slot(producer.cursor)] = line
        /\ UNCHANGED <<producer, control>> /\ cpu'.stage = "CURSOR" /\ In("QUEUE")
    BY <1>1, <1>8, QueueUntouched DEF PutEntry, To, Cpus
  <2>2. ControlsTrue'
    BY <1>2, <1>3, <1>6, <2>1 DEF ControlsTrue, In, At, Ahead
  <2>3. Coming
    BY <2>1 DEF Coming, In
  <2>4. RingOrdered' /\ HandledWhole'
    BY <1>1, <1>3, <2>1, <2>3, OrderKept
  <2> QED BY <1>5, <2>2, <2>4 DEF RingInv
<1>9. CASE PutCursor
  <2>1. /\ In("CURSOR") /\ cpu'.stage = "INVERSE" /\ control = producer
        /\ UNCHANGED <<producer, entries>> /\ control' = Advanced(control)
        /\ LmCriticalControlValid(control)
    BY <1>1, <1>6, <1>9 DEF PutCursor, To, In, Cpus, ControlsTrue
  <2>2. /\ control'.cursor = (producer.cursor + 1) % CursorSpan
        /\ line \in published /\ LmPhaseCritical(line)
    BY <1>1, <1>6, <2>1, ControlStores DEF TypeInv, PollShape, Storing, Putting, In
  <2>3. Held < RingSize /\ entries[Slot(producer.cursor)] = line
    BY <1>6, <2>1 DEF ControlsTrue
  <2>4. Held' = Held /\ Waiting' = Waiting /\ Queue' = Queue
    BY <1>3, <2>1, QueueSame DEF Held, Pending
  <2>5. ControlsTrue'
    BY <1>3, <1>6, <2>1, <2>2, <2>3, <2>4 DEF ControlsTrue, In, At
  <2>6. Coming
    BY <2>1 DEF Coming, In
  <2>7. RingOrdered' /\ HandledWhole'
    BY <1>1, <1>3, <2>4, <2>6, OrderKept
  <2> QED BY <1>5, <2>5, <2>7 DEF RingInv
<1>10. CASE PutInverse \/ WriteBackControl
  <2>1. /\ control' = producer' /\ UNCHANGED entries
        /\ producer'.cursor = control.cursor /\ ~Ahead'
        /\ cpu'.stage = "RUN" \/ UNCHANGED cpu
    BY <1>1, <1>10, ControlStores
       DEF PutInverse, WriteBackControl, To, Cpus, Ahead, gameVars
  <2>2. cpu'.stage # "CURSOR"
    <3>1. CASE PutInverse
      BY <1>1, <3>1 DEF PutInverse, To, Cpus
    <3>2. CASE WriteBackControl
      BY <1>6, <3>2 DEF WriteBackControl, ControlsTrue, gameVars
    <3> QED BY <1>10, <3>1, <3>2
  <2>3. CASE Ahead
    <3>1. /\ Waiting < RingSize /\ Waiting' = Waiting + 1
          /\ Held < RingSize /\ Held' = Held + 1
          /\ Queue'[Waiting + 1] = line
          /\ \A i \in 1 .. Waiting : Queue'[i] = Queue[i]
      BY <1>10, <2>3, QueueAppend
    <3>2. ControlsTrue'
      BY <1>1, <1>2, <1>3, <1>6, <2>1, <2>2, <3>1 DEF ControlsTrue, In, At
    <3>3. \A i \in 1 .. Waiting + 1 : i \in 1 .. Waiting \/ i = Waiting + 1
      BY <1>2
    <3>4. /\ line \in published /\ LmPhaseCritical(line)
          /\ \A i \in 1 .. Waiting : Queue[i].event < line.event
      BY <1>6, <2>3 DEF ControlsTrue, RingOrdered, Coming
    <3>5. (Handling' <=> Handling) /\ Waiting' > 0
      BY <1>2, <1>3, <3>1 DEF Handling, At
    <3>6. \A i \in 1 .. Waiting' : Queue'[i] \in published /\ LmPhaseCritical(Queue'[i])
      BY <1>6, <3>1, <3>3, <3>4 DEF RingOrdered
    <3>7. \A i, j \in 1 .. Waiting' : i < j => Queue'[i].event < Queue'[j].event
      <4> SUFFICES ASSUME NEW i \in 1 .. Waiting', NEW j \in 1 .. Waiting', i < j
                   PROVE  Queue'[i].event < Queue'[j].event
        OBVIOUS
      <4>1. i \in 1 .. Waiting
        BY <1>2, <3>1
      <4>2. j \in 1 .. Waiting \/ j = Waiting + 1
        BY <3>1, <3>3
      <4> QED BY <1>6, <3>1, <3>4, <4>1, <4>2 DEF RingOrdered
    <3>8. cpu'.stage # "QUEUE"
      <4>1. cpu.stage # "QUEUE"
        BY <1>6, <2>3 DEF ControlsTrue, Ahead
      <4> QED BY <2>1, <4>1
    <3>9. RingOrdered'
      BY <1>3, <2>1, <2>2, <3>5, <3>6, <3>7, <3>8 DEF RingOrdered, Coming
    <3>10. HandledWhole'
      BY <1>3, <1>6 DEF HandledWhole, At, TraceValid
    <3> QED BY <1>5, <3>2, <3>9, <3>10 DEF RingInv
  <2>4. CASE ~Ahead
    <3>1. producer'.cursor = producer.cursor
      BY <2>1, <2>4 DEF Ahead
    <3>2. Held' = Held /\ Waiting' = Waiting /\ Queue' = Queue
      BY <1>3, <2>1, <3>1, QueueSame DEF Held, Pending
    <3>3. ControlsTrue'
      BY <1>3, <1>6, <2>1, <2>2, <3>2 DEF ControlsTrue, In, At
    <3>4. Coming' => Coming
      BY <2>1 DEF Coming
    <3>5. RingOrdered' /\ HandledWhole'
      BY <1>1, <1>3, <3>2, <3>4, OrderKept
    <3> QED BY <1>5, <3>3, <3>5 DEF RingInv
  <2> QED BY <2>3, <2>4
<1> QED BY <1>7, <1>8, <1>9, <1>10 DEF RingStore

-----------------------------------------------------------------------------
(* Steps of the kernel keep the invariant.                                 *)

\* What handling a record does to the history and to the poll.
LEMMA Emission ==
  ASSUME NEW record \in Traces, NEW back \in {"ACK", "CHECK"}, EmitPhaseTrace(record, back),
         emitted \in Seq(Traces), kernel \in Kernels
  PROVE  /\ kernel'.stage \in {"CREATE", "ANCHOR", "EXTEND", back}
         /\ kernel'.stage \in {"CREATE", "ANCHOR", "EXTEND"} => kernel'.back = back
         /\ Len(emitted) \in Nat /\ DOMAIN emitted = 1 .. Len(emitted)
         /\ Stale(record) => UNCHANGED emitted /\ kernel'.lastPhase = kernel.lastPhase
                             /\ kernel'.lastCritical = kernel.lastCritical
                             /\ kernel'.stage = back
         /\ ~Stale(record) =>
              /\ DOMAIN emitted' = 1 .. Len(emitted) + 1 /\ Len(emitted') = Len(emitted) + 1
              /\ emitted' # <<>> /\ emitted'[Len(emitted) + 1] = record
              /\ \A i \in DOMAIN emitted : i \in DOMAIN emitted' /\ emitted'[i] = emitted[i]
              /\ \A i \in DOMAIN emitted' : i \in DOMAIN emitted \/ i = Len(emitted) + 1
              /\ emitted' # emitted
              /\ kernel'.lastPhase = record.begin
              /\ kernel'.lastCritical =
                   IF LmPhaseCritical(record) THEN record.begin ELSE kernel.lastCritical
<1>1. Len(emitted) \in Nat /\ DOMAIN emitted = 1 .. Len(emitted)
  OBVIOUS
<1>2. CASE Stale(record)
  BY <1>1, <1>2 DEF EmitPhaseTrace, Goto, Kernels
<1>3. CASE ~Stale(record)
  <2>1. emitted' = Append(emitted, record)
    BY <1>3 DEF EmitPhaseTrace
  <2>2. /\ Len(emitted') = Len(emitted) + 1 /\ DOMAIN emitted' = 1 .. Len(emitted) + 1
        /\ emitted'[Len(emitted) + 1] = record
        /\ \A i \in DOMAIN emitted : i \in DOMAIN emitted' /\ emitted'[i] = emitted[i]
        /\ emitted' # <<>>
    BY <1>1, <2>1
  <2>3. \A i \in DOMAIN emitted' : i \in DOMAIN emitted \/ i = Len(emitted) + 1
    BY <1>1, <2>2
  <2>4. /\ kernel'.stage \in {"CREATE", "ANCHOR", "EXTEND", back} /\ kernel'.back = back
        /\ kernel'.lastPhase = record.begin
        /\ kernel'.lastCritical =
             IF LmPhaseCritical(record) THEN record.begin ELSE kernel.lastCritical
    BY <1>3 DEF EmitPhaseTrace, Kernels
  <2>5. emitted' # emitted
    BY <1>1, <2>2
  <2> QED BY <1>1, <1>3, <2>2, <2>3, <2>4, <2>5
<1> QED BY <1>2, <1>3

\* Whether the poll has the head of the ring in hand, after each of its steps.
LEMMA HandlingSteps ==
  ASSUME TypeInv, Kernel
  PROVE  /\ Acknowledge => Handling /\ ~Handling' /\ ~At("RELEASE")
         /\ Release => ~Handling /\ ~Handling' /\ ~At("RELEASE")'
         /\ WriteBackConsumer => UNCHANGED <<kernel, emitted>> /\ (Handling' <=> Handling)
         /\ Drain => ~Handling /\ ~At("RELEASE")
         /\ Drain /\ Handling' =>
              /\ CriticalPeek /\ Waiting > 0
              /\ EmitPhaseTrace(entries[Slot(released.cursor)], "ACK")
         /\ ~Acknowledge /\ ~Release /\ ~WriteBackConsumer =>
              /\ ~At("RELEASE") /\ ~At("RELEASE")'
              /\ ~Drain => (Handling' <=> Handling)
              /\ ~Sample => ~At("RECHECK")'
         /\ ~Drain /\ ~Recheck => UNCHANGED emitted /\ kernel'.lastPhase = kernel.lastPhase
                                  /\ kernel'.lastCritical = kernel.lastCritical
<1>1. /\ kernel \in Kernels /\ KernelNext /\ emitted \in Seq(Traces) /\ Waiting \in Nat
      /\ kernel.stage \in {"CREATE", "ANCHOR", "EXTEND"} => kernel.back \in {"ACK", "CHECK"}
      /\ released.cursor \in Nat /\ entries \in [0 .. RingSize - 1 -> Traces]
  <2>1. released \in Controls /\ kernel \in Kernels /\ emitted \in Seq(Traces)
        /\ entries \in [0 .. RingSize - 1 -> Traces]
    BY DEF TypeInv, RingTypeOK, MailboxTypeOK
  <2>2. kernel.stage \in {"CREATE", "ANCHOR", "EXTEND"} => kernel.back \in {"ACK", "CHECK"}
    BY DEF TypeInv, PollShape
  <2>3. released.cursor \in Nat
    BY <2>1, MailboxAssumption DEF Controls, Cursors
  <2> QED BY <2>1, <2>2, <2>3, KernelFrame, QueueShape
<1>0. /\ KernelNext
      /\ WriteBackConsumer => UNCHANGED <<kernel, emitted>> /\ (Handling' <=> Handling)
  BY KernelFrame DEF WriteBackConsumer, kernelVars, Handling, At
<1>2. CASE Drain
  <2>1. CASE kernel.count < DrainMax /\ CriticalPeek
    <3>1. EmitPhaseTrace(entries[Slot(released.cursor)], "ACK") /\ Waiting > 0 /\ At("DRAIN")
      BY <1>1, <1>2, <2>1, MailboxAssumption DEF Drain, CriticalPeek
    <3>2. entries[Slot(released.cursor)] \in Traces
      <4>1. Slot(released.cursor) \in 0 .. RingSize - 1
        BY <1>1, MailboxAssumption, ModSmall DEF Slot
      <4> QED BY <1>1, <4>1
    <3>3. kernel'.stage \in {"CREATE", "ANCHOR", "EXTEND", "ACK"}
      BY <1>1, <3>1, <3>2, Emission
    <3> QED
      BY <1>1, <1>2, <2>1, <3>1, <3>3
         DEF Drain, Handling, At, Acknowledge, Release, WriteBackConsumer, Recheck, Sample, kernelVars
  <2>2. CASE ~(kernel.count < DrainMax /\ CriticalPeek)
    <3>1. At("DRAIN") /\ kernel' = [kernel EXCEPT !.stage = "SAMPLE"] /\ emitted' = emitted
      BY <1>2, <2>2 DEF Drain, Goto
    <3>2. kernel'.stage = "SAMPLE" /\ ~WriteBackConsumer
      BY <1>1, <3>1 DEF Kernels, WriteBackConsumer, kernelVars, At
    <3> QED
      BY <1>1, <1>2, <3>1, <3>2
         DEF Handling, At, Acknowledge, Release, Recheck, Sample
  <2> QED BY <2>1, <2>2
<1>3. CASE Acknowledge
  BY <1>1, <1>3
     DEF Acknowledge, Goto, Handling, At, Kernels, Release, WriteBackConsumer, kernelVars, Drain
<1>4. CASE Release
  <2>1. At("RELEASE") /\ kernel'.stage = "DRAIN" /\ emitted' = emitted
        /\ kernel'.lastPhase = kernel.lastPhase /\ kernel'.lastCritical = kernel.lastCritical
    BY <1>1, <1>4 DEF Release, Done, Kernels
  <2> QED
    BY <1>4, <2>1 DEF Handling, At, Acknowledge, WriteBackConsumer, kernelVars, Drain
<1>5. CASE WriteBackConsumer
  <2>1. UNCHANGED <<kernel, emitted>>
    BY <1>5 DEF WriteBackConsumer, kernelVars
  <2>2. Drain => ~Handling /\ ~At("RELEASE")
    BY DEF Drain, Handling, At
  <2>3. ~Acknowledge /\ ~Release
    BY <1>1, <2>1 DEF Acknowledge, Release, Goto, Done, At, Kernels
  <2> QED BY <1>5, <2>1, <2>2, <2>3 DEF Handling, At
<1>6. CASE Sample
  BY <1>1, <1>6
     DEF Sample, Handling, At, Kernels, Acknowledge, Release, WriteBackConsumer, kernelVars, Drain
<1>7. CASE Recheck
  <2>1. At("RECHECK") /\ kernel.snapshot \in Traces
    BY <1>1, <1>7 DEF Recheck, Kernels
  <2>2. /\ kernel'.stage \in {"CREATE", "ANCHOR", "EXTEND", "CHECK"}
        /\ kernel'.stage \in {"CREATE", "ANCHOR", "EXTEND"} => kernel'.back = "CHECK"
    <3>1. CASE EmitPhaseTrace(kernel.snapshot, "CHECK")
      BY <1>1, <2>1, <3>1, Emission
    <3>2. CASE Goto("CHECK")
      BY <1>1, <3>2 DEF Goto, Kernels
    <3> QED BY <1>7, <3>1, <3>2 DEF Recheck
  <2> QED
    BY <1>7, <2>1, <2>2
       DEF Handling, At, Acknowledge, Release, WriteBackConsumer, kernelVars, Drain
<1>8. CASE CreateDump \/ AnchorDump \/ ExtendDump
  <2>1. /\ kernel.stage \in {"CREATE", "ANCHOR", "EXTEND"} /\ emitted' = emitted
        /\ \E stage \in {"ANCHOR", kernel.back} : Goto(stage)
    BY <1>8 DEF CreateDump, AnchorDump, ExtendDump, At
  <2>2. /\ kernel'.back = kernel.back /\ kernel'.stage \in {"ANCHOR", "ACK", "CHECK"}
        /\ kernel'.stage \in {"ANCHOR", kernel.back}
        /\ kernel'.lastPhase = kernel.lastPhase /\ kernel'.lastCritical = kernel.lastCritical
    BY <1>1, <2>1 DEF Goto, Kernels
  <2>3. ~Drain /\ ~Acknowledge /\ ~Release /\ ~Recheck
    BY <2>1 DEF Drain, Acknowledge, Release, Recheck, At
  <2>4. (Handling' <=> Handling) /\ ~At("RELEASE") /\ ~At("RELEASE")' /\ ~At("RECHECK")'
    BY <1>1, <2>1, <2>2 DEF Handling, At
  <2> QED BY <1>0, <2>1, <2>2, <2>3, <2>4
<1>9. CASE CheckReport \/ ReadReport \/ OpenReport \/ WriteReport
  <2>1. /\ kernel'.stage \in {"READ", "DRAIN", "OPEN", "WRITE"} /\ emitted' = emitted
        /\ kernel.stage \in {"CHECK", "READ", "OPEN", "WRITE"}
        /\ kernel'.lastPhase = kernel.lastPhase /\ kernel'.lastCritical = kernel.lastCritical
    <3>1. CASE CheckReport
      BY <1>1, <3>1 DEF CheckReport, Done, At, Kernels
    <3>2. CASE ReadReport
      BY <1>1, <3>2 DEF ReadReport, At, Kernels
    <3>3. CASE OpenReport
      BY <1>1, <3>3 DEF OpenReport, Goto, At, Kernels
    <3>4. CASE WriteReport
      BY <1>1, <3>4 DEF WriteReport, At, Kernels
    <3> QED BY <1>9, <3>1, <3>2, <3>3, <3>4
  <2>2. ~Drain /\ ~Acknowledge /\ ~Release
    BY <2>1 DEF Drain, Acknowledge, Release, At
  <2>3. ~Handling /\ ~Handling' /\ ~At("RELEASE") /\ ~At("RELEASE")' /\ ~At("RECHECK")'
    BY <2>1 DEF Handling, At
  <2> QED BY <1>0, <2>1, <2>2, <2>3
<1> QED BY <1>0, <1>2, <1>3, <1>4, <1>5, <1>6, <1>7, <1>8, <1>9, Zenon DEF KernelNext

LEMMA KernelKeepsRing ==
  ASSUME RingInv, TypeInv', Kernel
  PROVE  RingInv'
<1>1. /\ UNCHANGED <<trace, producer, control, entries, line, cpu, published>> /\ KernelNext
      /\ ~Acknowledge /\ ~Release => released' = released
      /\ ~WriteBackConsumer /\ ~Release => consumer' = consumer
  BY KernelFrame
<1>2. /\ TypeInv /\ LinesTrue /\ Storing /\ ControlsTrue /\ RingOrdered /\ HandledWhole
      /\ kernel \in Kernels /\ emitted \in Seq(Traces) /\ published \subseteq Traces
      /\ producer \in Controls /\ released \in Controls /\ consumer \in Controls
  BY DEF RingInv, TypeInv, RingTypeOK, MailboxTypeOK, GameTypeOK
<1>3. /\ Waiting \in Nat /\ Held \in Nat /\ DOMAIN Queue = 1 .. Waiting
      /\ Waiting <= Held /\ (At("RELEASE") \/ Waiting = Held)
  BY <1>2, QueueShape, WaitingHeld
<1>4. LinesTrue' /\ Storing'
  BY <1>1, <1>2 DEF LinesTrue, Storing, In, Putting
\* Steps that release nothing.
<1>5. ASSUME ~Acknowledge, ~Release, ~WriteBackConsumer,
             Handling' => Waiting > 0,
             HandledWhole'
      PROVE  RingInv'
  <2>1. UNCHANGED <<released, consumer>> /\ ~At("RELEASE") /\ ~At("RELEASE")'
    BY <1>1, <1>2, <1>5, HandlingSteps
  <2>2. Waiting' = Waiting /\ Queue' = Queue
    BY <1>1, <2>1, QueueSame
  <2>3. ControlsTrue'
    BY <1>1, <1>2, <2>1 DEF ControlsTrue, In, Ahead, Held
  <2>4. RingOrdered'
    BY <1>1, <1>2, <1>5, <2>2 DEF RingOrdered, Coming, Ahead
  <2> QED BY <1>4, <1>5, <2>3, <2>4 DEF RingInv
<1>6. ASSUME NEW record \in published, NEW back \in {"ACK", "CHECK"}, EmitPhaseTrace(record, back)
      PROVE  HandledWhole'
  <2>1. record \in Traces
    BY <1>2
  <2>2. kernel'.stage # "RECHECK"
    BY <1>2, <1>6, <2>1, Emission
  <2>3. \A i \in DOMAIN emitted' : emitted'[i] \in published
    <3>1. CASE Stale(record)
      BY <1>2, <1>6, <2>1, <3>1, Emission DEF HandledWhole
    <3>2. CASE ~Stale(record)
      BY <1>2, <1>6, <2>1, <3>2, Emission DEF HandledWhole
    <3> QED BY <3>1, <3>2
  <2> QED BY <1>1, <2>2, <2>3 DEF HandledWhole, At
<1>7. CASE Drain /\ ~WriteBackConsumer
  <2>1. ~Acknowledge /\ ~Release /\ ~WriteBackConsumer
    BY <1>7 DEF Acknowledge, Release, Drain, Handling, At
  <2>2. CASE kernel.count < DrainMax /\ CriticalPeek
    <3>1. EmitPhaseTrace(entries[Slot(released.cursor)], "ACK") /\ Waiting > 0
      BY <1>3, <1>7, <2>2, MailboxAssumption DEF Drain, CriticalPeek
    <3>2. entries[Slot(released.cursor)] \in published
      BY <1>2, <3>1, QueueHead DEF RingOrdered
    <3>3. HandledWhole'
      BY <1>6, <3>1, <3>2
    <3> QED BY <1>5, <2>1, <3>1, <3>3
  <2>3. CASE ~(kernel.count < DrainMax /\ CriticalPeek)
    <3>1. kernel'.stage = "SAMPLE" /\ emitted' = emitted
      BY <1>2, <1>7, <2>3 DEF Drain, Goto, Kernels
    <3>2. HandledWhole' /\ ~Handling'
      BY <1>1, <1>2, <3>1 DEF HandledWhole, At, Handling
    <3> QED BY <1>5, <2>1, <3>2
  <2> QED BY <2>2, <2>3
<1>8. CASE Acknowledge
  <2>1. /\ CriticalAcknowledge /\ Handling /\ ~Handling' /\ Waiting > 0 /\ ~At("RELEASE")
        /\ consumer' = consumer /\ emitted' = emitted /\ kernel'.stage = "RELEASE"
    BY <1>2, <1>8, HandlingSteps
       DEF Acknowledge, CriticalAcknowledge, RingOrdered, Goto, Kernels
  <2>2. /\ Waiting' = Waiting - 1 /\ released'.magic = released.magic
        /\ released'.cursor = (released.cursor + 1) % CursorSpan
        /\ \A i \in 1 .. Waiting - 1 : Queue'[i] = Queue[i + 1]
    BY <1>2, <2>1, QueueTail
  <2>3. ControlsTrue'
    <3>1. released.cursor = consumer.cursor /\ Held' = Held /\ Held > 0
      BY <1>1, <1>2, <1>3, <2>1 DEF ControlsTrue, Held
    <3> QED BY <1>1, <1>2, <2>1, <2>2, <3>1 DEF ControlsTrue, In, At, Ahead
  <2>4. \A i \in 1 .. Waiting' : i + 1 \in 1 .. Waiting /\ i \in Int /\ Queue'[i] = Queue[i + 1]
    BY <1>3, <2>1, <2>2
  <2>5. RingOrdered'
    <3>1. \A i \in 1 .. Waiting' : Queue'[i] \in published /\ LmPhaseCritical(Queue'[i])
      BY <1>2, <2>4 DEF RingOrdered
    <3>2. \A i, j \in 1 .. Waiting' : i < j => Queue'[i].event < Queue'[j].event
      <4> SUFFICES ASSUME NEW i \in 1 .. Waiting', NEW j \in 1 .. Waiting', i < j
                   PROVE  Queue'[i].event < Queue'[j].event
        OBVIOUS
      <4>1. i + 1 < j + 1
        BY <2>4
      <4> QED BY <1>2, <2>4, <4>1 DEF RingOrdered
    <3>3. Coming => \A i \in 1 .. Waiting' : Queue'[i].event < line.event
      BY <1>2, <2>4 DEF RingOrdered
    <3>4. Coming' <=> Coming
      BY <1>1 DEF Coming, Ahead
    <3> QED BY <1>1, <2>1, <3>1, <3>2, <3>3, <3>4 DEF RingOrdered
  <2>6. HandledWhole'
    BY <1>1, <1>2, <2>1 DEF HandledWhole, At
  <2> QED BY <1>4, <2>3, <2>5, <2>6 DEF RingInv
\* Memory gets what has been released.
<1>9. CASE Release \/ WriteBackConsumer
  <2>1. /\ consumer' = released' /\ released' \in {released, Inverted(released)}
        /\ emitted' = emitted
        /\ \/ kernel'.stage = "DRAIN" /\ ~Handling /\ ~Handling' /\ released' = Inverted(released)
           \/ UNCHANGED <<kernel, released>> /\ (Handling' <=> Handling)
    BY <1>2, <1>9, HandlingSteps
       DEF Release, CriticalRelease, WriteBackConsumer, kernelVars, Done, Kernels
  <2>2. released'.cursor = released.cursor /\ released'.magic = released.magic
        /\ (released.magic => LmCriticalControlValid(Inverted(released)))
    BY <1>2, <2>1, ControlStores
  <2>3. Waiting' = Waiting /\ Queue' = Queue
    BY <1>1, <2>2, QueueSame
  <2>4. Held' = Waiting
    BY <1>1, <2>1, <2>2 DEF Held, Waiting, Pending
  <2>5. ControlsTrue'
    <3>1. /\ Held' <= RingSize
          /\ In("CURSOR") \/ Ahead => Held' < RingSize
      BY <1>2, <1>3, <2>4, MailboxAssumption DEF ControlsTrue
    <3>2. ~At("RELEASE")' => LmCriticalControlValid(released')
      BY <1>2, <2>1, <2>2 DEF ControlsTrue, At
    <3> QED BY <1>1, <1>2, <2>1, <2>2, <3>1, <3>2 DEF ControlsTrue, In, Ahead
  <2>6. RingOrdered'
    BY <1>1, <1>2, <2>1, <2>3 DEF RingOrdered, Coming, Ahead
  <2>7. HandledWhole'
    BY <1>1, <1>2, <2>1 DEF HandledWhole, At, TraceValid
  <2> QED BY <1>4, <2>5, <2>6, <2>7 DEF RingInv
<1>10. CASE Sample
  <2>1. kernel'.snapshot = trace /\ emitted' = emitted /\ kernel'.stage = "RECHECK" /\ ~Handling'
    BY <1>2, <1>10 DEF Sample, Kernels, Handling, At
  <2>2. \A i \in DOMAIN emitted : emitted[i].event <= trace.event
    BY <1>2 DEF HandledWhole, LinesTrue
  <2>3. HandledWhole'
    <3>1. trace \in Traces
      BY <1>2 DEF TypeInv, RingTypeOK, MailboxTypeOK
    <3>2. trace.event <= trace.event
      BY <3>1, MailboxAssumption DEF Traces
    <3> QED BY <1>1, <1>2, <2>1, <2>2, <3>2 DEF HandledWhole, TraceValid, LinesTrue
  <2>4. ~Acknowledge /\ ~Release /\ ~WriteBackConsumer
    BY <1>10, <2>1 DEF Sample, Acknowledge, Release, WriteBackConsumer, At, kernelVars
  <2> QED BY <1>5, <2>1, <2>3, <2>4
<1>11. CASE Recheck
  <2>1. ~Acknowledge /\ ~Release /\ ~Handling
    BY <1>11 DEF Recheck, Acknowledge, Release, At, Handling
  <2>2. CASE WriteBackConsumer
    BY <1>9, <2>2
  <2>3. CASE ~WriteBackConsumer
    <3>1. ~Handling' /\ ~At("RECHECK")'
      BY <1>2, <1>11, <2>1, <2>3, HandlingSteps DEF Recheck, Drain, Sample, At
    <3>2. CASE TraceValid /\ EmitPhaseTrace(kernel.snapshot, "CHECK")
      <4>1. kernel.snapshot \in published
        BY <1>2, <1>11, <3>2 DEF Recheck, HandledWhole
      <4>2. HandledWhole'
        BY <1>6, <3>2, <4>1
      <4> QED BY <1>5, <2>1, <2>3, <3>1, <4>2
    <3>3. CASE emitted' = emitted
      <4>1. HandledWhole'
        BY <1>1, <1>2, <3>1, <3>3 DEF HandledWhole
      <4> QED BY <1>5, <2>1, <2>3, <3>1, <4>1
    <3> QED BY <1>11, <3>2, <3>3 DEF Recheck
  <2> QED BY <2>2, <2>3
<1>12. CASE ~Drain /\ ~Acknowledge /\ ~Release /\ ~WriteBackConsumer /\ ~Sample /\ ~Recheck
  <2>1. (Handling' <=> Handling) /\ emitted' = emitted /\ ~At("RECHECK")'
    BY <1>2, <1>12, HandlingSteps
  <2>2. HandledWhole' /\ (Handling' => Waiting > 0)
    BY <1>1, <1>2, <2>1 DEF HandledWhole, RingOrdered
  <2> QED BY <1>5, <1>12, <2>2
<1> QED BY <1>7, <1>8, <1>9, <1>10, <1>11, <1>12

-----------------------------------------------------------------------------
(* Resets and power cuts keep the invariant.                               *)

\* Nothing is in the ring of a console that was just switched on.
LEMMA FreshRing == Pending(ControlInit(FALSE), ControlInit(TRUE)) = 0
<1>1. (0 - 0) % CursorSpan = 0
  BY MailboxAssumption, ModSmall
<1> QED BY <1>1 DEF Pending, ControlInit

LEMMA FreshKeepsRing ==
  ASSUME RingInv, TypeInv', Start \/ Reset \/ Restart
  PROVE  RingInv'
<1>1. /\ trace \in Traces /\ line \in Traces /\ cpu \in Cpus /\ published \subseteq Traces
      /\ trace.event \in Nat /\ line.event \in Nat /\ cpu.event \in Nat /\ TypeInv
  <2>1. /\ trace \in Traces /\ line \in Traces /\ cpu \in Cpus /\ published \subseteq Traces
        /\ TypeInv
    BY DEF RingInv, TypeInv, RingTypeOK, MailboxTypeOK, GameTypeOK
  <2> QED BY <2>1, MailboxAssumption DEF Cpus, Traces
<1>2. CASE CrashInit /\ (Start \/ Reset)
  <2>1. /\ UNCHANGED <<trace, consumer, released, entries, published, kernel, emitted>>
        /\ line' = trace
        /\ cpu'.stage = "RUN" /\ cpu'.event = cpu.event /\ cpu' \in Cpus
    BY <1>1, <1>2 DEF CrashInit, Start, Reset, kernelVars, TypeInv, RingTypeOK, GameTypeOK, Cpus
  <2>2. control' = producer' /\ producer'.cursor = producer.cursor /\ ~Ahead'
    BY <1>1, <1>2, Attached DEF Ahead
  <2>3. Waiting' = Waiting /\ Queue' = Queue /\ Held' = Held
    BY <2>1, <2>2, QueueSame DEF Held, Pending
  <2>4. LinesTrue' /\ Storing'
    BY <1>1, <2>1 DEF RingInv, LinesTrue, Storing, In, Putting
  <2>5. ControlsTrue'
    BY <2>1, <2>2, <2>3 DEF RingInv, ControlsTrue, In, At
  <2>6. ~Coming' /\ trace.event <= trace'.event
    BY <1>1, <2>1, <2>2 DEF Coming
  <2>7. RingOrdered' /\ HandledWhole'
    BY <1>1, <2>1, <2>3, <2>6, OrderKept
  <2> QED BY <2>4, <2>5, <2>7 DEF RingInv
<1>3. CASE Restart
  <2>1. /\ producer' = ControlInit(FALSE) /\ control' = producer'
        /\ consumer' = ControlInit(TRUE) /\ released' = consumer'
        /\ emitted' = <<>> /\ published' = {} /\ trace' = NoTrace /\ line' = NoTrace
        /\ cpu' = NoCpu(cpu.event) /\ kernel' = FreshKernel
    BY <1>3 DEF Restart
  <2>2. Waiting' = 0 /\ Held' = 0 /\ ~Ahead' /\ \A i : i \notin 1 .. Waiting'
    <3>1. Waiting' = 0 /\ Held' = 0 /\ ~Ahead'
      BY <2>1, FreshRing DEF Waiting, Held, Ahead, Pending
    <3> QED BY <3>1
  <2>3. LinesTrue' /\ Storing'
    BY <1>1, <2>1, TraceTypes DEF LinesTrue, Storing, In, NoCpu, NoTrace, Putting
  <2>4. ControlsTrue'
    BY <2>1, <2>2, MailboxAssumption
       DEF ControlsTrue, ControlInit, LmCriticalControlValid, In, NoCpu
  <2>5. ~Handling' /\ ~Coming' /\ ~At("RECHECK")'
    BY <2>1, <2>2 DEF Handling, Coming, At, FreshKernel, NoCpu
  <2>6. RingOrdered' /\ HandledWhole'
    BY <2>1, <2>2, <2>5 DEF RingOrdered, HandledWhole
  <2> QED BY <2>3, <2>4, <2>6 DEF RingInv
<1> QED BY <1>2, <1>3 DEF Start, Reset

LEMMA RingStart ==
  ASSUME Init
  PROVE  RingInv /\ Waiting = 0
<1>1. TypeInv
  BY InitTypes
<1>2. /\ producer = ControlInit(FALSE) /\ control = producer
      /\ consumer = ControlInit(TRUE) /\ released = consumer
      /\ emitted = <<>> /\ published = {} /\ trace = NoTrace /\ line = NoTrace
      /\ cpu = NoCpu(0) /\ kernel = FreshKernel
  BY DEF Init
<1>3. Waiting = 0 /\ Held = 0 /\ ~Ahead /\ \A i : i \notin 1 .. Waiting
  <2>1. Waiting = 0 /\ Held = 0 /\ ~Ahead
    BY <1>2, FreshRing DEF Waiting, Held, Ahead, Pending
  <2> QED BY <2>1
<1>4. LinesTrue /\ Storing
  BY <1>2, TraceTypes DEF LinesTrue, Storing, In, NoCpu, NoTrace, Putting
<1>5. ControlsTrue
  BY <1>2, <1>3, MailboxAssumption
     DEF ControlsTrue, ControlInit, LmCriticalControlValid, In, NoCpu
<1>6. ~Handling /\ ~Coming /\ ~At("RECHECK")
  BY <1>2, <1>3 DEF Handling, Coming, At, FreshKernel, NoCpu
<1>7. RingOrdered /\ HandledWhole
  BY <1>2, <1>3, <1>6 DEF RingOrdered, HandledWhole
<1> QED BY <1>1, <1>3, <1>4, <1>5, <1>7 DEF RingInv

LEMMA RingStep ==
  ASSUME RingInv, [Next]_vars
  PROVE  RingInv'
<1>1. TypeInv'
  BY TypeStep DEF RingInv
<1>2. CASE UNCHANGED vars
  <2>1. UNCHANGED <<trace, line, cpu, published, kernel, emitted, producer, control, consumer,
                    released, entries>>
    BY <1>2 DEF vars, mailboxVars, ringVars, gameVars, kernelVars
  <2>2. Waiting' = Waiting /\ Queue' = Queue /\ Held' = Held
    BY <2>1, QueueSame DEF Held, Pending
  <2>3. LinesTrue' /\ Storing' /\ ControlsTrue'
    BY <2>1, <2>2 DEF RingInv, LinesTrue, Storing, ControlsTrue, In, At, Ahead, Putting
  <2>4. RingOrdered' /\ HandledWhole'
    BY <2>1, <2>2
       DEF RingInv, RingOrdered, HandledWhole, Coming, Ahead, Handling, At, TraceValid
  <2> QED BY <1>1, <2>3, <2>4 DEF RingInv
<1>3. CASE Game
  BY <1>1, <1>3, StoresKeepRing, PutsKeepRing DEF Game
<1> QED BY <1>1, <1>2, <1>3, KernelKeepsRing, FreshKeepsRing DEF Next

THEOREM RingHolds == Spec => []RingInv
BY RingStart, RingStep, PTL DEF Spec

-----------------------------------------------------------------------------
(* What follows.                                                           *)

\* Every record the poll handles, from the ring or from a sample, is one that
\* the game completed: the odd numbers and their order make every other state
\* of the line invalid, whichever lines the cache writes back, and when.
THEOREM RecordsAreWhole == Spec => []RecordsWhole
<1>1. RingInv => RecordsWhole
  BY DEF RingInv, HandledWhole, RecordsWhole
<1> QED BY <1>1, RingHolds, PTL

\* What a step does to the queue.
LEMMA QueueType == TypeInv => Queue \in Seq(Traces) /\ Len(Queue) = Waiting
<1> SUFFICES ASSUME TypeInv PROVE Queue \in Seq(Traces) /\ Len(Queue) = Waiting
  OBVIOUS
<1>1. /\ Waiting \in Nat /\ \A i \in 1 .. Waiting : Queue[i] \in Traces
      /\ Queue = [i \in 1 .. Waiting |-> Queue[i]]
  BY QueueShape DEF Queue
<1> HIDE DEF Queue
<1>2. Queue \in [1 .. Waiting -> Traces]
  BY <1>1
<1> QED BY <1>1, <1>2

\* The steps that leave the queue as it is.
LEMMA QueueRests ==
  ASSUME RingInv, [Next]_vars, ~Acknowledge, ~Restart,
         ~(Ahead /\ (PutInverse \/ WriteBackControl))
  PROVE  Waiting' = Waiting /\ Queue' = Queue
<1>1. /\ producer \in Controls /\ control \in Controls /\ released \in Controls /\ TypeInv
  BY DEF RingInv, TypeInv, RingTypeOK, MailboxTypeOK
<1>2. CASE GameNext
  <2>1. CASE ~RingStore
    BY <1>2, <2>1, RingAlone, QueueSame DEF ringVars
  <2>2. CASE PutEntry
    BY <2>2, QueueUntouched
  <2>3. CASE CountDropped \/ PutCursor
    BY <2>3, QueueSame DEF CountDropped, PutCursor
  <2>4. CASE (PutInverse \/ WriteBackControl) /\ ~Ahead
    <3>1. /\ producer'.cursor = control.cursor /\ UNCHANGED <<released, entries>>
      BY <1>1, <2>4, ControlStores DEF PutInverse, WriteBackControl
    <3> QED BY <2>4, <3>1, QueueSame DEF Ahead
  <2> QED BY <2>1, <2>2, <2>3, <2>4 DEF RingStore
<1>3. CASE Kernel
  <2>1. UNCHANGED <<producer, entries>> /\ (~Release => released' = released)
    BY <1>3, KernelFrame
  <2>2. Release => released'.cursor = released.cursor
    BY <1>1, ControlStores DEF Release, CriticalRelease
  <2> QED BY <2>1, <2>2, QueueSame
<1>4. CASE Start \/ Reset
  <2>1. producer'.cursor = producer.cursor /\ UNCHANGED <<released, entries>>
    BY <1>1, <1>4, Attached DEF Start, Reset, CrashInit
  <2> QED BY <2>1, QueueSame
<1>5. CASE UNCHANGED vars
  BY <1>5, QueueSame DEF vars, mailboxVars, ringVars
<1> QED BY <1>2, <1>3, <1>4, <1>5 DEF Next, Game

LEMMA QueueSteps ==
  ASSUME RingInv, RingInv', [Next]_vars
  PROVE  [Ring!Put \/ Ring!Get \/ Ring!Restart]_<<Queue, runs>>
<1>1. /\ Queue \in Seq(Traces) /\ Queue' \in Seq(Traces)
      /\ Len(Queue) = Waiting /\ Len(Queue') = Waiting'
      /\ Waiting \in Nat /\ TypeInv
  <2>1. TypeInv /\ TypeInv'
    BY DEF RingInv
  <2>2. TypeInv' => (Queue \in Seq(Traces) /\ Len(Queue) = Waiting)'
    BY QueueType, PTL
  <2> QED BY <2>1, <2>2, QueueType, QueueShape
<1>2. CASE Ahead /\ (PutInverse \/ WriteBackControl) /\ runs' = runs
  <2>1. /\ Waiting < RingSize /\ Waiting' = Waiting + 1
        /\ \A i \in 1 .. Waiting : Queue'[i] = Queue[i]
    BY <1>2, QueueAppend
  <2>2. Queue' # <<>> /\ Queue'[Len(Queue')] \in Traces
    BY <1>1, <2>1
  <2>3. SubSeq(Queue', 1, Len(Queue') - 1) = Queue
    <3>1. Len(Queue') - 1 = Len(Queue) /\ Len(Queue) <= Len(Queue')
      BY <1>1, <2>1
    <3>2. SubSeq(Queue', 1, Len(Queue)) = [i \in 1 .. Len(Queue) |-> Queue'[i]]
      BY <1>1, <3>1
    <3>3. Queue = [i \in 1 .. Len(Queue) |-> Queue[i]]
      BY <1>1
    <3> QED BY <1>1, <2>1, <3>1, <3>2, <3>3
  <2> QED BY <1>1, <1>2, <2>1, <2>2, <2>3 DEF Ring!Put
<1>3. CASE Acknowledge /\ runs' = runs
  <2>1. Waiting > 0
    BY <1>3 DEF Acknowledge, Handling, RingInv, RingOrdered
  <2>2. /\ Waiting' = Waiting - 1
        /\ \A i \in 1 .. Waiting - 1 : Queue'[i] = Queue[i + 1]
    BY <1>3, <2>1, QueueTail DEF Acknowledge, RingInv
  <2>3. Queue # <<>> /\ Queue' = Tail(Queue)
    <3>1. Queue # <<>>
      BY <1>1, <2>1
    <3>2. /\ Tail(Queue) \in Seq(Traces) /\ Len(Tail(Queue)) = Len(Queue) - 1
          /\ \A i \in 1 .. Len(Tail(Queue)) : Tail(Queue)[i] = Queue[i + 1]
      BY <1>1, <3>1, HeadTailProperties
    <3> QED BY <1>1, <2>2, <3>1, <3>2, SeqEqual
  <2> QED BY <1>3, <2>3 DEF Ring!Get
<1>4. CASE Reset \/ Restart
  <2>1. runs' = runs + 1 /\ runs \in Nat
    <3>1. runs' = runs + 1 /\ runs \in 0 .. MaxRuns
      BY <1>4 DEF Reset, Restart, RingInv, TypeInv, RingTypeOK
    <3> QED BY <3>1, SystemAssumption
  <2>2. CASE Reset
    <3>1. producer'.cursor = producer.cursor /\ UNCHANGED <<released, entries>>
      BY <1>1, <2>2, Attached DEF Reset, CrashInit
    <3>2. Queue' = Queue
      BY <3>1, QueueSame
    <3> QED BY <2>1, <3>2 DEF Ring!Restart
  <2>3. CASE Restart
    <3>1. Waiting' = 0
      BY <2>3, FreshRing DEF Restart, Waiting, Pending
    <3>2. Queue' = <<>>
      BY <1>1, <3>1
    <3> QED BY <2>1, <3>2 DEF Ring!Restart
  <2> QED BY <1>4, <2>2, <2>3
\* Whatever else happens leaves the queue alone.
<1>5. CASE ~Acknowledge /\ ~Restart /\ ~(Ahead /\ (PutInverse \/ WriteBackControl))
           /\ runs' = runs
  BY <1>5, QueueRests
<1>6. runs' = runs \/ Reset \/ Restart
  BY DEF Next, Game, Kernel, Start, vars
<1> QED BY <1>2, <1>3, <1>4, <1>5, <1>6

\* The ring in memory, with its cursors that wrap and two processors that never
\* wait for each other, is a bounded queue: a record is visible only once its
\* entry is stored, and a place is free only once its record has been handled;
\* a control line that memory gets between two stores changes nothing of that.
THEOREM RingImplementsQueue == Spec => RingIsQueue
<1>1. Init => Ring!QueueInit
  <2> SUFFICES ASSUME Init PROVE Ring!QueueInit
    OBVIOUS
  <2>1. RingInv /\ Waiting = 0
    BY RingStart
  <2>2. Queue \in Seq(Traces) /\ Len(Queue) = 0
    BY <2>1, QueueType DEF RingInv
  <2> QED BY <2>2 DEF Ring!QueueInit
<1>2. RingInv /\ RingInv' /\ [Next]_vars => [Ring!Put \/ Ring!Get \/ Ring!Restart]_<<Queue, runs>>
  BY QueueSteps
<1>3. Ring!vars = <<Queue, runs>>
  BY DEF Ring!vars
<1> QED BY <1>1, <1>2, <1>3, RingHolds, PTL DEF Spec, RingIsQueue, Ring!QueueSpec, Ring!vars

-----------------------------------------------------------------------------
(* The order in which records are handled, while the numbers have not come *)
(* half way round the span.                                                *)

LEMMA NextSequenceStep ==
  ASSUME NEW seq \in Numbers, seq % 2 = 0
  PROVE  NextSequence(seq) <= seq + 2
<1>1. Span \in Nat /\ Span > 4 /\ Numbers = 0 .. Span - 1
  BY MailboxAssumption DEF Numbers
<1>2. (seq + 2) % Span \in 0 .. Span - 1
  <2>1. seq + 2 \in Nat /\ Span \in Nat \ {0}
    BY <1>1
  <2> QED BY <2>1, ModSmall
<1> QED BY <1>1, <1>2 DEF NextSequence

LEMMA NumbersStep ==
  ASSUME RingInv, NumbersFew, [Next]_vars
  PROVE  NumbersFew'
<1>1. /\ trace \in Traces /\ line \in Traces /\ cpu \in Cpus /\ published \subseteq Traces
      /\ cpu.seq \in Nat /\ cpu.seq \in Numbers /\ cpu.seq % 2 = 0 /\ cpu.event \in Nat
      /\ trace.event <= cpu.event /\ trace.event \in Nat
  <2>1. /\ trace \in Traces /\ line \in Traces /\ cpu \in Cpus /\ published \subseteq Traces
        /\ cpu.seq % 2 = 0 /\ trace.event <= line.event /\ line.event <= cpu.event
    BY DEF RingInv, TypeInv, RingTypeOK, MailboxTypeOK, GameTypeOK, PollShape, LinesTrue
  <2> QED BY <2>1, MailboxAssumption DEF Cpus, Traces, Numbers
<1>2. ASSUME NEW kind \in Kinds, OpenPhase(kind) PROVE NumbersFew'
  <2>1. cpu'.seq = NextSequence(cpu.seq) /\ cpu'.event = cpu.event + 1 /\ published' = published
    BY <1>2 DEF OpenPhase, Begun
  <2>2. cpu'.seq <= cpu.seq + 2 /\ cpu'.seq \in Numbers /\ cpu'.seq \in Int
    <3>1. NextSequence(cpu.seq) <= cpu.seq + 2
      BY <1>1, NextSequenceStep
    <3>2. NextSequence(cpu.seq) \in Numbers
      BY <1>1, SequenceType
    <3> QED BY <2>1, <3>1, <3>2, MailboxAssumption DEF Numbers
  <2> QED BY <1>1, <2>1, <2>2 DEF NumbersFew
<1>3. CASE StoreEnd
  <2>1. /\ published' = published \cup {line'} /\ cpu'.seq = cpu.seq /\ cpu'.event = cpu.event
        /\ line'.begin = line.begin /\ line'.event = line.event /\ In("END")
    BY <1>1, <1>3 DEF StoreEnd, To, Cpus, Traces
  <2>2. line.begin = cpu.seq /\ line.event = cpu.event
    BY <2>1 DEF RingInv, Storing, In
  <2> QED BY <2>1, <2>2 DEF NumbersFew
<1>4. CASE Game /\ ~StoreEnd /\ \A kind \in Kinds : ~OpenPhase(kind)
  <2>1. /\ published' = published /\ cpu'.seq = cpu.seq
        /\ cpu'.event \in {cpu.event, cpu.event + 1}
    BY <1>1, <1>4
       DEF Game, GameNext, StoreBody, StoreBegin, Refuse, CountDropped, PutEntry, PutCursor,
           PutInverse, WriteBack, WriteBackControl, Capture, WriteBackReport, Seal, To, Cpus,
           gameVars
  <2> QED BY <1>1, <2>1 DEF NumbersFew
<1>5. CASE CrashInit /\ UNCHANGED published
  <2>1. cpu'.seq \in {0, trace.begin} /\ cpu'.event = cpu.event
        /\ (cpu'.seq # 0 => cpu'.seq = trace.begin /\ LmPhaseValid(trace))
    BY <1>1, <1>5 DEF CrashInit, Cpus
  <2>2. LmPhaseValid(trace) => trace.begin <= 2 * trace.event
    BY DEF RingInv, LinesTrue, NumbersFew
  <2>3. trace.begin \in Int
    BY <1>1, MailboxAssumption DEF Traces, Numbers
  <2> QED BY <1>1, <1>5, <2>1, <2>2, <2>3 DEF NumbersFew
<1>6. CASE Restart
  BY <1>1, <1>6 DEF Restart, NoCpu, NumbersFew
<1>7. CASE UNCHANGED <<cpu, published>>
  BY <1>7 DEF NumbersFew
<1>8. Kernel \/ UNCHANGED vars => UNCHANGED <<cpu, published>>
  BY DEF Kernel, vars, gameVars
<1>9. Start \/ Reset => CrashInit /\ UNCHANGED published
  BY DEF Start, Reset
<1> QED
  BY <1>2, <1>3, <1>4, <1>5, <1>6, <1>7, <1>8, <1>9 DEF Next, Game

\* Up to half the span one number is newer than another if it is greater.
LEMMA NewerWithin ==
  ASSUME NEW m \in 1 .. Span \div 2, NEW n \in 1 .. Span \div 2
  PROVE  Newer(n, m) <=> m < n
<1>1. Span \in Nat \ {0} /\ Span % 2 = 0 /\ Span > 4 /\ m \in 0 .. Span - 1 /\ n \in 0 .. Span - 1
  BY MailboxAssumption
<1>2. (n - m) % Span = IF n >= m THEN n - m ELSE n - m + Span
  BY <1>1, ModDifference
<1> QED BY <1>1, <1>2 DEF Newer

LEMMA NumberBounds ==
  ASSUME RingInv, NumbersFew, 4 * MaxEvents <= Span, NEW record \in published
  PROVE  record.begin \in 1 .. Span \div 2 /\ record.event \in Int
<1>1. record \in Traces /\ LmPhaseValid(record) /\ record.begin <= 2 * record.event
  BY DEF RingInv, TypeInv, RingTypeOK, GameTypeOK, LinesTrue, NumbersFew
<1>2. /\ Span \in Nat /\ Span % 2 = 0 /\ MaxEvents \in Nat
      /\ record.begin \in 0 .. Span - 1 /\ record.event \in 0 .. MaxEvents /\ record.begin # 0
  BY <1>1, MailboxAssumption DEF Traces, Numbers, LmPhaseValid
<1> QED BY <1>1, <1>2

\* The statics of the kernel are numbers of records it handled, or nothing yet.
LEMMA StaticBounds ==
  ASSUME RingInv, NumbersFew, Statics, 4 * MaxEvents <= Span
  PROVE  /\ kernel.lastPhase \in 0 .. Span \div 2 /\ kernel.lastCritical \in 0 .. Span \div 2
         /\ kernel.lastPhase = 0 => emitted = <<>>
         /\ \A i \in DOMAIN emitted :
              emitted[i] \in published /\ emitted[i].begin \in 1 .. Span \div 2
              /\ emitted[i].event \in Int
<1>1. /\ emitted \in Seq(Traces) /\ kernel.lastCritical \in Numbers
      /\ \A i \in DOMAIN emitted : emitted[i] \in published
  BY DEF RingInv, TypeInv, RingTypeOK, Kernels, HandledWhole
<1>2. \A i \in DOMAIN emitted : emitted[i].begin \in 1 .. Span \div 2 /\ emitted[i].event \in Int
  BY <1>1, NumberBounds
<1>3. emitted # <<>> => Len(emitted) \in DOMAIN emitted
  BY <1>1
<1>4. kernel.lastPhase \in 0 .. Span \div 2 /\ (kernel.lastPhase = 0 => emitted = <<>>)
  BY <1>2, <1>3, MailboxAssumption DEF Statics
<1>5. kernel.lastCritical \in 0 .. Span \div 2
  BY <1>1, <1>2, <1>4, MailboxAssumption DEF Statics, Numbers
<1> QED BY <1>1, <1>2, <1>4, <1>5

\* A sample that passes the poll's tests is later than all that was handled.
LEMMA SampleIsLater ==
  ASSUME RingInv, OrderInv, 4 * MaxEvents <= Span, At("RECHECK"), TraceValid,
         kernel.lastPhase = 0 \/ Newer(kernel.snapshot.begin, kernel.lastPhase)
  PROVE  /\ kernel.snapshot \in published
         /\ \A i \in DOMAIN emitted : emitted[i].event < kernel.snapshot.event
         /\ kernel.lastCritical < kernel.snapshot.begin
         /\ ~Stale(kernel.snapshot)
<1> DEFINE record == kernel.snapshot
<1>1. /\ record \in published /\ NumbersFew /\ Statics /\ Sequel
      /\ \A i \in DOMAIN emitted : emitted[i].event <= record.event
      /\ emitted \in Seq(Traces)
  BY DEF RingInv, HandledWhole, OrderInv, TypeInv, RingTypeOK
<1>2. record.begin \in 1 .. Span \div 2 /\ record.event \in Int
  BY <1>1, NumberBounds
<1>3. /\ kernel.lastPhase \in 0 .. Span \div 2 /\ kernel.lastCritical \in 0 .. Span \div 2
      /\ kernel.lastPhase = 0 => emitted = <<>>
      /\ \A i \in DOMAIN emitted : emitted[i] \in published /\ emitted[i].event \in Int
  BY <1>1, StaticBounds
<1>4. Newer(record.begin, kernel.lastPhase) \/ kernel.lastPhase = 0
  OBVIOUS
<1> HIDE DEF record
<1>5. kernel.lastPhase < record.begin
  <2>1. CASE kernel.lastPhase = 0
    BY <1>2, <2>1
  <2>2. CASE kernel.lastPhase # 0
    <3>1. kernel.lastPhase \in 1 .. Span \div 2
      BY <1>3, <2>2
    <3> QED BY <1>2, <1>4, <2>2, <3>1, NewerWithin
  <2> QED BY <2>1, <2>2
<1>6. kernel.lastCritical < record.begin
  BY <1>1, <1>2, <1>3, <1>5 DEF Statics
<1>7. ~Stale(record)
  <2>1. CASE kernel.lastCritical = 0
    BY <2>1 DEF Stale
  <2>2. CASE kernel.lastCritical # 0
    <3>1. kernel.lastCritical \in 1 .. Span \div 2
      BY <1>3, <2>2
    <3> QED BY <1>2, <1>6, <3>1, NewerWithin DEF Stale
  <2> QED BY <2>1, <2>2
<1>8. ASSUME NEW i \in DOMAIN emitted PROVE emitted[i].event < record.event
  <2> SUFFICES ASSUME emitted[i].event = record.event PROVE FALSE
    BY <1>1, <1>2, <1>3
  <2>1. emitted[i] = record
    BY <1>1, <1>3 DEF RingInv, LinesTrue
  <2>2. CASE LmPhaseCritical(record)
    <3>1. record.begin <= kernel.lastCritical
      BY <1>1, <2>1, <2>2 DEF Statics
    <3> QED BY <1>2, <1>3, <1>6, <3>1
  <2>3. CASE ~LmPhaseCritical(record)
    <3>1. i = Len(emitted) /\ emitted # <<>>
      BY <1>1, <2>1, <2>3 DEF Sequel, LineLast, record
    <3>2. kernel.lastPhase = record.begin
      BY <1>1, <2>1, <3>1 DEF Statics
    <3> QED BY <1>2, <1>5, <3>2
  <2> QED BY <2>2, <2>3
<1> QED BY <1>1, <1>6, <1>7, <1>8 DEF record

\* A head that is not stale comes after all that was handled, but for strays
\* whose numbers are smaller, if they are critical.
LEMMA HeadIsLater ==
  ASSUME RingInv, OrderInv, 4 * MaxEvents <= Span, Waiting > 0, ~Handling
  PROVE  /\ Queue[1] \in published /\ LmPhaseCritical(Queue[1])
         /\ ~Stale(Queue[1]) =>
              /\ kernel.lastCritical < Queue[1].begin
              /\ \A i \in DOMAIN emitted :
                   \/ emitted[i].event < Queue[1].event
                   \/ /\ emitted[i] \in strays
                      /\ LmPhaseCritical(emitted[i]) => emitted[i].begin < Queue[1].begin
         /\ Stale(Queue[1]) => PassedOver(Queue[1])
<1>1. /\ 1 \in 1 .. Waiting /\ Queue[1] \in published /\ LmPhaseCritical(Queue[1])
      /\ NumbersFew /\ Statics /\ Sequel
  <2>1. 1 \in 1 .. Waiting
    BY QueueHead DEF RingInv
  <2> QED BY <2>1 DEF RingInv, RingOrdered, OrderInv
<1>2. Queue[1].begin \in 1 .. Span \div 2
  BY <1>1, NumberBounds
<1>3. /\ kernel.lastCritical \in 0 .. Span \div 2
      /\ \A i \in DOMAIN emitted : emitted[i] \in published /\ emitted[i].begin \in 1 .. Span \div 2
  BY <1>1, StaticBounds
<1>4. \A i \in DOMAIN emitted : emitted[i].event < Queue[1].event \/ emitted[i] \in strays
  BY <1>1 DEF Sequel, QueueLater
<1>5. Stale(Queue[1]) <=> kernel.lastCritical # 0 /\ Queue[1].begin <= kernel.lastCritical
  <2>1. CASE kernel.lastCritical = 0
    BY <2>1 DEF Stale
  <2>2. CASE kernel.lastCritical # 0
    <3>1. kernel.lastCritical \in 1 .. Span \div 2
      BY <1>3, <2>2
    <3> QED BY <1>1, <1>2, <2>2, <3>1, NewerWithin DEF Stale
  <2> QED BY <2>1, <2>2
<1>6. ASSUME ~Stale(Queue[1])
      PROVE  /\ kernel.lastCritical < Queue[1].begin
             /\ \A i \in DOMAIN emitted :
                  \/ emitted[i].event < Queue[1].event
                  \/ /\ emitted[i] \in strays
                     /\ LmPhaseCritical(emitted[i]) => emitted[i].begin < Queue[1].begin
  <2>1. kernel.lastCritical < Queue[1].begin
    BY <1>2, <1>3, <1>5, <1>6
  <2>2. \A i \in DOMAIN emitted :
          LmPhaseCritical(emitted[i]) => emitted[i].begin < Queue[1].begin
    BY <1>1, <1>2, <1>3, <2>1 DEF Statics
  <2> QED BY <1>4, <2>1, <2>2
<1>7. ASSUME Stale(Queue[1]) PROVE PassedOver(Queue[1])
  <2>1. PICK i \in DOMAIN emitted :
          LmPhaseCritical(emitted[i]) /\ emitted[i].begin = kernel.lastCritical
    BY <1>1, <1>5, <1>7 DEF Statics
  <2>2. emitted[i].begin >= Queue[1].begin
    BY <1>2, <1>3, <1>5, <1>7, <2>1
  <2> QED BY <1>4, <2>1, <2>2 DEF PassedOver
<1> QED BY <1>1, <1>6, <1>7

\* The history and the statics after a record that is later, or has passed over
\* strays only.
LEMMA OrderGrows ==
  ASSUME RingInv, OrderInv, 4 * MaxEvents <= Span,
         NEW record \in published, NEW back \in {"ACK", "CHECK"}, EmitPhaseTrace(record, back),
         ~Stale(record), strays \subseteq strays', kernel.lastCritical < record.begin,
         \A i \in DOMAIN emitted :
           \/ emitted[i].event < record.event
           \/ /\ emitted[i] \in strays' /\ LmPhaseCritical(record)
              /\ LmPhaseCritical(emitted[i]) => emitted[i].begin < record.begin
  PROVE  EmittedInOrder' /\ Statics'
<1>1. /\ record \in Traces /\ emitted \in Seq(Traces) /\ kernel \in Kernels
      /\ NumbersFew /\ Statics /\ EmittedInOrder
  BY DEF RingInv, TypeInv, RingTypeOK, GameTypeOK, OrderInv
<1>2. /\ Len(emitted) \in Nat /\ DOMAIN emitted = 1 .. Len(emitted)
      /\ DOMAIN emitted' = 1 .. Len(emitted) + 1 /\ Len(emitted') = Len(emitted) + 1
      /\ emitted' # <<>> /\ emitted'[Len(emitted) + 1] = record
      /\ \A i \in DOMAIN emitted : i \in DOMAIN emitted' /\ emitted'[i] = emitted[i]
      /\ \A i \in DOMAIN emitted' : i \in DOMAIN emitted \/ i = Len(emitted) + 1
      /\ kernel'.lastPhase = record.begin
      /\ kernel'.lastCritical =
           IF LmPhaseCritical(record) THEN record.begin ELSE kernel.lastCritical
  BY <1>1, Emission
<1>3. EmittedInOrder'
  <2> SUFFICES ASSUME NEW i \in DOMAIN emitted', NEW j \in DOMAIN emitted', i < j
               PROVE  \/ emitted'[i].event < emitted'[j].event
                      \/ /\ emitted'[i] \in strays' /\ LmPhaseCritical(emitted'[j])
                         /\ LmPhaseCritical(emitted'[i]) => emitted'[i].begin < emitted'[j].begin
    BY DEF EmittedInOrder
  <2>1. i \in DOMAIN emitted
    BY <1>2
  <2>2. CASE j \in DOMAIN emitted
    BY <1>1, <1>2, <2>1, <2>2 DEF EmittedInOrder
  <2>3. CASE j = Len(emitted) + 1
    BY <1>2, <2>1, <2>3
  <2> QED BY <1>2, <2>2, <2>3
<1>4. /\ record.begin \in 1 .. Span \div 2 /\ kernel.lastCritical \in 0 .. Span \div 2
      /\ \A i \in DOMAIN emitted : emitted[i].begin \in 1 .. Span \div 2
  BY <1>1, StaticBounds, NumberBounds
<1>5. Statics'
  <2>1. kernel'.lastPhase = emitted'[Len(emitted')].begin
    BY <1>2
  <2>2. kernel'.lastCritical <= kernel'.lastPhase
    BY <1>2, <1>4
  <2>3. \A i \in DOMAIN emitted' :
          LmPhaseCritical(emitted'[i]) => emitted'[i].begin <= kernel'.lastCritical
    <3> SUFFICES ASSUME NEW i \in DOMAIN emitted', LmPhaseCritical(emitted'[i])
                 PROVE  emitted'[i].begin <= kernel'.lastCritical
      OBVIOUS
    <3>1. CASE i \in DOMAIN emitted
      <4>1. emitted[i].begin <= kernel.lastCritical
        BY <1>1, <1>2, <3>1 DEF Statics
      <4> QED BY <1>2, <1>4, <3>1, <4>1
    <3>2. CASE i = Len(emitted) + 1
      BY <1>2, <1>4, <3>2
    <3> QED BY <1>2, <3>1, <3>2
  <2>4. kernel'.lastCritical # 0 =>
          \E i \in DOMAIN emitted' :
            LmPhaseCritical(emitted'[i]) /\ emitted'[i].begin = kernel'.lastCritical
    <3>1. CASE LmPhaseCritical(record)
      <4>1. Len(emitted) + 1 \in DOMAIN emitted'
        BY <1>2
      <4> QED BY <1>2, <3>1, <4>1
    <3>2. CASE ~LmPhaseCritical(record)
      BY <1>1, <1>2, <3>2 DEF Statics
    <3> QED BY <3>1, <3>2
  <2> QED BY <1>2, <2>1, <2>2, <2>3, <2>4 DEF Statics
<1> QED BY <1>3, <1>5


\* What the game's steps make of the record on its way into the ring, and of the
\* ring.
LEMMA ComingSteps ==
  ASSUME RingInv, Game
  PROVE  /\ UNCHANGED <<kernel, emitted, strays>>
         /\ Coming' => (Coming /\ line' = line) \/ \A record \in published : record.event < line'.event
         /\ \/ Waiting' = Waiting /\ Queue' = Queue
            \/ /\ Ahead /\ Waiting' = Waiting + 1 /\ Queue'[Waiting + 1] = line
               /\ \A i \in 1 .. Waiting : Queue'[i] = Queue[i]
<1>1. /\ cpu \in Cpus /\ line \in Traces /\ control \in Controls /\ producer \in Controls
      /\ ControlsTrue /\ Storing /\ GameNext /\ UNCHANGED <<kernel, emitted, strays, runs>>
  BY DEF RingInv, TypeInv, RingTypeOK, MailboxTypeOK, GameTypeOK, Game, kernelVars
<1>2. CASE ~RingStore
  <2>1. UNCHANGED <<producer, control, released, entries>> /\ (Ahead' <=> Ahead)
    BY <1>1, <1>2, RingAlone DEF ringVars, Ahead
  <2>2. Waiting' = Waiting /\ Queue' = Queue
    BY <2>1, QueueSame
  <2>3. CASE \E kind \in Kinds : OpenPhase(kind)
    <3>1. cpu'.stage = "BODY" /\ In("RUN")
      BY <1>1, <2>3 DEF OpenPhase, Begun
    <3> QED BY <1>1, <2>1, <2>2, <3>1 DEF Coming, ControlsTrue, Ahead, In
  <2>4. CASE StoreBody \/ StoreBegin
    <3>1. cpu'.stage \in {"BEGIN", "END"} /\ cpu.stage \in {"BODY", "BEGIN"}
      BY <1>1, <2>4 DEF StoreBody, StoreBegin, To, In, Cpus
    <3> QED BY <1>1, <2>1, <2>2, <3>1 DEF Coming, ControlsTrue, Ahead
  <2>5. CASE StoreEnd
    <3>1. line'.event = line.event /\ In("END")
      BY <1>1, <2>5 DEF StoreEnd, Traces
    <3>2. \A record \in published : record.event < line'.event
      BY <1>1, <3>1 DEF Storing, In
    <3> QED BY <1>1, <2>2, <3>2
  <2>6. CASE Refuse \/ WriteBack \/ Capture \/ WriteBackReport \/ Seal
    <3>1. line' = line /\ (cpu' = cpu \/ cpu'.stage \in {"RUN", "SEAL", "DEAD"})
      BY <1>1, <2>6
         DEF Refuse, WriteBack, Capture, WriteBackReport, Seal, To, Cpus, gameVars
    <3> QED BY <1>1, <2>1, <2>2, <3>1 DEF Coming
  <2> QED BY <1>1, <1>2, <2>3, <2>4, <2>5, <2>6 DEF GameNext, RingStore
<1>3. CASE CountDropped \/ PutEntry \/ PutCursor
  <2>1. /\ line' = line /\ producer' = producer /\ released' = released
        /\ control = producer /\ cpu.stage \in {"QUEUE", "CURSOR"}
    BY <1>1, <1>3 DEF CountDropped, PutEntry, PutCursor, In, ControlsTrue
  <2>2. Waiting' = Waiting /\ Queue' = Queue
    <3>1. CASE PutEntry
      BY <3>1, QueueUntouched
    <3>2. CASE CountDropped \/ PutCursor
      BY <2>1, <3>2, QueueSame DEF CountDropped, PutCursor
    <3> QED BY <1>3, <3>1, <3>2
  <2> QED BY <1>1, <2>1, <2>2 DEF Coming
<1>4. CASE PutInverse \/ WriteBackControl
  <2>1. /\ producer'.cursor = control.cursor /\ control' = producer'
        /\ UNCHANGED <<line, released, entries>> /\ ~Ahead'
    BY <1>1, <1>4, ControlStores DEF PutInverse, WriteBackControl, Ahead, gameVars
  <2>2. cpu'.stage \notin {"QUEUE", "CURSOR"}
    <3>1. CASE PutInverse
      BY <1>1, <3>1 DEF PutInverse, To, Cpus
    <3>2. CASE WriteBackControl
      BY <1>1, <3>2 DEF WriteBackControl, ControlsTrue, gameVars
    <3> QED BY <1>4, <3>1, <3>2
  <2>3. ~Coming'
    BY <2>1, <2>2 DEF Coming
  <2>4. CASE Ahead
    BY <1>1, <1>4, <2>3, <2>4, QueueAppend
  <2>5. CASE ~Ahead
    <3>1. Waiting' = Waiting /\ Queue' = Queue
      BY <2>1, <2>5, QueueSame DEF Ahead
    <3> QED BY <1>1, <2>3, <3>1
  <2> QED BY <2>4, <2>5
<1> QED BY <1>2, <1>3, <1>4 DEF RingStore

\* A line left torn in memory stays, and no process can change it.
LEMMA BrokenStays ==
  ASSUME RingInv, [Next]_vars, ~Restart, Broken
  PROVE  Broken'
<1>1. /\ control = producer /\ ~LmCriticalControlValid(producer) /\ cpu \in Cpus
      /\ cpu.stage \notin {"OFF", "INVERSE", "CURSOR"} /\ TypeInv
  <2>1. control = producer /\ (In("CURSOR") => LmCriticalControlValid(control))
    BY DEF Broken, RingInv, ControlsTrue
  <2> QED BY <2>1 DEF Broken, In, RingInv, TypeInv, RingTypeOK, GameTypeOK
<1>2. ASSUME producer' = producer, cpu'.stage \notin {"OFF", "INVERSE"} PROVE Broken'
  BY <1>1, <1>2 DEF Broken, LmCriticalControlValid
<1>3. CASE Game
  <2>1. GameNext
    BY <1>3 DEF Game
  <2>2. ~CountDropped /\ ~PutCursor /\ ~PutInverse /\ ~WriteBackControl
    BY <1>1 DEF CountDropped, PutCursor, PutInverse, WriteBackControl, Refused, In
  <2>3. producer' = producer
    <3>1. CASE PutEntry
      BY <3>1 DEF PutEntry
    <3>2. CASE ~PutEntry
      BY <2>1, <2>2, <3>2, RingAlone DEF RingStore, ringVars
    <3> QED BY <3>1, <3>2
  <2>4. cpu'.stage \notin {"OFF", "INVERSE"}
    <3>1. CASE \E kind \in Kinds : OpenPhase(kind)
      BY <3>1 DEF OpenPhase, Begun
    <3>2. CASE StoreBody \/ StoreBegin \/ StoreEnd \/ PutEntry
      BY <1>1, <3>2 DEF StoreBody, StoreBegin, StoreEnd, PutEntry, To, Cpus
    <3>3. CASE Refuse \/ WriteBack \/ Capture \/ WriteBackReport \/ Seal
      BY <1>1, <3>3 DEF Refuse, WriteBack, Capture, WriteBackReport, Seal, To, Cpus, gameVars
    <3> QED BY <2>1, <2>2, <3>1, <3>2, <3>3 DEF GameNext
  <2> QED BY <1>2, <2>3, <2>4
<1>4. CASE Kernel
  <2>1. producer' = producer /\ cpu' = cpu
    BY <1>4, KernelFrame
  <2> QED BY <1>1, <1>2, <2>1
<1>5. CASE Start \/ Reset
  <2>1. CrashInit
    BY <1>5 DEF Start, Reset
  <2>2. producer' = producer
    BY <1>1, <1>5, <2>1, Attached DEF In
  <2>3. cpu'.stage = "RUN"
    BY <1>1, <2>1 DEF CrashInit, Cpus
  <2> QED BY <1>2, <2>2, <2>3
<1>6. CASE UNCHANGED vars
  BY <1>1, <1>2, <1>6 DEF vars, mailboxVars, ringVars, gameVars
<1> QED BY <1>3, <1>4, <1>5, <1>6 DEF Next

LEMMA TraceGrows ==
  ASSUME RingInv, [Next]_vars, ~Restart
  PROVE  trace.event <= trace'.event /\ trace.event \in Int /\ trace'.event \in Int
<1>1. /\ trace \in Traces /\ line \in Traces /\ trace.event \in Int /\ line.event \in Int
      /\ trace.event <= line.event /\ trace.event <= trace.event
  <2>1. trace \in Traces /\ line \in Traces /\ trace.event <= line.event
    BY DEF RingInv, TypeInv, RingTypeOK, MailboxTypeOK, GameTypeOK, LinesTrue
  <2> QED BY <2>1, MailboxAssumption DEF Traces
<1>2. trace' = trace \/ trace'.event = line.event
  <2>1. CASE \E kind \in Kinds : OpenPhase(kind)
    BY <1>1, <2>1 DEF OpenPhase, Traces
  <2>2. CASE StoreEnd
    BY <1>1, <2>2 DEF StoreEnd, Traces
  <2>3. CASE WriteBack
    BY <2>3 DEF WriteBack
  <2>4. CASE Game /\ ~StoreEnd /\ ~WriteBack /\ \A kind \in Kinds : ~OpenPhase(kind)
    BY <2>4
       DEF Game, GameNext, StoreBody, StoreBegin, Refuse, CountDropped, PutEntry, PutCursor,
           PutInverse, WriteBackControl, Capture, WriteBackReport, Seal, mailboxVars
  <2>5. CASE Kernel
    BY <2>5, KernelFrame
  <2>6. CASE Start \/ Reset
    BY <2>6 DEF Start, Reset, CrashInit
  <2>7. CASE UNCHANGED vars
    BY <2>7 DEF vars, mailboxVars
  <2> QED BY <2>1, <2>2, <2>3, <2>4, <2>5, <2>6, <2>7 DEF Next, Game
<1> QED BY <1>1, <1>2

\* What the poll does to its history and to what waits in the ring.
LEMMA HistoryGrows ==
  ASSUME RingInv, Kernel
  PROVE  /\ \A i \in DOMAIN emitted : i \in DOMAIN emitted' /\ emitted'[i] = emitted[i]
         /\ strays \subseteq strays' /\ (Coming' <=> Coming) /\ (Ahead' <=> Ahead)
         /\ ~Acknowledge => Waiting' = Waiting /\ Queue' = Queue
<1>1. /\ UNCHANGED <<trace, producer, control, entries, line, cpu, published>> /\ KernelNext
      /\ ~Acknowledge /\ ~Release => released' = released
      /\ (~Recheck => strays' = strays)
  BY KernelFrame
<1>2. /\ TypeInv /\ kernel \in Kernels /\ emitted \in Seq(Traces) /\ released \in Controls
  BY DEF RingInv, TypeInv, RingTypeOK, MailboxTypeOK
<1>3. strays \subseteq strays'
  BY <1>1 DEF Recheck
<1>4. ~Acknowledge => released'.cursor = released.cursor
  BY <1>1, <1>2, ControlStores DEF Release, CriticalRelease
<1>5. ~Acknowledge => Waiting' = Waiting /\ Queue' = Queue
  BY <1>1, <1>4, QueueSame
<1>6. \A i \in DOMAIN emitted : i \in DOMAIN emitted' /\ emitted'[i] = emitted[i]
  <2>1. CASE emitted' = emitted
    BY <2>1
  <2>2. CASE \E record \in Traces : emitted' = Append(emitted, record)
    BY <1>2, <2>2
  <2>3. CASE Drain \/ Recheck
    <3>1. kernel.snapshot \in Traces /\ entries[Slot(released.cursor)] \in Traces
      <4>1. released.cursor \in Nat /\ RingSize \in Nat \ {0} /\ entries \in [0 .. RingSize - 1 -> Traces]
        BY <1>2, MailboxAssumption DEF Controls, Cursors, TypeInv, RingTypeOK, MailboxTypeOK
      <4>2. Slot(released.cursor) \in 0 .. RingSize - 1
        BY <4>1, ModSmall DEF Slot
      <4> QED BY <1>2, <4>1, <4>2 DEF Kernels
    <3> QED BY <2>1, <2>2, <2>3, <3>1 DEF Drain, Recheck, EmitPhaseTrace
  <2> QED BY <1>2, <2>1, <2>3, HandlingSteps
<1> QED BY <1>1, <1>3, <1>5, <1>6 DEF Coming, Ahead

\* A step that handles nothing new.
LEMMA OrderQuiet ==
  ASSUME RingInv, OrderInv, NumbersFew', [Next]_vars, ~Restart, UNCHANGED <<emitted, strays>>,
         kernel'.lastPhase = kernel.lastPhase, kernel'.lastCritical = kernel.lastCritical,
         At("RECHECK")' => \/ At("RECHECK") /\ kernel'.snapshot = kernel.snapshot
                           \/ kernel'.snapshot = trace,
         QueueLater',
         Coming' => (Coming /\ line' = line) \/ \A record \in published : record.event < line'.event
  PROVE  OrderInv'
<1>1. /\ Statics /\ EmittedInOrder /\ Sequel /\ LinesTrue
      /\ \A i \in DOMAIN emitted : emitted[i] \in published
  BY DEF OrderInv, RingInv, HandledWhole
<1>2. /\ trace.event <= trace'.event /\ trace.event \in Int /\ trace'.event \in Int
      /\ \A i \in DOMAIN emitted : emitted[i].event \in Int /\ emitted[i].event <= trace.event
  <2>1. \A i \in DOMAIN emitted : emitted[i] \in Traces /\ emitted[i].event <= trace.event
    BY <1>1 DEF RingInv, TypeInv, RingTypeOK, GameTypeOK, LinesTrue
  <2> QED BY <2>1, TraceGrows, MailboxAssumption DEF Traces
<1>3. Statics' /\ EmittedInOrder' /\ StraysHandled'
  BY <1>1 DEF Statics, EmittedInOrder, Sequel, StraysHandled, Emitted
<1>4. ComingLater'
  BY <1>1 DEF Sequel, ComingLater
<1>5. LineLast'
  <2> SUFFICES ASSUME NEW i \in DOMAIN emitted, ~LmPhaseCritical(emitted[i])
               PROVE  /\ emitted[i].event = trace'.event => i = Len(emitted)
                      /\ emitted[i] \in strays => emitted[i].event < trace'.event \/ Broken'
                      /\ At("RECHECK")' /\ emitted[i] = kernel'.snapshot => i = Len(emitted)
    BY DEF LineLast
  <2>1. /\ emitted[i].event = trace.event => i = Len(emitted)
        /\ emitted[i] \in strays => emitted[i].event < trace.event \/ Broken
        /\ At("RECHECK") /\ emitted[i] = kernel.snapshot => i = Len(emitted)
    BY <1>1 DEF Sequel, LineLast
  <2>2. emitted[i].event = trace'.event => i = Len(emitted)
    BY <1>2, <2>1
  <2>3. emitted[i] \in strays => emitted[i].event < trace'.event \/ Broken'
    BY <1>2, <2>1, BrokenStays
  <2> QED BY <2>1, <2>2, <2>3
<1> QED BY <1>1, <1>3, <1>4, <1>5 DEF OrderInv, Sequel

\* A record taken from the ring.
LEMMA OrderFromRing ==
  ASSUME RingInv, OrderInv, NumbersFew', 4 * MaxEvents <= Span, Kernel, ~Handling, Waiting > 0,
         CriticalPeek, EmitPhaseTrace(Queue[1], "ACK"), ~Stale(Queue[1]), Handling',
         ~At("RECHECK")', strays' = strays, Waiting' = Waiting, Queue' = Queue
  PROVE  OrderInv'
<1>1. /\ emitted \in Seq(Traces) /\ kernel \in Kernels /\ published \subseteq Traces
      /\ Sequel /\ LinesTrue /\ RingOrdered /\ 1 \in 1 .. Waiting /\ Waiting \in Nat
      /\ UNCHANGED <<trace, producer, line, cpu>> /\ (Coming' <=> Coming)
      /\ trace \in Traces
  BY QueueHead, QueueShape, KernelFrame, HistoryGrows
     DEF RingInv, TypeInv, RingTypeOK, MailboxTypeOK, GameTypeOK, OrderInv
<1>2. PICK record \in published : record = Queue[1]
  BY HeadIsLater
<1>3. /\ LmPhaseCritical(record) /\ kernel.lastCritical < record.begin
      /\ \A i \in DOMAIN emitted :
           \/ emitted[i].event < record.event
           \/ /\ emitted[i] \in strays
              /\ LmPhaseCritical(emitted[i]) => emitted[i].begin < record.begin
  BY <1>2, HeadIsLater
<1>4. EmitPhaseTrace(record, "ACK") /\ ~Stale(record) /\ record \in Traces
  BY <1>1, <1>2
<1>5. EmittedInOrder' /\ Statics'
  BY <1>3, <1>4, OrderGrows
<1>6. /\ DOMAIN emitted' = 1 .. Len(emitted) + 1 /\ emitted'[Len(emitted) + 1] = record
      /\ \A i \in DOMAIN emitted : i \in DOMAIN emitted' /\ emitted'[i] = emitted[i]
      /\ \A i \in DOMAIN emitted' : i \in DOMAIN emitted \/ i = Len(emitted) + 1
  BY <1>1, <1>4, Emission
<1>7. QueueLater'
  <2> SUFFICES ASSUME NEW k \in 1 .. Waiting, NEW i \in DOMAIN emitted'
               PROVE  \/ emitted'[i].event < Queue[k].event \/ emitted'[i] \in strays
                      \/ k = 1
    BY DEF QueueLater
  <2>1. CASE i \in DOMAIN emitted
    BY <1>1, <1>6, <2>1 DEF Sequel, QueueLater
  <2>2. CASE i = Len(emitted) + 1
    BY <1>1, <1>2, <1>6, <2>2 DEF RingOrdered
  <2> QED BY <1>6, <2>1, <2>2
<1>8. ComingLater'
  <2> SUFFICES ASSUME Coming, NEW i \in DOMAIN emitted'
               PROVE  emitted'[i].event < line.event \/ emitted'[i] \in strays
    BY <1>1 DEF ComingLater
  <2>1. CASE i \in DOMAIN emitted
    BY <1>1, <1>6, <2>1 DEF Sequel, ComingLater
  <2>2. CASE i = Len(emitted) + 1
    BY <1>1, <1>2, <1>6, <2>2 DEF RingOrdered
  <2> QED BY <1>6, <2>1, <2>2
\* Only a stray could be as late as what the phase line shows, while the line is
\* torn; but then the ring is not read.
<1>9. LineLast'
  <2> SUFFICES ASSUME NEW i \in DOMAIN emitted', ~LmPhaseCritical(emitted'[i])
               PROVE  emitted'[i].event < trace.event
    <3> \A event \in Int : ~(event < event)
      OBVIOUS
    <3> trace.event \in Int
      BY <1>1, MailboxAssumption DEF Traces
    <3> QED BY <1>1 DEF LineLast
  <2>1. i \in DOMAIN emitted /\ ~LmPhaseCritical(emitted[i]) /\ emitted'[i] = emitted[i]
    BY <1>3, <1>6
  <2>2. emitted[i].event < record.event \/ emitted[i] \in strays
    BY <1>3, <2>1
  <2>3. record.event <= trace.event
    BY <1>1 DEF LinesTrue
  <2>4. ~Broken
    BY DEF Broken, CriticalPeek, CriticalEnrolled
  <2>5. emitted[i] \in strays => emitted[i].event < trace.event
    BY <1>1, <2>1, <2>4 DEF Sequel, LineLast
  <2>6. emitted[i].event \in Int /\ record.event \in Int /\ trace.event \in Int
    <3>1. emitted[i] \in Traces
      BY <1>1, <2>1
    <3> QED BY <1>1, <1>4, <3>1, MailboxAssumption DEF Traces
  <2> QED BY <2>1, <2>2, <2>3, <2>5, <2>6
<1>10. StraysHandled'
  BY <1>1, <1>6 DEF Sequel, StraysHandled, Emitted
<1> QED BY <1>5, <1>7, <1>8, <1>9, <1>10 DEF OrderInv, Sequel

\* A record that was sampled.
LEMMA OrderFromSample ==
  ASSUME RingInv, OrderInv, NumbersFew', 4 * MaxEvents <= Span, Recheck, Kernel,
         ~Queued, TraceValid, kernel.lastPhase = 0 \/ Newer(kernel.snapshot.begin, kernel.lastPhase),
         EmitPhaseTrace(kernel.snapshot, "CHECK"),
         ~At("RECHECK")', Waiting' = Waiting, Queue' = Queue
  PROVE  OrderInv'
<1>1. /\ emitted \in Seq(Traces) /\ kernel \in Kernels /\ published \subseteq Traces
      /\ Sequel /\ LinesTrue /\ RingOrdered /\ ControlsTrue /\ Waiting \in Nat
      /\ UNCHANGED <<trace, producer, line, cpu>> /\ (Coming' <=> Coming)
      /\ trace \in Traces /\ line \in Traces /\ At("RECHECK")
      /\ kernel.snapshot.event <= trace.event /\ strays \subseteq strays'
  BY QueueShape, KernelFrame, HistoryGrows
     DEF RingInv, TypeInv, RingTypeOK, MailboxTypeOK, GameTypeOK, OrderInv, HandledWhole, Recheck
<1>2. PICK record \in published : record = kernel.snapshot
  BY <1>1, SampleIsLater
<1>3. /\ kernel.lastCritical < record.begin /\ ~Stale(record) /\ record.event <= trace.event
      /\ \A i \in DOMAIN emitted : emitted[i].event < record.event
  BY <1>1, <1>2, SampleIsLater
<1>4. EmitPhaseTrace(record, "CHECK") /\ record \in Traces
  BY <1>1, <1>2
<1>5. EmittedInOrder' /\ Statics'
  BY <1>1, <1>3, <1>4, OrderGrows
<1>6. /\ DOMAIN emitted' = 1 .. Len(emitted) + 1 /\ emitted'[Len(emitted) + 1] = record
      /\ Len(emitted') = Len(emitted) + 1 /\ emitted' # emitted
      /\ \A i \in DOMAIN emitted : i \in DOMAIN emitted' /\ emitted'[i] = emitted[i]
      /\ \A i \in DOMAIN emitted' : i \in DOMAIN emitted \/ i = Len(emitted) + 1
  BY <1>1, <1>3, <1>4, Emission
<1>7. /\ CriticalEnrolled => strays' = strays /\ Waiting = 0 /\ ~LmPhaseCritical(record)
      /\ ~CriticalEnrolled => strays' = strays \cup {record}
  BY <1>1, <1>2, <1>6 DEF Recheck, Queued
<1>8. /\ trace.event \in Int /\ line.event \in Int /\ record.event \in Int
      /\ trace.event <= line.event
      /\ \A i \in DOMAIN emitted : emitted[i].event \in Int
  <2>1. \A i \in DOMAIN emitted : emitted[i] \in Traces
    BY <1>1
  <2> QED BY <1>1, <1>4, <2>1, MailboxAssumption DEF Traces, LinesTrue
<1>9. record \notin strays
  BY <1>1, <1>3, <1>8 DEF Sequel, StraysHandled, Emitted
<1>10. QueueLater'
  <2> SUFFICES ASSUME NEW k \in 1 .. Waiting, NEW i \in DOMAIN emitted'
               PROVE  emitted'[i].event < Queue[k].event \/ emitted'[i] \in strays'
    BY DEF QueueLater
  <2>1. ~CriticalEnrolled
    BY <1>7
  <2>2. CASE i \in DOMAIN emitted
    <3>1. ~Handling
      BY <1>1 DEF Handling, At
    <3> QED BY <1>1, <1>6, <2>2, <3>1 DEF Sequel, QueueLater
  <2>3. CASE i = Len(emitted) + 1
    BY <1>6, <1>7, <2>1, <2>3
  <2> QED BY <1>6, <2>2, <2>3
<1>11. ComingLater'
  <2> SUFFICES ASSUME Coming, NEW i \in DOMAIN emitted'
               PROVE  emitted'[i].event < line.event \/ emitted'[i] \in strays'
    BY <1>1 DEF ComingLater
  <2>1. CASE i \in DOMAIN emitted
    BY <1>1, <1>6, <2>1 DEF Sequel, ComingLater
  <2>2. CASE i = Len(emitted) + 1
    <3>1. CASE CriticalEnrolled
      <4>1. line \in published /\ LmPhaseCritical(line)
        BY DEF Coming, RingInv, ControlsTrue, Storing, TypeInv, PollShape, Putting
      <4>2. line # record
        BY <1>7, <3>1, <4>1
      <4>3. record.event # line.event
        BY <1>1, <4>1, <4>2 DEF LinesTrue
      <4> QED BY <1>3, <1>6, <1>8, <2>2, <4>3
    <3>2. CASE ~CriticalEnrolled
      BY <1>6, <1>7, <2>2, <3>2
    <3> QED BY <3>1, <3>2
  <2> QED BY <1>6, <2>1, <2>2
<1>12. LineLast'
  <2> SUFFICES ASSUME NEW i \in DOMAIN emitted', ~LmPhaseCritical(emitted'[i])
               PROVE  /\ emitted'[i].event = trace.event => i = Len(emitted')
                      /\ emitted'[i] \in strays' => emitted'[i].event < trace.event \/ Broken
    BY <1>1 DEF LineLast, Broken, LmCriticalControlValid
  <2>1. CASE i \in DOMAIN emitted
    BY <1>3, <1>6, <1>8, <2>1
  \* It is as late as the line only when the next record cannot follow it.
  <2>2. CASE i = Len(emitted) + 1
    <3> SUFFICES ASSUME record \in strays', ~Broken PROVE record.event < trace.event
      BY <1>6, <2>2
    <3>1. ~LmCriticalControlValid(producer)
      <4>1. ~CriticalEnrolled /\ LmCriticalControlValid(released)
        BY <1>1, <1>7, <1>9 DEF ControlsTrue, At
      <4> QED BY <4>1 DEF CriticalEnrolled
    <3>2. In("INVERSE")
      <4>1. ~In("OFF")
        BY <1>2 DEF RingInv, TypeInv, Enrolment
      <4> QED BY <3>1, <4>1 DEF Broken, In
    <3>3. line \in published /\ LmPhaseCritical(line)
      BY <3>2 DEF RingInv, Storing, TypeInv, PollShape, Putting, In
    <3>4. ~LmPhaseCritical(record)
      BY <1>6, <2>2
    <3>5. record.event # line.event /\ line.event <= trace.event
      BY <1>1, <3>3, <3>4 DEF LinesTrue
    <3> QED BY <1>3, <1>8, <3>5
  <2> QED BY <1>6, <2>1, <2>2
<1>13. StraysHandled'
  <2> SUFFICES ASSUME NEW other \in strays'
               PROVE  \E i \in DOMAIN emitted' : emitted'[i] = other
    BY DEF StraysHandled, Emitted
  <2>1. CASE other \in strays
    BY <1>1, <1>6, <2>1 DEF Sequel, StraysHandled, Emitted
  <2>2. CASE other = record
    <3>1. Len(emitted) + 1 \in DOMAIN emitted'
      BY <1>1, <1>6
    <3> QED BY <1>6, <2>2, <3>1
  <2> QED BY <1>7, <2>1, <2>2
<1> QED BY <1>5, <1>10, <1>11, <1>12, <1>13 DEF OrderInv, Sequel

LEMMA OrderStep ==
  ASSUME RingInv, OrderInv, NumbersFew', 4 * MaxEvents <= Span, [Next]_vars
  PROVE  OrderInv'
<1>1. /\ emitted \in Seq(Traces) /\ kernel \in Kernels /\ Waiting \in Nat /\ Sequel
      /\ DOMAIN Queue = 1 .. Waiting /\ TypeInv
  BY QueueShape DEF RingInv, TypeInv, RingTypeOK, OrderInv
\* What distinguishes a restart.
<1>0. Restart => runs' # runs /\ cpu'.stage = "OFF"
  <2>1. Restart => runs' = runs + 1 /\ cpu' = NoCpu(cpu.event)
    BY DEF Restart
  <2>2. runs \in Int
    BY SystemAssumption DEF RingInv, TypeInv, RingTypeOK
  <2> QED BY <2>1, <2>2 DEF NoCpu
<1>2. CASE Game
  <2>1. /\ UNCHANGED <<kernel, emitted, strays>>
        /\ Coming' => (Coming /\ line' = line) \/ \A record \in published : record.event < line'.event
        /\ \/ Waiting' = Waiting /\ Queue' = Queue
           \/ /\ Ahead /\ Waiting' = Waiting + 1 /\ Queue'[Waiting + 1] = line
              /\ \A i \in 1 .. Waiting : Queue'[i] = Queue[i]
    BY <1>2, ComingSteps
  <2>2. QueueLater'
    <3> SUFFICES ASSUME NEW k \in 1 .. Waiting', NEW i \in DOMAIN emitted
                 PROVE  \/ emitted[i].event < Queue'[k].event \/ emitted[i] \in strays
                        \/ k = 1 /\ Handling
      BY <2>1 DEF QueueLater, Handling, At
    <3>1. CASE k \in 1 .. Waiting /\ Queue'[k] = Queue[k]
      BY <1>1, <3>1 DEF Sequel, QueueLater
    <3>2. CASE Ahead /\ Queue'[k] = line
      BY <1>1, <3>2 DEF Sequel, ComingLater, Coming
    <3>3. k \in 1 .. Waiting \/ k = Waiting + 1
      BY <1>1, <2>1
    <3> QED BY <1>1, <2>1, <3>1, <3>2, <3>3
  <2>3. ~Restart
    BY <1>0, <1>2 DEF Game
  <2> QED BY <2>1, <2>2, <2>3, OrderQuiet DEF At
<1>3. CASE Start \/ Reset
  <2>1. /\ CrashInit /\ UNCHANGED <<kernel, emitted, strays, released, entries>>
    BY <1>3 DEF Start, Reset, CrashInit, kernelVars
  <2>2. control' = producer' /\ producer'.cursor = producer.cursor
    BY <1>1, <1>3, <2>1, Attached
  <2>3. Waiting' = Waiting /\ Queue' = Queue
    BY <2>1, <2>2, QueueSame
  <2>4. cpu'.stage = "RUN"
    BY <2>1 DEF CrashInit, RingInv, TypeInv, RingTypeOK, GameTypeOK, Cpus
  <2>5. ~Coming' /\ ~Restart
    BY <1>0, <2>2, <2>4 DEF Coming, Ahead
  <2>6. QueueLater'
    BY <1>1, <2>1, <2>3 DEF Sequel, QueueLater, Handling, At
  <2> QED BY <2>1, <2>5, <2>6, OrderQuiet DEF At
<1>4. CASE Restart
  <2>1. emitted' = <<>> /\ strays' = {} /\ kernel' = FreshKernel
    BY <1>4 DEF Restart
  <2>2. Statics' /\ EmittedInOrder'
    BY <2>1 DEF Statics, EmittedInOrder, FreshKernel
  <2>3. Sequel'
    BY <2>1 DEF Sequel, QueueLater, ComingLater, LineLast, StraysHandled
  <2> QED BY <2>2, <2>3 DEF OrderInv
<1>5. CASE UNCHANGED vars
  <2>1. /\ UNCHANGED <<kernel, emitted, strays, line, cpu, producer, released, entries, control>>
    BY <1>5 DEF vars, mailboxVars, ringVars, gameVars, kernelVars
  <2>2. Waiting' = Waiting /\ Queue' = Queue /\ (Coming' <=> Coming)
    BY <2>1, QueueSame DEF Coming, Ahead
  <2>3. QueueLater'
    BY <1>1, <2>1, <2>2 DEF Sequel, QueueLater, Handling, At
  <2>4. ~Restart
    BY <1>0, <1>5 DEF vars
  <2> QED BY <2>1, <2>2, <2>3, <2>4, OrderQuiet DEF At
<1>6. CASE Kernel
  <2>1. /\ UNCHANGED <<trace, producer, line, cpu>> /\ (Coming' <=> Coming) /\ KernelNext
        /\ ~Acknowledge => Waiting' = Waiting /\ Queue' = Queue
        /\ ~Recheck => strays' = strays
    BY <1>6, KernelFrame, HistoryGrows
  <2>2. ~Restart
    BY <1>0, <1>6 DEF Kernel
  <2>3. ASSUME UNCHANGED <<emitted, strays>>, QueueLater',
               kernel'.lastPhase = kernel.lastPhase, kernel'.lastCritical = kernel.lastCritical,
               At("RECHECK")' => \/ At("RECHECK") /\ kernel'.snapshot = kernel.snapshot
                                 \/ kernel'.snapshot = trace
        PROVE  OrderInv'
    BY <2>1, <2>2, <2>3, OrderQuiet
  <2>4. ASSUME ~Acknowledge, emitted' = emitted, strays' = strays, Handling => Handling'
        PROVE  QueueLater'
    BY <1>1, <2>1, <2>4 DEF Sequel, QueueLater
  <2>5. CASE Acknowledge
    <3>1. /\ CriticalAcknowledge /\ Handling /\ ~Handling' /\ Waiting > 0
          /\ UNCHANGED <<emitted, strays>> /\ kernel'.stage = "RELEASE"
          /\ kernel'.lastPhase = kernel.lastPhase /\ kernel'.lastCritical = kernel.lastCritical
      <4>1. Handling /\ ~Handling'
        BY <1>1, <1>6, <2>5, HandlingSteps
      <4> QED BY <1>1, <2>5, <4>1 DEF Acknowledge, Goto, Kernels, RingInv, RingOrdered
    <3>2. /\ Waiting' = Waiting - 1
          /\ \A i \in 1 .. Waiting - 1 : Queue'[i] = Queue[i + 1]
      BY <1>1, <3>1, QueueTail
    <3>3. QueueLater'
      <4> SUFFICES ASSUME NEW k \in 1 .. Waiting', NEW i \in DOMAIN emitted
                   PROVE  emitted[i].event < Queue'[k].event \/ emitted[i] \in strays
        BY <3>1 DEF QueueLater
      <4>1. k + 1 \in 1 .. Waiting /\ k + 1 # 1 /\ Queue'[k] = Queue[k + 1]
        BY <1>1, <3>1, <3>2
      <4> QED BY <1>1, <4>1 DEF Sequel, QueueLater
    <3> QED BY <2>3, <3>1, <3>3 DEF At
  <2>6. CASE Release
    <3>1. /\ ~Handling /\ UNCHANGED <<emitted, strays>> /\ kernel'.stage = "DRAIN" /\ ~Acknowledge
          /\ kernel'.lastPhase = kernel.lastPhase /\ kernel'.lastCritical = kernel.lastCritical
      <4>1. ~Handling
        BY <1>1, <1>6, <2>6, HandlingSteps
      <4>2. At("RELEASE")
        BY <2>6 DEF Release
      <4> QED BY <1>1, <2>6, <4>1, <4>2 DEF Release, Done, Kernels, Acknowledge, At
    <3> QED BY <2>3, <2>4, <3>1 DEF At
  <2>7. CASE WriteBackConsumer
    <3>1. UNCHANGED <<kernel, emitted, strays>>
      BY <2>7 DEF WriteBackConsumer, kernelVars
    <3>2. ~Acknowledge /\ (Handling => Handling')
      BY <1>1, <3>1 DEF Acknowledge, Goto, At, Kernels, Handling
    <3> QED BY <2>3, <2>4, <3>1, <3>2 DEF At
  <2>8. CASE Sample
    <3>1. /\ kernel'.snapshot = trace /\ UNCHANGED <<emitted, strays>> /\ ~Handling /\ ~Acknowledge
          /\ kernel'.lastPhase = kernel.lastPhase /\ kernel'.lastCritical = kernel.lastCritical
      BY <1>1, <2>8 DEF Sample, Handling, At, Acknowledge, Kernels
    <3> QED BY <2>3, <2>4, <3>1
  <2>9. CASE Drain /\ ~Acknowledge /\ ~Release /\ ~WriteBackConsumer /\ ~Sample
    <3>1. ~Handling /\ ~At("RECHECK")' /\ strays' = strays
      BY <1>1, <1>6, <2>9, HandlingSteps DEF Drain
    <3>2. CASE kernel.count < DrainMax /\ CriticalPeek
      <4>1. /\ EmitPhaseTrace(entries[Slot(released.cursor)], "ACK") /\ Waiting > 0
        BY <1>1, <2>9, <3>2, MailboxAssumption DEF Drain, CriticalPeek
      <4>2. EmitPhaseTrace(Queue[1], "ACK") /\ Queue[1] \in Traces
        BY <1>1, <4>1, QueueHead, QueueShape
      <4>3. CASE Stale(Queue[1])
        <5>1. emitted' = emitted /\ kernel'.lastPhase = kernel.lastPhase
              /\ kernel'.lastCritical = kernel.lastCritical
          BY <1>1, <4>2, <4>3, Emission
        <5> QED BY <2>3, <2>4, <2>9, <3>1, <5>1
      <4>4. CASE ~Stale(Queue[1])
        <5>1. kernel'.stage \in {"CREATE", "ANCHOR", "EXTEND", "ACK"}
              /\ (kernel'.stage \in {"CREATE", "ANCHOR", "EXTEND"} => kernel'.back = "ACK")
          BY <1>1, <4>2, Emission
        <5>2. Handling'
          BY <5>1 DEF Handling, At
        <5> QED BY <1>6, <2>1, <2>9, <3>1, <3>2, <4>1, <4>2, <4>4, <5>2, OrderFromRing
      <4> QED BY <4>3, <4>4
    <3>3. CASE ~(kernel.count < DrainMax /\ CriticalPeek)
      <4>1. emitted' = emitted /\ kernel'.lastPhase = kernel.lastPhase
            /\ kernel'.lastCritical = kernel.lastCritical
        BY <1>1, <2>9, <3>3 DEF Drain, Goto, Kernels
      <4> QED BY <2>3, <2>4, <2>9, <3>1, <4>1
    <3> QED BY <3>2, <3>3
  <2>10. CASE Recheck /\ ~Acknowledge /\ ~Release /\ ~WriteBackConsumer /\ ~Sample
    <3>1. ~Handling /\ ~At("RECHECK")'
      <4>1. ~Handling
        BY <2>10 DEF Recheck, Handling, At
      <4> QED BY <1>1, <1>6, <2>10, <4>1, HandlingSteps
    <3>2. CASE /\ ~Queued /\ TraceValid
               /\ kernel.lastPhase = 0 \/ Newer(kernel.snapshot.begin, kernel.lastPhase)
      <4>1. EmitPhaseTrace(kernel.snapshot, "CHECK")
        BY <2>10, <3>2 DEF Recheck
      <4> QED BY <1>6, <2>1, <2>10, <3>1, <3>2, <4>1, OrderFromSample
    <3>3. CASE ~(/\ ~Queued /\ TraceValid
                 /\ kernel.lastPhase = 0 \/ Newer(kernel.snapshot.begin, kernel.lastPhase))
      <4>1. Goto("CHECK") /\ emitted' = emitted /\ strays' = strays
        BY <2>10, <3>3 DEF Recheck
      <4>2. kernel'.lastPhase = kernel.lastPhase /\ kernel'.lastCritical = kernel.lastCritical
        BY <1>1, <4>1 DEF Goto, Kernels
      <4> QED BY <2>3, <2>4, <2>10, <3>1, <4>1, <4>2
    <3> QED BY <3>2, <3>3
  <2>11. CASE /\ ~Acknowledge /\ ~Release /\ ~WriteBackConsumer /\ ~Sample
              /\ ~Drain /\ ~Recheck
    <3>1. /\ UNCHANGED <<emitted, strays>> /\ (Handling' <=> Handling) /\ ~At("RECHECK")'
          /\ kernel'.lastPhase = kernel.lastPhase /\ kernel'.lastCritical = kernel.lastCritical
      BY <1>1, <1>6, <2>1, <2>11, HandlingSteps
    <3> QED BY <2>3, <2>4, <2>11, <3>1
  <2> QED BY <2>5, <2>6, <2>7, <2>8, <2>9, <2>10, <2>11
<1> QED BY <1>2, <1>3, <1>4, <1>5, <1>6 DEF Next

LEMMA OrderStart ==
  ASSUME Init
  PROVE  OrderInv
<1>1. /\ emitted = <<>> /\ strays = {} /\ kernel = FreshKernel /\ published = {} /\ cpu = NoCpu(0)
  BY DEF Init
<1>2. NumbersFew
  BY <1>1 DEF NumbersFew, NoCpu
<1>3. Statics /\ EmittedInOrder
  BY <1>1 DEF Statics, EmittedInOrder, FreshKernel
<1>4. Sequel
  BY <1>1 DEF Sequel, QueueLater, ComingLater, LineLast, StraysHandled
<1> QED BY <1>2, <1>3, <1>4 DEF OrderInv

LEMMA OrderHolds ==
  ASSUME 4 * MaxEvents <= Span
  PROVE  Spec => []OrderInv
<1>1. Init => OrderInv
  BY OrderStart
<1>2. RingInv /\ OrderInv /\ [Next]_vars => OrderInv'
  <2> SUFFICES ASSUME RingInv, OrderInv, [Next]_vars PROVE OrderInv'
    OBVIOUS
  <2>1. NumbersFew'
    BY NumbersStep DEF OrderInv
  <2> QED BY <2>1, OrderStep
<1> QED BY <1>1, <1>2, RingHolds, PTL DEF Spec

\* As long as the numbers have not come half way round the span, phases are handled
\* in the order in which the game published them, each once, though the poll takes
\* them from a ring and from a line that the game goes on storing, at any step of
\* either, over resets of the game at any instruction.  What is sampled past a ring
\* whose control line is torn in memory may overtake critical records that wait in
\* it, and nothing else may.
THEOREM EmissionsAreInOrder ==
  ASSUME 4 * MaxEvents <= Span
  PROVE  Spec => []EmittedInOrder
<1>1. OrderInv => EmittedInOrder
  BY DEF OrderInv
<1> QED BY <1>1, OrderHolds, PTL

-----------------------------------------------------------------------------
(* What gets into the ring is not lost.                                    *)

\* Once a record has been handled, or passed over, it stays so.
LEMMA SettledStays ==
  ASSUME NEW record,
         \A i \in DOMAIN emitted : i \in DOMAIN emitted' /\ emitted'[i] = emitted[i],
         strays \subseteq strays'
  PROVE  /\ Emitted(record) => Emitted(record)'
         /\ PassedOver(record) => PassedOver(record)'
BY DEF Emitted, PassedOver

LEMMA QueuedStays ==
  ASSUME NEW record, TypeInv, Waiting' \in Nat, Waiting <= Waiting',
         \A i \in 1 .. Waiting : Queue'[i] = Queue[i]
  PROVE  InQueue(record) => InQueue(record)'
<1>1. /\ DOMAIN Queue = 1 .. Waiting /\ DOMAIN Queue' = 1 .. Waiting'
      /\ Waiting \in Nat
  BY QueueShape DEF Queue
<1>2. \A i \in 1 .. Waiting : i \in 1 .. Waiting'
  BY <1>1
<1> QED BY <1>1, <1>2 DEF InQueue

\* A record that the game was putting is lost with it, unless memory already has,
\* or may still get, its cursor.
LEMMA LostSteps ==
  ASSUME RingInv, KeptSoFar, Game
  PROVE  /\ lost \subseteq lost' /\ (published' = published \/ StoreEnd)
         /\ StoreEnd => /\ published' = published \cup {line'} /\ ~Coming
                        /\ LmPhaseCritical(line') => Coming'
         /\ \/ Coming' /\ line' = line
            \/ ~Coming
            \/ line \in lost'
            \/ Ahead /\ (PutInverse \/ WriteBackControl)
         /\ Ahead' => cpu'.stage = "INVERSE" \/ line' \in lost'
<1>1. /\ cpu \in Cpus /\ line \in Traces /\ control \in Controls /\ producer \in Controls
      /\ ControlsTrue /\ GameNext /\ (Ahead => In("INVERSE") \/ line \in lost)
  BY DEF RingInv, TypeInv, RingTypeOK, MailboxTypeOK, GameTypeOK, Game, KeptSoFar
<1>2. CASE ~RingStore
  <2>1. Ahead' <=> Ahead
    BY <1>1, <1>2, RingAlone DEF ringVars, Ahead
  <2>2. CASE (\E kind \in Kinds : OpenPhase(kind)) \/ StoreBody \/ StoreBegin
    <3>1. /\ cpu.stage \in {"RUN", "BODY", "BEGIN"} /\ UNCHANGED <<published, lost>>
          /\ ~StoreEnd
      <4>1. cpu.stage \in {"RUN", "BODY", "BEGIN"} /\ UNCHANGED <<published, lost>>
        BY <2>2 DEF OpenPhase, StoreBody, StoreBegin, In
      <4> QED BY <4>1 DEF StoreEnd, In
    <3>2. ~Coming /\ ~Ahead
      BY <1>1, <3>1 DEF Coming, ControlsTrue, Ahead
    <3> QED BY <2>1, <3>1, <3>2
  <2>3. CASE StoreEnd
    <3>1. /\ cpu.stage = "END" /\ lost' = lost /\ published' = published \cup {line'}
          /\ cpu'.stage = (IF LmPhaseCritical(line') THEN "QUEUE" ELSE "RUN")
      BY <1>1, <2>3 DEF StoreEnd, In, To, Cpus
    <3>2. ~Coming /\ ~Ahead
      BY <1>1, <3>1 DEF Coming, ControlsTrue, Ahead
    <3> QED BY <2>1, <2>3, <3>1, <3>2 DEF Coming
  <2>4. CASE Refuse \/ Capture
    <3>1. /\ UNCHANGED <<published, line>> /\ lost \subseteq lost' /\ ~StoreEnd
          /\ Putting => line \in lost'
          /\ cpu'.stage \in {"RUN", "SEAL"} /\ (Refuse => In("QUEUE"))
      <4>1. CASE Refuse
        BY <1>1, <4>1 DEF Refuse, StoreEnd, In, To, Cpus
      <4>2. CASE Capture
        <5>1. /\ UNCHANGED <<published, line>> /\ lost' = lost \cup CutShort
              /\ cpu'.stage = "SEAL"
          BY <1>1, <4>2 DEF Capture, Cpus
        <5>2. ~StoreEnd /\ ~Refuse
          <6>1. Cpus = Cpus /\ (StoreEnd \/ Refuse => cpu'.stage \in {"RUN", "QUEUE"})
            BY <1>1 DEF StoreEnd, Refuse, To, Cpus
          <6> QED BY <5>1, <6>1
        <5> QED BY <5>1, <5>2 DEF CutShort
      <4> QED BY <2>4, <4>1, <4>2
    <3>2. Ahead => line \in lost'
      BY <1>1, <3>1 DEF Putting, In
    <3>3. Coming => line \in lost'
      BY <3>1, <3>2 DEF Coming, Putting
    <3> QED BY <2>1, <3>1, <3>2, <3>3
  <2>5. CASE WriteBack \/ WriteBackReport \/ Seal
    <3>1. /\ UNCHANGED <<published, lost, line>>
          /\ cpu' = cpu \/ (cpu.stage = "SEAL" /\ cpu'.stage = "DEAD")
      BY <1>1, <2>5 DEF WriteBack, WriteBackReport, Seal, To, In, Cpus, gameVars
    <3>2. ~StoreEnd
      <4>1. StoreEnd => cpu.stage = "END" /\ cpu'.stage \in {"RUN", "QUEUE"}
        BY <1>1 DEF StoreEnd, To, In, Cpus
      <4> QED BY <3>1, <4>1
    <3> QED BY <1>1, <2>1, <3>1, <3>2 DEF Coming, In
  <2> QED BY <1>1, <1>2, <2>2, <2>3, <2>4, <2>5 DEF GameNext, RingStore
<1>3. CASE CountDropped
  <2>1. /\ UNCHANGED <<published, line, producer>> /\ lost' = lost \cup {line} /\ In("QUEUE")
        /\ control' = Counted(control) /\ control = producer
    BY <1>1, <1>3 DEF CountDropped, In, ControlsTrue
  <2>2. ~Ahead'
    BY <1>1, <2>1, ControlStores DEF Ahead
  <2> QED BY <2>1, <2>2 DEF StoreEnd, In
<1>4. CASE PutEntry \/ PutCursor
  <2>1. /\ UNCHANGED <<published, line, producer, lost>> /\ cpu.stage \in {"QUEUE", "CURSOR"}
        /\ control = producer
    BY <1>1, <1>4 DEF PutEntry, PutCursor, In, ControlsTrue
  <2>2. CASE PutEntry
    <3>1. cpu'.stage = "CURSOR" /\ control' = control
      BY <1>1, <2>2 DEF PutEntry, To, Cpus
    <3> QED BY <2>1, <3>1 DEF StoreEnd, In, Coming, Ahead
  <2>3. CASE PutCursor
    <3>1. /\ cpu'.stage = "INVERSE" /\ control'.cursor = (producer.cursor + 1) % CursorSpan
          /\ producer.cursor \in 0 .. CursorSpan - 1 /\ CursorSpan \in Nat /\ CursorSpan > 1
      BY <1>1, <2>1, <2>3, ControlStores, MailboxAssumption DEF PutCursor, To, Cpus, Cursors
    <3>2. (producer.cursor + 1) % CursorSpan # producer.cursor
      BY <3>1, ModNext
    <3> QED BY <2>1, <3>1, <3>2 DEF StoreEnd, In, Coming, Ahead
  <2> QED BY <1>4, <2>2, <2>3
<1>5. CASE PutInverse \/ WriteBackControl
  <2>1. /\ UNCHANGED <<published, line, lost>> /\ control' = producer'
        /\ cpu.stage \in {"INVERSE", "SEAL", "DEAD"}
    <3>1. CASE PutInverse
      BY <3>1 DEF PutInverse, In
    <3>2. CASE WriteBackControl
      BY <1>1, <3>2 DEF WriteBackControl, gameVars, ControlsTrue
    <3> QED BY <1>5, <3>1, <3>2
  <2>2. ~Ahead' /\ (Coming => Ahead)
    BY <2>1 DEF Ahead, Coming
  <2> QED BY <1>5, <2>1, <2>2 DEF StoreEnd, In
<1> QED BY <1>2, <1>3, <1>4, <1>5 DEF RingStore

\* The game does not touch what is settled.
LEMMA KeptByGame ==
  ASSUME RingInv, HeadSettled, KeptSoFar, Game
  PROVE  HeadSettled' /\ KeptSoFar'
<1>1. /\ UNCHANGED <<kernel, emitted, strays>> /\ Waiting \in Nat /\ Waiting' \in Nat
      /\ (Waiting' = Waiting /\ Queue' = Queue)
         \/ (/\ Ahead /\ Waiting' = Waiting + 1 /\ Queue'[Waiting + 1] = line
             /\ \A i \in 1 .. Waiting : Queue'[i] = Queue[i])
      /\ TypeInv
  <2>1. Waiting \in Nat /\ TypeInv
    BY QueueShape DEF RingInv
  <2> QED BY <2>1, ComingSteps
<1>2. Waiting <= Waiting' /\ \A i \in 1 .. Waiting : Queue'[i] = Queue[i]
  BY <1>1
<1>3. HeadSettled'
  <2> SUFFICES ASSUME Handling' PROVE Emitted(Queue[1])' \/ PassedOver(Queue[1])'
    BY DEF HeadSettled
  <2>1. Handling /\ 1 \in 1 .. Waiting
    BY <1>1 DEF Handling, At, RingInv, RingOrdered
  <2>2. Queue'[1] = Queue[1]
    BY <1>2, <2>1
  <2>3. Emitted(Queue[1]) \/ PassedOver(Queue[1])
    BY <2>1 DEF HeadSettled
  <2> QED BY <1>1, <2>2, <2>3 DEF Emitted, PassedOver
<1>4. ASSUME NEW record \in published' \ lost', LmPhaseCritical(record)
      PROVE  \/ Emitted(record)' \/ InQueue(record)' \/ (Coming' /\ record = line')
             \/ PassedOver(record)'
  <2>1. CASE record \in published
    <3>1. record \notin lost
      BY <1>4, LostSteps
    <3>2. \/ Emitted(record) \/ InQueue(record) \/ (Coming /\ record = line) \/ PassedOver(record)
      BY <1>4, <2>1, <3>1 DEF KeptSoFar
    <3>3. CASE Emitted(record) \/ InQueue(record) \/ PassedOver(record)
      BY <1>1, <1>2, <3>3, SettledStays, QueuedStays
    <3>4. CASE Coming /\ record = line
      <4>1. CASE Coming' /\ line' = line
        BY <3>4, <4>1
      <4>2. CASE Ahead /\ (PutInverse \/ WriteBackControl)
        <5>1. Waiting' = Waiting + 1 /\ Queue'[Waiting + 1] = line
          BY <4>2, QueueAppend
        <5>2. Waiting + 1 \in DOMAIN Queue'
          BY <1>1, <5>1 DEF Queue
        <5> QED BY <3>4, <5>1, <5>2 DEF InQueue
      <4> QED BY <1>4, <3>4, <4>1, <4>2, LostSteps
    <3> QED BY <3>2, <3>3, <3>4
  <2>2. CASE record \notin published
    BY <1>4, <2>2, LostSteps
  <2> QED BY <2>1, <2>2
<1>5. Ahead' => In("INVERSE")' \/ line' \in lost'
  BY LostSteps DEF In
<1> QED BY <1>3, <1>4, <1>5 DEF KeptSoFar

LEMMA KeptByKernel ==
  ASSUME RingInv, OrderInv, 4 * MaxEvents <= Span, HeadSettled, KeptSoFar, Kernel
  PROVE  HeadSettled' /\ KeptSoFar'
<1>1. /\ UNCHANGED <<line, cpu, published, lost>> /\ (Coming' <=> Coming) /\ (Ahead' <=> Ahead)
      /\ \A i \in DOMAIN emitted : i \in DOMAIN emitted' /\ emitted'[i] = emitted[i]
      /\ strays \subseteq strays'
      /\ ~Acknowledge => Waiting' = Waiting /\ Queue' = Queue
      /\ TypeInv /\ Waiting \in Nat /\ DOMAIN Queue = 1 .. Waiting
      /\ DOMAIN Queue' = 1 .. Waiting' /\ kernel \in Kernels /\ emitted \in Seq(Traces)
  <2>1. /\ TypeInv /\ Waiting \in Nat /\ DOMAIN Queue = 1 .. Waiting
        /\ DOMAIN Queue' = 1 .. Waiting' /\ kernel \in Kernels /\ emitted \in Seq(Traces)
    BY QueueShape DEF RingInv, TypeInv, RingTypeOK, Queue
  <2> QED BY <2>1, KernelFrame, HistoryGrows
<1>2. HeadSettled'
  <2> SUFFICES ASSUME Handling' PROVE Emitted(Queue[1])' \/ PassedOver(Queue[1])'
    BY DEF HeadSettled
  <2>1. ~Acknowledge
    BY <1>1, HandlingSteps
  <2>2. CASE Handling
    <3>1. 1 \in 1 .. Waiting /\ (Emitted(Queue[1]) \/ PassedOver(Queue[1]))
      BY <1>1, <2>2 DEF HeadSettled, RingInv, RingOrdered
    <3>2. PICK record \in Traces : record = Queue[1]
      BY <1>1, <3>1, QueueShape
    <3>3. Emitted(record)' \/ PassedOver(record)'
      BY <1>1, <3>1, <3>2, SettledStays
    <3>4. Queue'[1] = record
      BY <1>1, <2>1, <3>2
    <3> QED BY <3>3, <3>4 DEF Emitted, PassedOver
  \* The head was taken in this step.
  <2>3. CASE ~Handling
    <3>1. Drain /\ Waiting > 0 /\ EmitPhaseTrace(entries[Slot(released.cursor)], "ACK")
      <4>1. Drain
        <5>1. ~Release /\ ~WriteBackConsumer
          BY <1>1, <2>3, HandlingSteps
        <5> QED BY <1>1, <2>1, <2>3, <5>1, HandlingSteps
      <4> QED BY <1>1, <4>1, HandlingSteps
    <3>2. PICK record \in Traces : record = Queue[1]
      BY <1>1, <3>1, QueueHead, QueueShape
    <3>3. EmitPhaseTrace(record, "ACK") /\ Queue'[1] = record
      BY <1>1, <2>1, <3>1, <3>2, QueueHead
    <3>4. CASE Stale(record)
      <4>1. PassedOver(record)
        BY <2>3, <3>1, <3>2, <3>4, HeadIsLater
      <4>2. PassedOver(record)'
        BY <1>1, <4>1, SettledStays
      <4> QED BY <3>3, <4>2 DEF PassedOver
    <3>5. CASE ~Stale(record)
      <4>1. Len(emitted) + 1 \in DOMAIN emitted' /\ emitted'[Len(emitted) + 1] = record
        BY <1>1, <3>3, <3>5, Emission
      <4> QED BY <3>3, <4>1 DEF Emitted
    <3> QED BY <3>4, <3>5
  <2> QED BY <2>2, <2>3
<1>3. ASSUME NEW record \in published' \ lost', LmPhaseCritical(record)
      PROVE  \/ Emitted(record)' \/ InQueue(record)' \/ (Coming' /\ record = line')
             \/ PassedOver(record)'
  <2>1. \/ Emitted(record) \/ InQueue(record) \/ (Coming /\ record = line) \/ PassedOver(record)
    BY <1>1, <1>3 DEF KeptSoFar
  <2>2. CASE Emitted(record) \/ PassedOver(record)
    BY <1>1, <2>2, SettledStays
  <2>3. CASE Coming /\ record = line
    BY <1>1, <2>3
  <2>4. CASE InQueue(record)
    <3>1. CASE ~Acknowledge
      BY <1>1, <2>4, <3>1 DEF InQueue
    <3>2. CASE Acknowledge
      <4>1. PICK i \in 1 .. Waiting : Queue[i] = record
        BY <1>1, <2>4 DEF InQueue
      <4>2. CASE i = 1
        <5>1. Handling
          BY <1>1, <3>2, HandlingSteps
        <5>2. Emitted(record) \/ PassedOver(record)
          BY <4>1, <4>2, <5>1 DEF HeadSettled
        <5> QED BY <2>2, <5>2
      <4>3. CASE i # 1
        <5>1. Waiting' = Waiting - 1 /\ \A k \in 1 .. Waiting - 1 : Queue'[k] = Queue[k + 1]
          BY <1>1, <3>2, <4>1, QueueTail DEF Acknowledge
        <5>2. i - 1 \in 1 .. Waiting - 1 /\ (i - 1) + 1 = i
          BY <1>1, <4>1, <4>3
        <5>3. i - 1 \in DOMAIN Queue' /\ Queue'[i - 1] = record
          BY <1>1, <4>1, <5>1, <5>2
        <5> QED BY <5>3 DEF InQueue
      <4> QED BY <4>2, <4>3
    <3> QED BY <3>1, <3>2
  <2> QED BY <2>1, <2>2, <2>3, <2>4
<1>4. Ahead' => In("INVERSE")' \/ line' \in lost'
  BY <1>1 DEF KeptSoFar, In
<1> QED BY <1>2, <1>3, <1>4 DEF KeptSoFar

LEMMA KeptStep ==
  ASSUME RingInv, OrderInv, 4 * MaxEvents <= Span, HeadSettled, KeptSoFar, [Next]_vars
  PROVE  HeadSettled' /\ KeptSoFar'
<1>1. CASE Game
  BY <1>1, KeptByGame
<1>2. CASE Kernel
  BY <1>2, KeptByKernel
<1>3. CASE Start \/ Reset
  <2>1. /\ CrashInit /\ UNCHANGED <<kernel, emitted, strays, published, released, entries>>
    BY <1>3 DEF Start, Reset, CrashInit, kernelVars
  <2>2. control' = producer' /\ producer'.cursor = producer.cursor
    BY <1>3, <2>1, Attached DEF RingInv
  <2>3. Waiting' = Waiting /\ Queue' = Queue /\ ~Ahead'
    BY <2>1, <2>2, QueueSame DEF Ahead
  <2>4. HeadSettled'
    BY <2>1, <2>3 DEF HeadSettled, Handling, At, Emitted, PassedOver
  <2>5. ASSUME NEW record \in published' \ lost', LmPhaseCritical(record)
        PROVE  Emitted(record)' \/ InQueue(record)' \/ PassedOver(record)'
    <3>1. Reset /\ lost' = lost \cup CutShort
      <4>1. Start => published = {}
        BY DEF Start, RingInv, TypeInv, Enrolment
      <4> QED BY <1>3, <2>1, <2>5, <4>1 DEF Reset
    <3>2. \/ Emitted(record) \/ InQueue(record) \/ (Coming /\ record = line) \/ PassedOver(record)
      BY <2>1, <2>5, <3>1 DEF KeptSoFar
    <3>3. ~(Coming /\ record = line)
      <4>1. Coming => Putting \/ line \in lost
        BY DEF Coming, KeptSoFar, Putting, In
      <4> QED BY <2>5, <3>1, <4>1 DEF CutShort
    <3> QED BY <2>1, <2>3, <3>2, <3>3 DEF Emitted, InQueue, PassedOver
  <2> QED BY <2>3, <2>4, <2>5 DEF KeptSoFar
<1>4. CASE Restart
  <2>1. /\ published' = {} /\ control' = producer' /\ kernel' = FreshKernel
    BY <1>4 DEF Restart
  <2>2. ~Ahead' /\ ~Handling'
    BY <2>1 DEF Ahead, Handling, At, FreshKernel
  <2> QED BY <2>1, <2>2 DEF HeadSettled, KeptSoFar
<1>5. CASE UNCHANGED vars
  <2>1. /\ UNCHANGED <<kernel, emitted, strays, line, cpu, producer, released, entries, control,
                       published, lost>>
    BY <1>5 DEF vars, mailboxVars, ringVars, gameVars, kernelVars
  <2>2. Waiting' = Waiting /\ Queue' = Queue /\ (Coming' <=> Coming) /\ (Ahead' <=> Ahead)
    BY <2>1, QueueSame DEF Coming, Ahead
  <2> QED
    BY <2>1, <2>2
       DEF HeadSettled, KeptSoFar, Handling, At, In, Emitted, InQueue, PassedOver
<1> QED BY <1>1, <1>2, <1>3, <1>4, <1>5 DEF Next

\* As long as the numbers have not come half way round the span, a critical phase
\* for which the ring had a place, and whose process lived to put it there past
\* control lines that held, is handled or waits in the ring, through resets at any
\* instruction, torn lines and a ring that wraps; or another critical phase was
\* handled before it whose number is no smaller: one that was sampled past the
\* ring, or an earlier one, of a process whose numbers were not carried on.
THEOREM CriticalsAreKept ==
  ASSUME 4 * MaxEvents <= Span
  PROVE  Spec => []CriticalKept
<1>1. Init => HeadSettled /\ KeptSoFar
  <2> SUFFICES ASSUME Init PROVE HeadSettled /\ KeptSoFar
    OBVIOUS
  <2>1. published = {} /\ control = producer /\ kernel = FreshKernel
    BY DEF Init
  <2>2. ~Ahead /\ ~Handling
    BY <2>1 DEF Ahead, Handling, At, FreshKernel
  <2> QED BY <2>1, <2>2 DEF HeadSettled, KeptSoFar
<1>2. RingInv /\ OrderInv /\ (HeadSettled /\ KeptSoFar) /\ [Next]_vars
      => (HeadSettled /\ KeptSoFar)'
  BY KeptStep
<1>3. KeptSoFar => CriticalKept
  <2> SUFFICES ASSUME KeptSoFar, NEW record \in published \ lost, LmPhaseCritical(record)
               PROVE  Emitted(record) \/ InQueue(record) \/ BeingPut(record) \/ PassedOver(record)
    BY DEF CriticalKept
  <2>1. \/ Emitted(record) \/ InQueue(record) \/ (Coming /\ record = line) \/ PassedOver(record)
    BY DEF KeptSoFar
  <2>2. Coming /\ record = line => BeingPut(record)
    BY DEF KeptSoFar, Coming, BeingPut, Putting, In
  <2> QED BY <2>1, <2>2
<1> QED BY <1>1, <1>2, <1>3, RingHolds, OrderHolds, PTL DEF Spec
=============================================================================
