--------------------------- MODULE LmCrashDumpProofs ---------------------------
(***************************************************************************)
(* What crash telemetry leaves on the card, for any number of dump files,  *)
(* failing calls, resets and power cuts: a dump is a run of the records in *)
(* their order, and what goes to make room for it is never the newest.     *)
(* Generations and report numbers count modulo a span and are compared by  *)
(* their signed difference, which orders no three numbers by itself.       *)
(***************************************************************************)
EXTENDS LmCrashRingProofs, WellFoundedInduction

-----------------------------------------------------------------------------
(* Generations: a circle of numbers that leaves out 0.                     *)

Generations == Numbers \ {0}
Half == Span \div 2

LEMMA SpanFacts ==
  /\ Span \in Nat \ {0} /\ Span % 2 = 0 /\ Span = 2 * Half /\ Half \in Nat /\ Half > 3
  /\ SlotCount \in Nat /\ 1 < SlotCount /\ SlotCount + 1 < Half
  /\ Numbers = 0 .. Span - 1 /\ Slots = 0 .. SlotCount - 1
BY MailboxAssumption, JournalAssumption DEF Half, Numbers, Slots

LEMMA Difference ==
  ASSUME NEW a \in Numbers, NEW b \in Numbers
  PROVE  Newer(b, a) <=> IF b >= a THEN b - a \in 1 .. Half - 1
                         ELSE b - a + Span \in 1 .. Half - 1
<1>1. (b - a) % Span = IF b >= a THEN b - a ELSE b - a + Span
  BY SpanFacts, ModDifference
<1> QED BY <1>1 DEF Newer, Half

\* The signed difference is an order of any two numbers.
LEMMA NewerOneWay ==
  ASSUME NEW a \in Numbers, NEW b \in Numbers, Newer(b, a)
  PROVE  ~Newer(a, b) /\ a # b
BY Difference, SpanFacts

LEMMA AgeFacts ==
  ASSUME NEW a \in Generations, NEW b \in Generations
  PROVE  /\ Age(a, b) \in 0 .. Span - 2
         /\ Age(a, b) = 0 <=> a = b
         /\ Age(a, b) \in 1 .. Half - 2 => Newer(b, a)
<1>1. a \in 1 .. Span - 1 /\ b \in 1 .. Span - 1 /\ a \in Numbers /\ b \in Numbers
  BY SpanFacts DEF Generations
<1>2. Age(a, b) \in 0 .. Span - 2 /\ (Age(a, b) = 0 <=> a = b)
  BY <1>1, SpanFacts DEF Age
<1>3. Age(a, b) \in 1 .. Half - 2 => Newer(b, a)
  BY <1>1, SpanFacts, Difference DEF Age
<1> QED BY <1>2, <1>3

LEMMA AgeDifference ==
  ASSUME NEW a \in Generations, NEW b \in Generations, NEW n \in Generations,
         Age(b, n) <= Age(a, n)
  PROVE  Age(a, b) = Age(a, n) - Age(b, n)
<1>1. a \in 1 .. Span - 1 /\ b \in 1 .. Span - 1 /\ n \in 1 .. Span - 1 /\ Span \in Nat
  BY SpanFacts DEF Generations
<1> QED BY <1>1 DEF Age

LEMMA NextFacts ==
  ASSUME NEW n \in Numbers
  PROVE  /\ NextGeneration(n) \in Generations /\ Newer(NextGeneration(n), n)
         /\ n # 0 => \A a \in Generations : Age(a, n) <= Half =>
              Age(a, NextGeneration(n)) = Age(a, n) + 1
<1>1. (n + 1) % Span = IF n + 1 = Span THEN 0 ELSE n + 1
  BY SpanFacts, ModNext
<1>2. NextGeneration(n) = IF n + 1 = Span THEN 1 ELSE n + 1
  BY <1>1, SpanFacts DEF NextGeneration
<1>3. NextGeneration(n) \in Generations /\ NextGeneration(n) \in Numbers
  BY <1>2, SpanFacts DEF Generations
<1>4. Newer(NextGeneration(n), n)
  BY <1>2, <1>3, SpanFacts, Difference
<1>5. ASSUME n # 0, NEW a \in Generations, Age(a, n) <= Half
      PROVE  Age(a, NextGeneration(n)) = Age(a, n) + 1
  BY <1>2, <1>5, SpanFacts DEF Age, Generations
<1> QED BY <1>3, <1>4, <1>5

-----------------------------------------------------------------------------
(* A card whose files rotate has a newest and an oldest dump.              *)

LEMMA LeastNatural ==
  ASSUME NEW T \in SUBSET Nat, T # {}
  PROVE  \E m \in T : \A n \in T : m <= n
<1>1. IsWellFoundedOn(OpToRel(<, Nat), Nat)
  BY NatLessThanWellFounded
<1>2. PICK m \in T : \A n \in T : <<n, m>> \notin OpToRel(<, Nat)
  <2>1. T \subseteq Nat
    OBVIOUS
  <2> QED BY <1>1, <2>1, WFMin
<1>3. \A n \in T : ~(n < m)
  BY <1>2 DEF OpToRel
<1> QED BY <1>3

LEMMA NewestIs ==
  ASSUME NEW G \in SUBSET Numbers, NEW g \in G, g # 0,
         \A h \in G \ {0, g} : Newer(g, h)
  PROVE  NewestOf(G) = g
<1> DEFINE above(n) == \A h \in G \ {0, n} : Newer(n, h)
           newest == CHOOSE n \in G \ {0} : above(n)
<1>1. newest \in G \ {0} /\ above(newest)
  <2>1. g \in G \ {0} /\ above(g)
    OBVIOUS
  <2> QED BY <2>1
<1>2. NewestOf(G) = newest
  BY DEF NewestOf
<1> HIDE DEF newest
<1>3. newest = g
  <2> SUFFICES ASSUME newest # g PROVE FALSE
    OBVIOUS
  <2>1. Newer(g, newest) /\ Newer(newest, g)
    BY <1>1
  <2> QED BY <1>1, <2>1, NewerOneWay
<1> QED BY <1>2, <1>3

LEMMA NoneUsed ==
  ASSUME NEW G, G \subseteq {0}
  PROVE  NewestOf(G) = 0
<1>1. G \ {0} = {}
  OBVIOUS
<1> QED BY <1>1 DEF NewestOf

LEMMA UnusedCount ==
  ASSUME NEW files \in [Slots -> Dumps]
  PROVE  /\ IsFiniteSet(Unused(files)) /\ Cardinality(Unused(files)) \in Nat
         /\ Cardinality(Unused(files)) <= SlotCount
         /\ Known(files) \subseteq Numbers
         /\ \A s \in Slots : files[s].generation \in Numbers
         /\ \A s \in Slots \ Unused(files) : files[s].generation \in Generations
<1>1. IsFiniteSet(Slots) /\ Cardinality(Slots) = SlotCount
  <2>1. IsFiniteSet(0 .. SlotCount - 1) /\ Cardinality(0 .. SlotCount - 1) = SlotCount
    BY SpanFacts, FS_Interval
  <2> QED BY <2>1, SpanFacts
<1>2. Unused(files) \subseteq Slots
  BY DEF Unused
<1>3. /\ IsFiniteSet(Unused(files)) /\ Cardinality(Unused(files)) <= SlotCount
      /\ Cardinality(Unused(files)) \in Nat
  BY <1>1, <1>2, FS_Subset, FS_CardinalityType
<1>4. \A s \in Slots : files[s].generation \in Numbers
  BY DEF Dumps
<1> QED BY <1>3, <1>4 DEF Known, Unused, Generations

\* The newest file, and how far behind it the others are.
LEMMA RotatedNewest ==
  ASSUME NEW files \in [Slots -> Dumps], Rotated(files)
  PROVE  /\ Unused(files) = Slots => NewestOf(Known(files)) = 0
         /\ Unused(files) # Slots =>
              /\ NewestOf(Known(files)) \in Generations
              /\ \E t \in Slots \ Unused(files) : files[t].generation = NewestOf(Known(files))
              /\ \A s \in Slots \ Unused(files) :
                   Age(files[s].generation, NewestOf(Known(files)))
                     + Cardinality(Unused(files)) <= Half - 2
         /\ NewestOf(Known(files)) \in Numbers
<1>1. CASE Unused(files) = Slots
  <2>1. Known(files) \subseteq {0}
    BY <1>1 DEF Known, Unused
  <2> QED BY <1>1, <2>1, NoneUsed, SpanFacts
<1>2. CASE Unused(files) # Slots
  <2>1. PICK t \in Slots \ Unused(files) : \A s \in Slots \ Unused(files) :
          Age(files[s].generation, files[t].generation) + Cardinality(Unused(files)) <= Half - 2
    BY <1>2 DEF Rotated, Half
  <2>2. /\ Known(files) \in SUBSET Numbers /\ files[t].generation \in Known(files)
        /\ files[t].generation \in Generations /\ Cardinality(Unused(files)) \in Nat
        /\ \A s \in Slots \ Unused(files) : files[s].generation \in Generations
    BY UnusedCount DEF Known
  <2>3. files[t].generation # 0
    BY <2>2 DEF Generations
  <2>4. ASSUME NEW h \in Known(files) \ {0, files[t].generation}
        PROVE  Newer(files[t].generation, h)
    <3>1. PICK s \in Slots \ Unused(files) : h = files[s].generation
      BY <2>4 DEF Known, Unused
    <3>2. Age(h, files[t].generation) \in 0 .. Span - 2 /\ Age(h, files[t].generation) # 0
      BY <2>2, <2>4, <3>1, AgeFacts
    <3>3. Age(h, files[t].generation) + Cardinality(Unused(files)) <= Half - 2
      BY <2>1, <3>1
    <3>4. Age(h, files[t].generation) \in 1 .. Half - 2
      BY <2>2, <3>2, <3>3, SpanFacts
    <3> QED BY <2>2, <3>1, <3>4, AgeFacts
  <2>5. NewestOf(Known(files)) = files[t].generation
    BY <2>2, <2>3, <2>4, NewestIs
  <2> QED BY <1>2, <2>1, <2>2, <2>5 DEF Generations
<1> QED BY <1>1, <1>2

\* Of two files the one further behind is the older.
LEMMA OlderIsBehind ==
  ASSUME NEW files \in [Slots -> Dumps], Rotated(files),
         NEW s \in Slots \ Unused(files), NEW t \in Slots \ Unused(files), s # t,
         Age(files[t].generation, NewestOf(Known(files)))
           <= Age(files[s].generation, NewestOf(Known(files)))
  PROVE  /\ Newer(files[t].generation, files[s].generation)
         /\ Age(files[t].generation, NewestOf(Known(files)))
              < Age(files[s].generation, NewestOf(Known(files)))
<1> DEFINE n == NewestOf(Known(files))
           a == files[s].generation
           b == files[t].generation
<1>1. /\ n \in Generations /\ a \in Generations /\ b \in Generations /\ a # b
      /\ Age(a, n) + Cardinality(Unused(files)) <= Half - 2
      /\ Cardinality(Unused(files)) \in Nat
  <2>1. Unused(files) # Slots /\ a # 0
    BY DEF Unused
  <2>2. a # b
    BY <2>1 DEF Rotated
  <2>3. n \in Generations /\ Age(a, n) + Cardinality(Unused(files)) <= Half - 2
    BY <2>1, RotatedNewest
  <2> QED BY <2>2, <2>3, UnusedCount
<1>2. Age(b, n) <= Age(a, n)
  OBVIOUS
<1> HIDE DEF a, b, n
<1>3. Age(a, b) = Age(a, n) - Age(b, n)
  BY <1>1, <1>2, AgeDifference
<1>4. /\ Age(a, b) \in 0 .. Span - 2 /\ Age(a, b) # 0 /\ Age(a, n) \in 0 .. Span - 2
      /\ Age(b, n) \in 0 .. Span - 2
  BY <1>1, AgeFacts
<1>5. Age(a, b) \in 1 .. Half - 2
  BY <1>1, <1>3, <1>4, SpanFacts
<1>6. Newer(b, a) /\ Age(b, n) < Age(a, n)
  BY <1>1, <1>2, <1>3, <1>4, <1>5, AgeFacts
<1> QED BY <1>6 DEF a, b, n

LEMMA OldestExists ==
  ASSUME NEW files \in [Slots -> Dumps], Rotated(files), Unused(files) = {}
  PROVE  \E s \in Slots : \A other \in Slots \ {s} :
           Newer(files[other].generation, files[s].generation)
<1> DEFINE n == NewestOf(Known(files))
           age(s) == Age(files[s].generation, n)
           T == {Span - age(s) : s \in Slots}
<1>1. 0 \in Slots /\ \A s \in Slots : s \in Slots \ Unused(files)
  BY SpanFacts
<1>2. \A s \in Slots : age(s) \in 0 .. Span - 2
  <2>1. n \in Generations /\ \A s \in Slots : files[s].generation \in Generations
    BY <1>1, RotatedNewest, UnusedCount
  <2> QED BY <2>1, AgeFacts
<1>3. PICK s \in Slots : \A t \in Slots : Span - age(s) <= Span - age(t)
  <2> HIDE DEF age
  <2>1. T \in SUBSET Nat /\ T # {}
    BY <1>1, <1>2, SpanFacts
  <2>2. \E m \in T : \A t \in T : m <= t
    BY <2>1, LeastNatural
  <2> QED BY <2>2
<1>4. \A t \in Slots : age(t) <= age(s)
  <2> HIDE DEF age
  <2> QED BY <1>2, <1>3, SpanFacts
<1>5. \A other \in Slots \ {s} : Newer(files[other].generation, files[s].generation)
  BY <1>1, <1>4, OlderIsBehind
<1> QED BY <1>5

\* BeginLmDump makes room: the file it takes was unused, or was the oldest.
LEMMA RoomMade ==
  ASSUME NEW files \in [Slots -> Dumps], Rotated(files), NEW target \in Slots,
         Unused(files) # {} => target \in Unused(files),
         Unused(files) = {} => \A other \in Slots \ {target} :
           Newer(files[other].generation, files[target].generation),
         NEW new, new = [files EXCEPT ![target] = Torn]
  PROVE  /\ new \in [Slots -> Dumps] /\ Rotated(new)
         /\ NewestOf(Known(new)) = NewestOf(Known(files))
<1>1. Torn \in Dumps /\ Torn.generation = 0
  BY SpanFacts DEF Torn, Dumps
<1>2. /\ new \in [Slots -> Dumps] /\ new[target].generation = 0
      /\ \A s \in Slots \ {target} : new[s] = files[s]
  BY <1>1
<1>3. CASE Unused(files) # {}
  <2>1. \A s \in Slots : new[s].generation = files[s].generation
    BY <1>2, <1>3 DEF Unused
  <2>2. Unused(new) = Unused(files) /\ Known(new) = Known(files)
    BY <2>1 DEF Unused, Known
  <2> QED BY <1>2, <2>1, <2>2 DEF Rotated
<1>4. CASE Unused(files) = {}
  <2> DEFINE n == NewestOf(Known(files))
             gen(s) == files[s].generation
  <2>1. \A s \in Slots : s \in Slots \ Unused(files) /\ gen(s) \in Generations
    BY <1>4, UnusedCount
  <2>2. Unused(files) # Slots /\ Cardinality(Unused(files)) = 0
    BY <1>4, SpanFacts, FS_EmptySet
  <2>3. PICK t \in Slots : gen(t) = n
    BY <2>2, RotatedNewest
  <2>4. n \in Generations /\ \A s \in Slots : Age(gen(s), n) \in 0 .. Half - 2
    <3>1. \A s \in Slots : Age(gen(s), n) + 0 <= Half - 2
      BY <2>1, <2>2, RotatedNewest
    <3>2. n \in Generations /\ \A s \in Slots : Age(gen(s), n) \in 0 .. Span - 2
      BY <2>1, <2>3, AgeFacts
    <3> QED BY <3>1, <3>2, SpanFacts
  <2>5. \A s \in Slots \ {target} : Age(gen(s), n) < Age(gen(target), n)
    <3> SUFFICES ASSUME NEW s \in Slots \ {target}, ~(Age(gen(s), n) < Age(gen(target), n))
                 PROVE  FALSE
      OBVIOUS
    <3>1. Age(gen(target), n) <= Age(gen(s), n)
      BY <2>4
    <3>2. Newer(gen(target), gen(s))
      BY <2>1, <3>1, OlderIsBehind
    <3>3. Newer(gen(s), gen(target))
      BY <1>4
    <3>4. gen(s) \in Numbers /\ gen(target) \in Numbers
      BY UnusedCount
    <3> HIDE DEF gen
    <3> QED BY <3>2, <3>3, <3>4, NewerOneWay
  <2>6. t # target
    <3>1. PICK s \in Slots : s # target
      BY SpanFacts
    <3>2. Age(gen(s), n) < Age(gen(target), n) /\ Age(gen(s), n) >= 0
      BY <2>4, <2>5, <3>1
    <3>3. Age(gen(target), n) # 0
      BY <2>4, <3>2
    <3>4. gen(target) # n
      BY <2>1, <2>4, <3>3, AgeFacts
    <3> QED BY <2>3, <3>4
  <2>7. /\ Unused(new) = {target} /\ Cardinality(Unused(new)) = 1 /\ Unused(new) # Slots
        /\ t \in Slots \ Unused(new)
    <3>1. Unused(new) = {target}
      BY <1>2, <1>4 DEF Unused
    <3> QED BY <2>6, <3>1, FS_Singleton
  <2>8. Rotated(new)
    <3>1. \A s, other \in Slots : new[s].generation = new[other].generation =>
            s = other \/ new[s].generation = 0
      BY <1>2, <1>4 DEF Rotated, Unused
    <3>2. \A s \in Slots \ Unused(new) :
            Age(new[s].generation, new[t].generation) + Cardinality(Unused(new))
              <= Span \div 2 - 2
      <4> SUFFICES ASSUME NEW s \in Slots, s # target
                   PROVE  Age(gen(s), n) + 1 <= Span \div 2 - 2
        BY <1>2, <2>3, <2>6, <2>7
      <4>1. Age(gen(s), n) < Age(gen(target), n)
        BY <2>5
      <4> QED BY <2>4, <4>1, SpanFacts DEF Half
    <3> QED BY <2>7, <3>1, <3>2 DEF Rotated
  <2>9. NewestOf(Known(new)) = n
    <3>1. Known(new) \in SUBSET Numbers
      BY <1>2, UnusedCount
    <3>2. n \in Known(new) /\ n # 0
      BY <1>2, <2>3, <2>4, <2>6 DEF Known, Generations
    <3>3. ASSUME NEW h \in Known(new) \ {0, n} PROVE Newer(n, h)
      <4>1. PICK s \in Slots \ {target} : h = gen(s)
        BY <1>2, <3>3 DEF Known
      <4>2. s # t /\ Age(gen(t), n) <= Age(gen(s), n)
        <5>1. Age(gen(t), n) = 0
          BY <2>1, <2>3, <2>4, AgeFacts
        <5> QED BY <2>3, <2>4, <3>3, <4>1, <5>1
      <4>3. Newer(gen(t), gen(s))
        BY <2>1, <4>2, OlderIsBehind
      <4> QED BY <2>3, <4>1, <4>3
    <3> HIDE DEF n
    <3> QED BY <3>1, <3>2, <3>3, NewestIs
  <2> QED BY <1>2, <2>8, <2>9
<1> QED BY <1>3, <1>4

\* The file started in the room carries the next generation, and is the newest.
Following(files) == NextGeneration(NewestOf(Known(files)))
Filled(files, target, record) == [files EXCEPT ![target] = Dump(Following(files), record)]

LEMMA RoomFilled ==
  ASSUME NEW files \in [Slots -> Dumps], Rotated(files), NEW target \in Unused(files),
         NEW record \in Traces
  PROVE  /\ Filled(files, target, record) \in [Slots -> Dumps]
         /\ Rotated(Filled(files, target, record))
         /\ NewestOf(Known(Filled(files, target, record))) = Following(files)
         /\ Following(files) \in Generations
         /\ Newer(Following(files), NewestOf(Known(files)))
<1> DEFINE n == NewestOf(Known(files))
           gen(s) == files[s].generation
           next == Following(files)
           new == Filled(files, target, record)
<1>0. next = NextGeneration(n) /\ new = [files EXCEPT ![target] = Dump(next, record)]
  BY DEF Following, Filled
<1> HIDE DEF next, new
<1>1. next \in Generations /\ next \in Numbers /\ Newer(next, n) /\ n \in Numbers
  <2>1. n \in Numbers
    BY RotatedNewest
  <2> QED BY <1>0, <2>1, NextFacts DEF Generations
<1>2. target \in Slots /\ gen(target) = 0
  BY DEF Unused
<1>3. /\ new \in [Slots -> Dumps] /\ new[target].generation = next
      /\ \A s \in Slots \ {target} : new[s] = files[s]
  <2>1. Dump(next, record) \in Dumps /\ Dump(next, record).generation = next
    BY <1>1 DEF Dump, Dumps
  <2> QED BY <1>0, <1>2, <2>1
<1>4. /\ Unused(new) = Unused(files) \ {target} /\ target \in Slots \ Unused(new)
      /\ Unused(new) # Slots
      /\ Cardinality(Unused(new)) = Cardinality(Unused(files)) - 1
      /\ Cardinality(Unused(files)) \in Nat
  <2>1. next # 0
    BY <1>1 DEF Generations
  <2>2. Unused(new) = Unused(files) \ {target}
    BY <1>2, <1>3, <2>1 DEF Unused
  <2>3. IsFiniteSet(Unused(files)) /\ Cardinality(Unused(files)) \in Nat
    BY UnusedCount
  <2>4. Cardinality(Unused(new)) = Cardinality(Unused(files)) - 1
    BY <2>2, <2>3, FS_RemoveElement
  <2> QED BY <1>2, <2>2, <2>3, <2>4
\* The files there were are behind by one more.
<1>5. ASSUME NEW s \in Slots \ Unused(files)
      PROVE  /\ gen(s) \in Generations /\ Age(gen(s), next) \in 1 .. Half - 2
             /\ Age(gen(s), next) + Cardinality(Unused(new)) <= Half - 2
  <2>1. gen(s) \in Generations /\ Unused(files) # Slots
    BY UnusedCount
  <2>2. n \in Generations /\ Age(gen(s), n) + Cardinality(Unused(files)) <= Half - 2
    BY <2>1, RotatedNewest
  <2>3. Age(gen(s), n) \in 0 .. Span - 2
    BY <2>1, <2>2, AgeFacts
  <2>4. 1 <= Cardinality(Unused(files))
    <3>1. Cardinality(Unused(new)) \in Nat
      BY <1>3, UnusedCount
    <3> QED BY <1>4, <3>1
  <2>5. Age(gen(s), n) <= Half /\ n # 0
    BY <1>4, <2>2, <2>3, <2>4, SpanFacts DEF Generations
  <2>6. Age(gen(s), next) = Age(gen(s), n) + 1
    BY <1>0, <1>1, <2>1, <2>5, NextFacts
  <2> HIDE DEF n, gen
  <2> QED BY <1>4, <2>1, <2>2, <2>3, <2>4, <2>6, SpanFacts
<1>6. \A s \in Slots \ Unused(files) : gen(s) # next
  <2> SUFFICES ASSUME NEW s \in Slots \ Unused(files), gen(s) = next PROVE FALSE
    OBVIOUS
  <2>1. Age(next, next) \in 1 .. Half - 2
    BY <1>5
  <2>2. Age(next, next) = 0
    BY <1>1, AgeFacts
  <2> QED BY <2>1, <2>2, SpanFacts
<1>7. Rotated(new)
  <2>1. \A s, other \in Slots : new[s].generation = new[other].generation =>
          s = other \/ new[s].generation = 0
    <3>1. \A s \in Slots \ {target} : gen(s) = next => gen(s) = 0
      BY <1>6 DEF Unused
    <3> QED BY <1>3, <3>1 DEF Rotated
  <2>2. \A s \in Slots \ Unused(new) :
          Age(new[s].generation, new[target].generation) + Cardinality(Unused(new))
            <= Span \div 2 - 2
    <3> SUFFICES ASSUME NEW s \in Slots \ Unused(new)
                 PROVE  Age(new[s].generation, next) + Cardinality(Unused(new)) <= Half - 2
      BY <1>3 DEF Half
    <3>1. CASE s # target
      BY <1>3, <1>4, <1>5, <3>1
    <3>2. CASE s = target
      <4>1. Age(next, next) = 0
        BY <1>1, AgeFacts
      <4>2. Cardinality(Unused(files)) <= SlotCount
        BY UnusedCount
      <4> QED BY <1>3, <1>4, <3>2, <4>1, <4>2, SpanFacts
    <3> QED BY <3>1, <3>2
  <2> QED BY <1>4, <2>1, <2>2 DEF Rotated
<1>8. NewestOf(Known(new)) = next
  <2>1. Known(new) \in SUBSET Numbers
    BY <1>3, UnusedCount
  <2>2. next \in Known(new) /\ next # 0
    BY <1>1, <1>2, <1>3 DEF Known, Generations
  <2>3. ASSUME NEW h \in Known(new) \ {0, next} PROVE Newer(next, h)
    <3>1. PICK s \in Slots \ {target} : h = gen(s)
      BY <1>3, <2>3 DEF Known
    <3>2. s \in Slots \ Unused(files)
      BY <2>3, <3>1 DEF Unused
    <3>3. gen(s) \in Generations /\ Age(gen(s), next) \in 1 .. Half - 2
      BY <1>5, <3>2
    <3> HIDE DEF gen
    <3> QED BY <1>1, <3>1, <3>3, AgeFacts
  <2>4. \A g \in Known(new) : g # 0 /\ (\A h \in Known(new) \ {0, g} : Newer(g, h)) =>
          NewestOf(Known(new)) = g
    BY <2>1, NewestIs
  <2> QED BY <2>2, <2>3, <2>4
<1> QED BY <1>1, <1>3, <1>7, <1>8 DEF next, new

\* LmDumpTarget is right about the room.
LEMMA TargetFacts ==
  ASSUME dumps \in [Slots -> Dumps], Rotated(dumps),
         \A s \in Slots : journal.generations[s] = dumps[s].generation
  PROVE  /\ LmDumpTarget \in Slots
         /\ Unused(dumps) # {} => LmDumpTarget \in Unused(dumps)
         /\ Unused(dumps) = {} => \A other \in Slots \ {LmDumpTarget} :
              Newer(dumps[other].generation, dumps[LmDumpTarget].generation)
<1>1. Empty = Unused(dumps)
  BY DEF Empty, Unused
<1>2. CASE Unused(dumps) # {}
  <2>1. \E s \in Empty : \A other \in Empty : s <= other
    <3>1. Empty \in SUBSET Nat
      BY SpanFacts DEF Empty
    <3> QED BY <1>1, <1>2, <3>1, LeastNatural
  <2>2. LmDumpTarget = CHOOSE s \in Empty : \A other \in Empty : s <= other
    BY <1>1, <1>2 DEF LmDumpTarget
  <2>3. LmDumpTarget \in Empty
    BY <2>1, <2>2
  <2> QED BY <1>1, <1>2, <2>3 DEF Empty
<1>3. CASE Unused(dumps) = {}
  <2> DEFINE oldest(s) == \A other \in Slots \ {s} :
               Newer(journal.generations[other], journal.generations[s])
  <2>1. \E s \in Slots : oldest(s)
    BY <1>3, OldestExists
  <2>2. LmDumpTarget = CHOOSE s \in Slots : oldest(s)
    BY <1>1, <1>3 DEF LmDumpTarget
  <2>3. LmDumpTarget \in Slots /\ oldest(LmDumpTarget)
    <3>1. \A x : x = (CHOOSE s \in Slots : oldest(s)) => x \in Slots /\ oldest(x)
      BY <2>1
    <3> HIDE DEF oldest
    <3> QED BY <2>2, <3>1
  <2> QED BY <1>3, <2>3
<1> QED BY <1>2, <1>3

-----------------------------------------------------------------------------
(* The invariant of the dumps.                                             *)

Dumping == kernel.stage \in {"CREATE", "ANCHOR", "EXTEND"}

\* The kernel's table is true of the files while it is in use: but for the file
\* that has been emptied, and has not got its generation yet.
TableTrue ==
  /\ journal.open => journal.enabled
  /\ journal.enabled =>
       /\ journal.generation = NewestOf(Known(dumps))
       /\ \A s \in Slots : \/ journal.generations[s] = dumps[s].generation
                           \/ At("ANCHOR") /\ s = journal.target

\* The record in hand is the last that was handled, and may open the dump.
RecordInHand ==
  /\ Dumping =>
       /\ journal.enabled /\ emitted # <<>> /\ kernel.snapshot = emitted[Len(emitted)]
  /\ kernel.stage \in {"CREATE", "ANCHOR"} => kernel.snapshot.kind \in {"SAVE", "LOAD"}
  /\ kernel.stage \in {"ANCHOR", "EXTEND"} => journal.open
  /\ At("ANCHOR") => dumps[journal.target] = Torn

DumpInv ==
  /\ JournalTypeOK /\ Rotated(dumps)
  /\ TableTrue /\ RecordInHand
  /\ DumpFollows

-----------------------------------------------------------------------------
(* What the three calls that write make of the card.                       *)

\* A file that can be read goes only if all the others are newer.
OldestGoes(files) ==
  \A s \in Slots : Readable(dumps[s]) /\ ~Readable(files[s]) =>
    \A other \in Slots \ {s} : Newer(dumps[other].generation, dumps[s].generation)

LEMMA TruncatedFacts ==
  ASSUME DumpInv, At("CREATE")
  PROVE  /\ LmDumpTarget \in Slots /\ Truncated \in [Slots -> Dumps] /\ Rotated(Truncated)
         /\ NewestOf(Known(Truncated)) = NewestOf(Known(dumps))
         /\ OldestGoes(Truncated)
<1>1. /\ dumps \in [Slots -> Dumps] /\ Rotated(dumps)
      /\ \A s \in Slots : journal.generations[s] = dumps[s].generation
  BY DEF DumpInv, JournalTypeOK, TableTrue, RecordInHand, Dumping, At
<1>2. /\ LmDumpTarget \in Slots
      /\ Unused(dumps) # {} => LmDumpTarget \in Unused(dumps)
      /\ Unused(dumps) = {} => \A other \in Slots \ {LmDumpTarget} :
           Newer(dumps[other].generation, dumps[LmDumpTarget].generation)
  BY <1>1, TargetFacts
<1>3. PICK target \in Slots : target = LmDumpTarget
  BY <1>2
<1>4. Truncated = [dumps EXCEPT ![target] = Torn]
  BY <1>3 DEF Truncated
<1>5. /\ Truncated \in [Slots -> Dumps] /\ Rotated(Truncated)
      /\ NewestOf(Known(Truncated)) = NewestOf(Known(dumps))
  BY <1>1, <1>2, <1>3, <1>4, RoomMade
<1>6. OldestGoes(Truncated)
  <2> SUFFICES ASSUME NEW s \in Slots, Readable(dumps[s]), ~Readable(Truncated[s]),
                      NEW other \in Slots \ {s}
               PROVE  Newer(dumps[other].generation, dumps[s].generation)
    BY DEF OldestGoes
  <2>1. s = target
    BY <1>1, <1>4
  <2>2. Unused(dumps) = {}
    BY <1>2, <1>3, <2>1 DEF Readable, Unused
  <2> QED BY <1>2, <1>3, <2>1, <2>2
<1> QED BY <1>2, <1>5, <1>6

LEMMA AnchoredFacts ==
  ASSUME DumpInv, At("ANCHOR"), kernel \in Kernels
  PROVE  /\ journal.target \in Slots
         /\ Anchored(kernel.snapshot) \in [Slots -> Dumps] /\ Rotated(Anchored(kernel.snapshot))
         /\ NewestOf(Known(Anchored(kernel.snapshot))) = NextGeneration(journal.generation)
         /\ NextGeneration(journal.generation) \in Generations
         /\ Newer(NextGeneration(journal.generation), NewestOf(Known(dumps)))
         /\ OldestGoes(Anchored(kernel.snapshot))
<1>1. /\ dumps \in [Slots -> Dumps] /\ Rotated(dumps) /\ journal.target \in Slots
      /\ journal.generation = NewestOf(Known(dumps)) /\ dumps[journal.target] = Torn
      /\ kernel.snapshot \in Traces
  BY DEF DumpInv, JournalTypeOK, Journals, TableTrue, RecordInHand, Dumping, At, Kernels
<1>2. journal.target \in Unused(dumps)
  BY <1>1 DEF Unused, Torn
<1>3. PICK target \in Unused(dumps), record \in Traces :
        target = journal.target /\ record = kernel.snapshot
  BY <1>1, <1>2
<1>4. /\ Anchored(kernel.snapshot) = Filled(dumps, target, record)
      /\ NextGeneration(journal.generation) = Following(dumps)
  BY <1>1, <1>3 DEF Anchored, Filled, Following
<1>5. /\ Anchored(kernel.snapshot) \in [Slots -> Dumps] /\ Rotated(Anchored(kernel.snapshot))
      /\ NewestOf(Known(Anchored(kernel.snapshot))) = NextGeneration(journal.generation)
      /\ NextGeneration(journal.generation) \in Generations
      /\ Newer(NextGeneration(journal.generation), NewestOf(Known(dumps)))
  BY <1>1, <1>4, RoomFilled
<1>6. OldestGoes(Anchored(kernel.snapshot))
  <2>1. \A s \in Slots \ {target} : Anchored(kernel.snapshot)[s] = dumps[s]
    BY <1>1, <1>4 DEF Filled
  <2>2. ~Readable(dumps[target])
    BY <1>3 DEF Readable, Unused
  <2> QED BY <2>1, <2>2 DEF OldestGoes
<1> QED BY <1>1, <1>5, <1>6

LEMMA ExtendedFacts ==
  ASSUME DumpInv, kernel \in Kernels
  PROVE  /\ Extended(kernel.snapshot) \in [Slots -> Dumps] /\ Rotated(Extended(kernel.snapshot))
         /\ NewestOf(Known(Extended(kernel.snapshot))) = NewestOf(Known(dumps))
         /\ OldestGoes(Extended(kernel.snapshot))
         /\ \A s \in Slots : Extended(kernel.snapshot)[s].generation = dumps[s].generation
<1> DEFINE files == Extended(kernel.snapshot)
<1>1. dumps \in [Slots -> Dumps] /\ Rotated(dumps) /\ kernel.snapshot \in Traces
  BY DEF DumpInv, JournalTypeOK, Kernels
<1>2. files \in [Slots -> Dumps] /\ \A s \in Slots : files[s].generation = dumps[s].generation
  <2>1. PICK target \in Slots : target = journal.target
    BY DEF DumpInv, JournalTypeOK, Journals
  <2>2. dumps[target] \in Dumps /\ Append(dumps[target].records, kernel.snapshot) \in Seq(Traces)
    BY <1>1 DEF Dumps
  <2> DEFINE dump == [dumps[target] EXCEPT !.records = Append(@, kernel.snapshot)]
  <2>3. dump \in Dumps /\ dump.generation = dumps[target].generation
    BY <2>2 DEF Dumps
  <2>4. files = [dumps EXCEPT ![target] = dump]
    BY <2>1 DEF Extended
  <2> HIDE DEF dump
  <2> QED BY <1>1, <2>3, <2>4
<1> HIDE DEF files
<1>3. Known(files) = Known(dumps) /\ Unused(files) = Unused(dumps)
  BY <1>2 DEF Known, Unused
<1>4. Rotated(files) /\ OldestGoes(files)
  BY <1>1, <1>2, <1>3 DEF Rotated, OldestGoes, Readable
<1> QED BY <1>2, <1>3, <1>4 DEF files

-----------------------------------------------------------------------------
(* Runs of the records handled.                                            *)

\* A dump is a run of the records that ends with the total-th.
RunOf(dump, records, total) ==
  /\ Len(dump) <= total
  /\ dump = SubSeq(records, total - Len(dump) + 1, total)

LEMMA RunMeans ==
  ASSUME NEW dump \in Seq(Traces), NEW records \in Seq(Traces), NEW total \in 0 .. Len(records),
         Len(dump) <= total
  PROVE  RunOf(dump, records, total) <=>
           \A i \in 1 .. Len(dump) : dump[i] = records[total - Len(dump) + i]
<1> DEFINE n == Len(dump)
           part == SubSeq(records, total - n + 1, total)
<1>1. n \in Nat /\ Len(records) \in Nat /\ total \in Nat /\ n <= total
  OBVIOUS
<1>2. /\ part \in Seq(Traces) /\ Len(part) = n
      /\ \A i \in 1 .. n : part[i] = records[total - n + i]
  <2>1. \A i \in total - n + 1 .. total : records[i] \in Traces
    BY <1>1
  <2>2. total - n + 1 \in Int /\ total \in Int /\ total - (total - n + 1) + 1 = n
    BY <1>1
  <2>3. /\ part \in Seq(Traces)
        /\ Len(part) = IF total - n + 1 <= total THEN total - (total - n + 1) + 1 ELSE 0
        /\ \A i \in 1 .. total - (total - n + 1) + 1 : part[i] = records[(total - n + 1) + i - 1]
    BY <2>1, <2>2, SubSeqProperties
  <2>4. Len(part) = n
    BY <1>1, <2>2, <2>3
  <2>5. ASSUME NEW i \in 1 .. n PROVE part[i] = records[total - n + i]
    <3>1. (total - n + 1) + i - 1 = total - n + i
      BY <1>1
    <3> HIDE DEF part
    <3> QED BY <2>2, <2>3, <3>1
  <2> QED BY <2>3, <2>4, <2>5
<1>3. RunOf(dump, records, total) <=> dump = part
  BY <1>1 DEF RunOf
<1> HIDE DEF part
<1>4. (\A i \in 1 .. n : dump[i] = part[i]) => dump = part
  BY <1>2, SeqEqual
<1> QED BY <1>2, <1>3, <1>4

\* A later record makes no difference to the run ...
LEMMA RunStays ==
  ASSUME NEW dump \in Seq(Traces), NEW records \in Seq(Traces), NEW record \in Traces,
         RunOf(dump, records, Len(records))
  PROVE  RunOf(dump, Append(records, record), Len(records))
<1> DEFINE n == Len(dump)
           total == Len(records)
           more == Append(records, record)
<1>1. n \in Nat /\ total \in Nat /\ n <= total
  BY DEF RunOf
<1>2. /\ more \in Seq(Traces) /\ Len(more) = total + 1
      /\ \A i \in 1 .. total : more[i] = records[i]
  OBVIOUS
<1>3. \A i \in 1 .. n : dump[i] = records[total - n + i] /\ total - n + i \in 1 .. total
  <2>1. total \in 0 .. Len(records)
    BY <1>1
  <2>2. \A i \in 1 .. n : dump[i] = records[total - n + i]
    BY <1>1, <2>1, RunMeans
  <2> QED BY <1>1, <2>2
<1> HIDE DEF more
<1>4. \A i \in 1 .. n : dump[i] = more[total - n + i]
  BY <1>2, <1>3
<1>5. total \in 0 .. Len(more)
  BY <1>1, <1>2
<1> QED BY <1>1, <1>2, <1>4, <1>5, RunMeans DEF more

\* ... until it is appended to the dump too.
LEMMA RunGrows ==
  ASSUME NEW dump \in Seq(Traces), NEW records \in Seq(Traces), records # <<>>,
         RunOf(dump, records, Len(records) - 1)
  PROVE  RunOf(Append(dump, records[Len(records)]), records, Len(records))
<1> DEFINE n == Len(dump)
           total == Len(records)
           record == records[total]
           longer == Append(dump, record)
<1>1. n \in Nat /\ total \in Nat /\ total > 0 /\ n <= total - 1 /\ record \in Traces
  BY DEF RunOf
<1>2. \A i \in 1 .. n : dump[i] = records[(total - 1) - n + i]
  <2>1. PICK before \in 0 .. Len(records) : before = total - 1
    BY <1>1
  <2>2. \A i \in 1 .. n : dump[i] = records[before - n + i]
    BY <1>1, <2>1, RunMeans
  <2> QED BY <2>1, <2>2
<1>3. /\ longer \in Seq(Traces) /\ Len(longer) = n + 1 /\ longer[n + 1] = record
      /\ \A i \in 1 .. n : longer[i] = dump[i]
  BY <1>1
<1> HIDE DEF longer
<1>4. ASSUME NEW i \in 1 .. n + 1 PROVE longer[i] = records[total - (n + 1) + i]
  <2>1. CASE i = n + 1
    <3>1. total - (n + 1) + i = total
      BY <1>1, <2>1
    <3> QED BY <1>3, <2>1, <3>1
  <2>2. CASE i # n + 1
    <3>1. i \in 1 .. n /\ total - (n + 1) + i = (total - 1) - n + i
      BY <1>1, <2>2
    <3> QED BY <1>2, <1>3, <3>1
  <2> QED BY <2>1, <2>2
<1>5. total \in 0 .. Len(records) /\ Len(longer) <= total
  BY <1>1, <1>3
<1>6. RunOf(longer, records, total)
  BY <1>3, <1>4, <1>5, RunMeans
<1> QED BY <1>6 DEF longer

\* What follows is the same statement in other words.
LEMMA FollowsMeans ==
  DumpFollows <=>
    (journal.open /\ ~At("CREATE") =>
       /\ Len(OpenDump) > 0 \/ At("ANCHOR")
       /\ Len(OpenDump) > 0 =>
            /\ RunOf(OpenDump, emitted, Len(emitted) - Behind)
            /\ OpenDump[1].kind \in {"SAVE", "LOAD"})
BY DEF DumpFollows, RunOf

-----------------------------------------------------------------------------
(* Every step keeps the invariant.                                         *)

\* Steps that touch neither the files nor the records, outside the three calls.
LEMMA DumpQuiet ==
  ASSUME DumpInv, UNCHANGED <<dumps, journal, emitted>>,
         ~Dumping, kernel'.stage \notin {"CREATE", "ANCHOR", "EXTEND"}
  PROVE  DumpInv'
<1>1. ~Dumping' /\ ~At("CREATE")' /\ ~At("ANCHOR")' /\ ~At("CREATE") /\ ~At("ANCHOR")
  BY DEF Dumping, At
<1>2. Behind' = Behind
  BY DEF Behind, Dumping
<1>3. JournalTypeOK' /\ Rotated(dumps)' /\ TableTrue' /\ RecordInHand'
  BY <1>1 DEF DumpInv, JournalTypeOK, TableTrue, RecordInHand, Dumping, At
<1>4. DumpFollows'
  BY <1>1, <1>2 DEF DumpInv, DumpFollows, OpenDump
<1> QED BY <1>3, <1>4 DEF DumpInv

LEMMA DumpSame ==
  ASSUME DumpInv, UNCHANGED <<dumps, journal, emitted, kernel>>
  PROVE  DumpInv'
BY DEF DumpInv, JournalTypeOK, TableTrue, RecordInHand, Dumping, DumpFollows, OpenDump, Behind, At

LEMMA DumpEmits ==
  ASSUME DumpInv, kernel \in Kernels, emitted \in Seq(Traces), ~Dumping,
         NEW record \in Traces, NEW back \in {"ACK", "CHECK"},
         EmitPhaseTrace(record, back), UNCHANGED journalVars
  PROVE  DumpInv'
<1>1. UNCHANGED <<dumps, journal>>
  BY DEF journalVars
<1>2. CASE Stale(record)
  <2>1. emitted' = emitted /\ kernel'.stage = back
    BY <1>2 DEF EmitPhaseTrace, Goto, Kernels
  <2> QED BY <1>1, <2>1, DumpQuiet
<1>3. CASE ~Stale(record)
  <2>1. /\ emitted' = Append(emitted, record) /\ kernel'.snapshot = record
        /\ kernel'.stage = IF Opens(record) THEN "CREATE" ELSE IF Extends(record) THEN "EXTEND"
                           ELSE back
    BY <1>3 DEF EmitPhaseTrace, Kernels
  <2>2. /\ emitted' # <<>> /\ emitted'[Len(emitted')] = record
        /\ Len(emitted') = Len(emitted) + 1 /\ Len(emitted) \in Nat
    BY <2>1
  <2>3. JournalTypeOK' /\ Rotated(dumps)' /\ TableTrue'
    BY <1>1 DEF DumpInv, JournalTypeOK, TableTrue, Dumping, At
  <2>4. RecordInHand'
    BY <1>1, <2>1, <2>2 DEF RecordInHand, Dumping, At, Opens, Anchors, Extends
  <2>5. DumpFollows'
    <3>1. CASE kernel'.stage = "CREATE" \/ ~journal.open
      BY <1>1, <3>1 DEF DumpFollows, At
    <3>2. CASE kernel'.stage # "CREATE" /\ journal.open
      <4>1. journal.enabled /\ kernel'.stage = "EXTEND"
        BY <2>1, <3>2 DEF DumpInv, TableTrue, Opens, Extends
      <4>2. Behind' = 1 /\ Behind = 0 /\ ~At("CREATE") /\ ~At("ANCHOR") /\ OpenDump' = OpenDump
        BY <1>1, <4>1 DEF Behind, Dumping, At, OpenDump
      <4>3. OpenDump \in Seq(Traces)
        BY DEF OpenDump, DumpInv, JournalTypeOK, Journals, Dumps
      <4>4. /\ Len(OpenDump) > 0 /\ OpenDump[1].kind \in {"SAVE", "LOAD"}
            /\ RunOf(OpenDump, emitted, Len(emitted) - 0)
        BY <3>2, <4>2, FollowsMeans DEF DumpInv
      <4>5. RunOf(OpenDump, emitted, Len(emitted))
        BY <2>2, <4>4
      <4>6. RunOf(OpenDump, emitted', Len(emitted))
        BY <2>1, <4>3, <4>5, RunStays
      <4>7. Len(emitted') - 1 = Len(emitted)
        BY <2>2
      <4> QED BY <4>2, <4>4, <4>6, <4>7 DEF DumpFollows, RunOf
    <3> QED BY <3>1, <3>2
  <2> QED BY <2>3, <2>4, <2>5 DEF DumpInv
<1> QED BY <1>2, <1>3

\* A call that fails ends the dump, and dumping, whatever it left in the file.
LEMMA DumpEnds ==
  ASSUME DumpInv, Disable, dumps' \in [Slots -> Dumps], Rotated(dumps'),
         kernel'.stage \notin {"CREATE", "ANCHOR", "EXTEND"}
  PROVE  DumpInv'
<1>1. journal \in Journals /\ journal' = [journal EXCEPT !.enabled = FALSE, !.open = FALSE]
  BY DEF DumpInv, JournalTypeOK, Disable
<1>2. journal' \in Journals /\ ~journal'.enabled /\ ~journal'.open
  BY <1>1 DEF Journals
<1>3. JournalTypeOK' /\ Rotated(dumps)'
  BY <1>2 DEF JournalTypeOK
<1>4. TableTrue' /\ RecordInHand' /\ DumpFollows'
  BY <1>2 DEF TableTrue, RecordInHand, DumpFollows, Dumping, At
<1> QED BY <1>3, <1>4 DEF DumpInv

LEMMA DumpCreates ==
  ASSUME DumpInv, PollShape, kernel \in Kernels, CreateDump
  PROVE  DumpInv'
<1>1. /\ At("CREATE") /\ Create /\ emitted' = emitted
      /\ kernel' = [kernel EXCEPT !.stage = IF journal'.enabled THEN "ANCHOR" ELSE kernel.back]
      /\ kernel.back \in {"ACK", "CHECK"}
  BY DEF CreateDump, Goto, PollShape, At
<1>2. journal \in Journals /\ journal.enabled /\ dumps \in [Slots -> Dumps]
  BY <1>1 DEF DumpInv, JournalTypeOK, RecordInHand, Dumping, At
<1>3. /\ LmDumpTarget \in Slots /\ Truncated \in [Slots -> Dumps] /\ Rotated(Truncated)
      /\ NewestOf(Known(Truncated)) = NewestOf(Known(dumps))
  BY <1>1, TruncatedFacts
<1>4. CASE IoFaults /\ Disable /\ dumps' \in {dumps, Truncated}
  <2>1. kernel'.stage = kernel.back
    BY <1>1, <1>2, <1>4 DEF Disable, Kernels, Journals
  <2> QED BY <1>1, <1>2, <1>3, <1>4, <2>1, DumpEnds DEF DumpInv
<1>5. CASE dumps' = Truncated /\ journal' = [journal EXCEPT !.open = TRUE, !.target = LmDumpTarget]
  <2>1. /\ journal'.enabled /\ journal'.open /\ journal'.target = LmDumpTarget
        /\ journal'.generation = journal.generation /\ journal'.generations = journal.generations
        /\ journal' \in Journals
    BY <1>2, <1>3, <1>5 DEF Journals
  <2>2. kernel'.stage = "ANCHOR" /\ kernel'.snapshot = kernel.snapshot
    BY <1>1, <2>1 DEF Kernels
  <2>3. dumps'[LmDumpTarget] = Torn /\ \A s \in Slots \ {LmDumpTarget} : dumps'[s] = dumps[s]
    BY <1>2, <1>3, <1>5 DEF Truncated
  <2>4. JournalTypeOK' /\ Rotated(dumps)'
    BY <1>3, <1>5, <2>1 DEF JournalTypeOK
  <2>5. TableTrue'
    <3>1. journal'.generation = NewestOf(Known(dumps))'
      BY <1>2, <1>3, <1>5, <2>1 DEF DumpInv, TableTrue
    <3>2. \A s \in Slots \ {LmDumpTarget} : journal'.generations[s] = dumps'[s].generation
      BY <1>1, <1>2, <2>1, <2>3 DEF DumpInv, TableTrue, At
    <3> QED BY <2>1, <2>2, <3>1, <3>2 DEF TableTrue, At
  <2>6. RecordInHand'
    BY <1>1, <2>1, <2>2, <2>3 DEF DumpInv, RecordInHand, Dumping, At
  <2>7. DumpFollows'
    <3>1. OpenDump' = <<>>
      BY <2>1, <2>3 DEF OpenDump, Torn
    <3>2. ~(Len(OpenDump') > 0)
      BY <3>1
    <3> QED BY <2>2, <3>2 DEF DumpFollows, At
  <2> QED BY <2>4, <2>5, <2>6, <2>7 DEF DumpInv
<1> QED BY <1>1, <1>4, <1>5 DEF Create

LEMMA DumpAnchors ==
  ASSUME DumpInv, PollShape, kernel \in Kernels, emitted \in Seq(Traces), AnchorDump
  PROVE  DumpInv'
<1>1. /\ At("ANCHOR") /\ Anchor(kernel.snapshot) /\ emitted' = emitted
      /\ kernel' = [kernel EXCEPT !.stage = kernel.back] /\ kernel.back \in {"ACK", "CHECK"}
  BY DEF AnchorDump, Goto, PollShape, At
<1>2. /\ journal \in Journals /\ dumps \in [Slots -> Dumps] /\ kernel.snapshot \in Traces
      /\ kernel'.stage = kernel.back /\ journal.enabled /\ journal.open
      /\ emitted # <<>> /\ kernel.snapshot = emitted[Len(emitted)]
      /\ kernel.snapshot.kind \in {"SAVE", "LOAD"}
      /\ Len(emitted) \in Nat \ {0}
  BY <1>1 DEF DumpInv, JournalTypeOK, RecordInHand, Dumping, At, Kernels
<1> DEFINE new == Anchored(kernel.snapshot)
           next == NextGeneration(journal.generation)
<1>3. /\ journal.target \in Slots /\ new \in [Slots -> Dumps] /\ Rotated(new)
      /\ NewestOf(Known(new)) = next /\ next \in Numbers
  BY <1>1, AnchoredFacts DEF Generations
<1>4. CASE IoFaults /\ Disable /\ dumps' \in {dumps, Anchored(kernel.snapshot)}
  BY <1>1, <1>2, <1>3, <1>4, DumpEnds DEF DumpInv
<1>5. CASE /\ dumps' = Anchored(kernel.snapshot)
           /\ journal' = [journal EXCEPT !.generation = next, !.generations[journal.target] = next]
  <2>1. /\ journal'.enabled /\ journal'.open /\ journal'.target = journal.target
        /\ journal'.generation = next /\ journal'.generations[journal.target] = next
        /\ \A s \in Slots \ {journal.target} : journal'.generations[s] = journal.generations[s]
        /\ journal' \in Journals
    <3> HIDE DEF next
    <3> QED BY <1>2, <1>3, <1>5 DEF Journals
  <2>2. /\ dumps'[journal.target].generation = next
        /\ dumps'[journal.target].records = <<kernel.snapshot>>
        /\ \A s \in Slots \ {journal.target} : dumps'[s] = dumps[s]
    BY <1>2, <1>3, <1>5 DEF Anchored, Dump
  <2>3. JournalTypeOK' /\ Rotated(dumps)'
    BY <1>3, <1>5, <2>1 DEF JournalTypeOK
  <2>4. TableTrue'
    <3>1. journal'.generation = NewestOf(Known(dumps))'
      BY <1>3, <1>5, <2>1
    <3>2. \A s \in Slots : journal'.generations[s] = dumps'[s].generation
      BY <1>2, <2>1, <2>2 DEF DumpInv, TableTrue
    <3> QED BY <2>1, <3>1, <3>2 DEF TableTrue
  <2>5. RecordInHand'
    BY <1>1, <1>2 DEF RecordInHand, Dumping, At
  <2>6. DumpFollows'
    <3>1. OpenDump' = <<kernel.snapshot>> /\ Behind' = 0
      BY <1>1, <1>2, <2>1, <2>2 DEF OpenDump, Behind
    <3>2. RunOf(<<kernel.snapshot>>, emitted, Len(emitted))
      <4>1. <<kernel.snapshot>> \in Seq(Traces) /\ Len(<<kernel.snapshot>>) = 1
        BY <1>2
      <4>2. Len(emitted) \in 0 .. Len(emitted) /\ 1 <= Len(emitted)
        BY <1>2
      <4>3. \A i \in 1 .. 1 : <<kernel.snapshot>>[i] = emitted[Len(emitted) - 1 + i]
        BY <1>2
      <4> QED BY <4>1, <4>2, <4>3, RunMeans
    <3>3. Len(emitted') - 0 = Len(emitted) /\ Len(<<kernel.snapshot>>) = 1
      BY <1>1, <1>2
    <3> QED BY <1>1, <1>2, <3>1, <3>2, <3>3 DEF DumpFollows, RunOf
  <2> QED BY <2>3, <2>4, <2>5, <2>6 DEF DumpInv
<1> QED BY <1>1, <1>4, <1>5 DEF Anchor

LEMMA DumpExtends ==
  ASSUME DumpInv, PollShape, kernel \in Kernels, emitted \in Seq(Traces), ExtendDump
  PROVE  DumpInv'
<1>1. /\ At("EXTEND") /\ Extend(kernel.snapshot) /\ emitted' = emitted
      /\ kernel' = [kernel EXCEPT !.stage = kernel.back] /\ kernel.back \in {"ACK", "CHECK"}
  BY DEF ExtendDump, Goto, PollShape, At
<1>2. /\ journal \in Journals /\ dumps \in [Slots -> Dumps] /\ kernel.snapshot \in Traces
      /\ kernel'.stage = kernel.back /\ journal.enabled /\ journal.open
      /\ emitted # <<>> /\ kernel.snapshot = emitted[Len(emitted)]
      /\ Len(emitted) \in Nat \ {0}
  BY <1>1 DEF DumpInv, JournalTypeOK, RecordInHand, Dumping, At, Kernels
<1> DEFINE new == Extended(kernel.snapshot)
<1>3. /\ new \in [Slots -> Dumps] /\ Rotated(new)
      /\ NewestOf(Known(new)) = NewestOf(Known(dumps))
      /\ \A s \in Slots : new[s].generation = dumps[s].generation
  BY ExtendedFacts
<1>4. CASE IoFaults /\ Disable /\ dumps' \in {dumps, Extended(kernel.snapshot)}
  BY <1>1, <1>2, <1>3, <1>4, DumpEnds DEF DumpInv
<1>5. CASE dumps' = Extended(kernel.snapshot) /\ UNCHANGED journal
  <2>1. JournalTypeOK' /\ Rotated(dumps)'
    BY <1>2, <1>3, <1>5 DEF JournalTypeOK
  <2>2. TableTrue'
    BY <1>1, <1>2, <1>3, <1>5 DEF DumpInv, TableTrue, At
  <2>3. RecordInHand'
    BY <1>1, <1>2 DEF RecordInHand, Dumping, At
  <2>4. DumpFollows'
    <3>1. OpenDump \in Seq(Traces) /\ journal.target \in Slots
      BY <1>2 DEF OpenDump, Journals, Dumps
    <3>2. OpenDump' = Append(OpenDump, kernel.snapshot) /\ Behind' = 0 /\ Behind = 1
      BY <1>1, <1>2, <1>5, <3>1 DEF OpenDump, Extended, Behind, At, Dumps
    <3>3. /\ Len(OpenDump) > 0 /\ OpenDump[1].kind \in {"SAVE", "LOAD"}
          /\ RunOf(OpenDump, emitted, Len(emitted) - 1)
      BY <1>1, <1>2, <3>2, FollowsMeans DEF DumpInv, At
    <3>4. RunOf(OpenDump', emitted, Len(emitted))
      BY <1>2, <3>1, <3>2, <3>3, RunGrows
    <3>5. Len(OpenDump') > 0 /\ OpenDump'[1] = OpenDump[1] /\ Len(emitted') - 0 = Len(emitted)
      BY <1>1, <1>2, <3>1, <3>2, <3>3
    <3> QED BY <1>1, <3>2, <3>3, <3>4, <3>5 DEF DumpFollows, RunOf
  <2> QED BY <2>1, <2>2, <2>3, <2>4 DEF DumpInv
<1> QED BY <1>1, <1>4, <1>5 DEF Extend

\* A console that is switched on finds a card that rotates.
LEMMA DumpLoads ==
  ASSUME NEW files \in [Slots -> Dumps], Rotated(files), NEW table \in InitLmDump(files)
  PROVE  /\ table \in Journals /\ ~table.open
         /\ table.enabled =>
              /\ table.generation = NewestOf(Known(files))
              /\ \A s \in Slots : table.generations[s] = files[s].generation
<1>1. NewestOf(Known(files)) \in Numbers /\ 0 \in Numbers /\ 0 \in Slots
  BY RotatedNewest, SpanFacts
<1>2. [s \in Slots |-> files[s].generation] \in [Slots -> Numbers]
  BY DEF Dumps
<1>3. Loaded(files) \in Journals /\ NotLoaded \in Journals
  BY <1>1, <1>2 DEF Loaded, NotLoaded, Journals
<1>4. table = Loaded(files) \/ table = NotLoaded
  BY DEF InitLmDump
<1>5. CASE table = Loaded(files)
  <2>1. /\ ~table.open /\ table.generation = NewestOf(Known(files))
        /\ table.generations = [s \in Slots |-> files[s].generation]
    BY <1>5 DEF Loaded
  <2> QED BY <1>3, <1>5, <2>1
<1>6. CASE table = NotLoaded
  BY <1>3, <1>6 DEF NotLoaded
<1> QED BY <1>4, <1>5, <1>6

LEMMA DumpFresh ==
  ASSUME dumps \in [Slots -> Dumps], Rotated(dumps), journal \in InitLmDump(dumps),
         kernel = FreshKernel
  PROVE  DumpInv
<1>1. /\ journal \in Journals /\ ~journal.open
      /\ journal.enabled =>
           /\ journal.generation = NewestOf(Known(dumps))
           /\ \A s \in Slots : journal.generations[s] = dumps[s].generation
  BY DumpLoads
<1>2. kernel.stage = "DRAIN"
  BY DEF FreshKernel
<1> QED
  BY <1>1, <1>2 DEF DumpInv, JournalTypeOK, TableTrue, RecordInHand, Dumping, At, DumpFollows

\* What a step can make of the dumps, be it cut short or not.
DumpMoves ==
  \/ dumps' = dumps
  \/ At("CREATE") /\ dumps' = Truncated
  \/ At("ANCHOR") /\ dumps' = Anchored(kernel.snapshot)
  \/ At("EXTEND") /\ dumps' = Extended(kernel.snapshot)

LEMMA NextDumps ==
  ASSUME [Next]_vars
  PROVE  DumpMoves
<1>1. CASE Kernel
  <2>1. CASE CreateDump
    BY <2>1 DEF CreateDump, Create, DumpMoves
  <2>2. CASE AnchorDump
    BY <2>2 DEF AnchorDump, Anchor, DumpMoves
  <2>3. CASE ExtendDump
    BY <2>3 DEF ExtendDump, Extend, DumpMoves
  <2>4. CASE ~CreateDump /\ ~AnchorDump /\ ~ExtendDump
    BY <1>1, <2>4
       DEF Kernel, KernelNext, Drain, Acknowledge, Release, WriteBackConsumer, Sample, Recheck,
           CheckReport, ReadReport, OpenReport, WriteReport, kernelVars, journalVars, DumpMoves
  <2> QED BY <2>1, <2>2, <2>3, <2>4
<1>2. CASE Restart
  BY <1>2 DEF Restart, CutDumps, DumpMoves
<1>3. CASE Start \/ Game \/ Reset \/ UNCHANGED vars
  BY <1>3 DEF Start, Game, Reset, vars, kernelVars, journalVars, DumpMoves
<1> QED BY <1>1, <1>2, <1>3 DEF Next

LEMMA MovesKept ==
  ASSUME DumpInv, kernel \in Kernels, DumpMoves
  PROVE  /\ dumps' \in [Slots -> Dumps] /\ Rotated(dumps')
         /\ \/ NewestOf(Known(dumps')) = NewestOf(Known(dumps))
            \/ Newer(NewestOf(Known(dumps')), NewestOf(Known(dumps)))
         /\ OldestGoes(dumps')
<1>1. CASE dumps' = dumps
  BY <1>1 DEF DumpInv, JournalTypeOK, OldestGoes
<1>2. CASE At("CREATE") /\ dumps' = Truncated
  BY <1>2, TruncatedFacts
<1>3. CASE At("ANCHOR") /\ dumps' = Anchored(kernel.snapshot)
  BY <1>3, AnchoredFacts
<1>4. CASE At("EXTEND") /\ dumps' = Extended(kernel.snapshot)
  BY <1>4, ExtendedFacts
<1> QED BY <1>1, <1>2, <1>3, <1>4 DEF DumpMoves

LEMMA DumpStep ==
  ASSUME DumpInv, TypeInv, [Next]_vars
  PROVE  DumpInv'
<1>1. /\ kernel \in Kernels /\ emitted \in Seq(Traces) /\ PollShape
      /\ trace \in Traces /\ entries \in [0 .. RingSize - 1 -> Traces]
      /\ released.cursor \in Cursors
  BY ControlStores DEF TypeInv, RingTypeOK, MailboxTypeOK
<1>2. CASE Kernel
  <2>1. CASE Drain
    <3>1. At("DRAIN") /\ ~Dumping /\ UNCHANGED journalVars
      BY <2>1 DEF Drain, At, Dumping
    <3>2. CASE kernel.count < DrainMax /\ CriticalPeek
      <4>1. entries[Slot(released.cursor)] \in Traces
        <5>1. Slot(released.cursor) \in 0 .. RingSize - 1
          <6>1. released.cursor \in Nat /\ RingSize \in Nat \ {0}
            BY <1>1, MailboxAssumption DEF Cursors
          <6>2. PICK cursor \in Nat : cursor = released.cursor
            BY <6>1
          <6>3. cursor % RingSize \in 0 .. RingSize - 1
            BY <6>1, <6>2, ModSmall
          <6> QED BY <6>2, <6>3 DEF Slot
        <5> QED BY <1>1, <5>1
      <4> QED BY <1>1, <2>1, <3>1, <3>2, <4>1, DumpEmits DEF Drain
    <3>3. CASE ~(kernel.count < DrainMax /\ CriticalPeek)
      BY <1>1, <2>1, <3>1, <3>3, DumpQuiet DEF Drain, Goto, Kernels, journalVars
    <3> QED BY <3>2, <3>3
  <2>2. CASE Recheck
    <3>1. At("RECHECK") /\ ~Dumping /\ UNCHANGED journalVars /\ kernel.snapshot \in Traces
      BY <1>1, <2>2 DEF Recheck, At, Dumping, Kernels
    <3>2. CASE EmitPhaseTrace(kernel.snapshot, "CHECK")
      BY <1>1, <3>1, <3>2, DumpEmits
    <3>3. CASE Goto("CHECK") /\ UNCHANGED emitted
      BY <1>1, <3>1, <3>3, DumpQuiet DEF Goto, Kernels, journalVars
    <3> QED BY <2>2, <3>2, <3>3 DEF Recheck
  <2>3. CASE Acknowledge \/ Release \/ Sample \/ CheckReport
    <3>1. /\ UNCHANGED <<dumps, journal, emitted>> /\ ~Dumping
          /\ kernel'.stage \in {"RELEASE", "DRAIN", "RECHECK", "READ"}
      BY <1>1, <2>3
         DEF Acknowledge, Release, Sample, CheckReport, Goto, Done, At, Dumping, Kernels, journalVars
    <3> QED BY <3>1, DumpQuiet
  <2>4. CASE ReadReport \/ OpenReport \/ WriteReport
    <3>1. /\ UNCHANGED <<dumps, journal, emitted>> /\ ~Dumping
          /\ kernel'.stage \in {"DRAIN", "OPEN", "WRITE"}
      BY <1>1, <2>4
         DEF ReadReport, OpenReport, WriteReport, Goto, At, Dumping, Kernels, journalVars
    <3> QED BY <3>1, DumpQuiet
  <2>5. CASE WriteBackConsumer
    BY <2>5, DumpSame DEF WriteBackConsumer, kernelVars, journalVars
  <2> QED
    BY <1>1, <1>2, <2>1, <2>2, <2>3, <2>4, <2>5, DumpCreates, DumpAnchors, DumpExtends
       DEF Kernel, KernelNext
<1>3. CASE Restart
  <2>1. dumps' \in [Slots -> Dumps] /\ Rotated(dumps')
    BY <1>1, NextDumps, MovesKept
  <2>2. journal' \in InitLmDump(dumps') /\ kernel' = FreshKernel
    BY <1>3 DEF Restart
  <2>3. (dumps \in [Slots -> Dumps] /\ Rotated(dumps) /\ journal \in InitLmDump(dumps)
           /\ kernel = FreshKernel => DumpInv)'
    BY DumpFresh, PTL
  <2> QED BY <2>1, <2>2, <2>3
<1>4. CASE Start \/ Game \/ Reset \/ UNCHANGED vars
  BY <1>4, DumpSame DEF Start, Game, Reset, vars, kernelVars, journalVars
<1> QED BY <1>2, <1>3, <1>4 DEF Next

LEMMA DumpStart ==
  ASSUME Init
  PROVE  DumpInv
<1>1. dumps \in [Slots -> Dumps] /\ Rotated(dumps)
  BY CardAssumption DEF Init
<1> QED BY <1>1, DumpFresh DEF Init

THEOREM DumpsHold == Spec => []DumpInv
<1>1. RingInv => TypeInv
  BY DEF RingInv
<1> QED BY <1>1, RingHolds, DumpStart, DumpStep, PTL DEF Spec

\* Every variable keeps its type; in particular there is always a file to take
\* next, although the files are compared by differences that may go in circles.
THEOREM CrashTypes == Spec => []TypeOK
<1>1. RingInv /\ DumpInv => TypeOK
  BY DEF RingInv, TypeInv, RingTypeOK, DumpInv, TypeOK, KernelTypeOK
<1> QED BY <1>1, RingHolds, DumpsHold, PTL

\* The dump being written holds everything handled since the record that opened
\* it, with nothing left out or repeated, whatever call fails on the way.
THEOREM DumpsFollow == Spec => []DumpFollows
<1>1. DumpInv => DumpFollows
  BY DEF DumpInv
<1> QED BY <1>1, DumpsHold, PTL

-----------------------------------------------------------------------------
(* The two report files, written in turn.                                  *)

Mine == report.seq % 2

\* The report of this start goes to the file that does not hold the newest; it
\* is attempted once, and the other file holds the number before it.
ReportInv ==
  /\ report.seq > 0 /\ report.seq + (MaxRuns - runs) + 1 < Half
  /\ \A i \in 0 .. 1 : reports[i] = 0 \/ reports[i] % 2 = i
  /\ reports[1 - Mine] = report.seq - 1 /\ reports[Mine] <= report.seq
  /\ kernel.attempted \in {0, report.seq}
  /\ kernel.attempted = 0 => reports[Mine] < report.seq
  /\ At("READ") => kernel.attempted = 0
  /\ At("OPEN") => kernel.attempted = report.seq /\ reports[Mine] < report.seq
  /\ At("WRITE") => kernel.attempted = report.seq /\ reports[Mine] = 0

LEMMA Parity ==
  ASSUME NEW n \in Nat
  PROVE  n % 2 \in 0 .. 1 /\ 1 - (n % 2) \in 0 .. 1 /\ (n + 1) % 2 = 1 - (n % 2)
OBVIOUS

LEMMA Arming ==
  ASSUME NEW files \in [0 .. 1 -> Numbers], NEW k \in Nat,
         \A i \in 0 .. 1 : files[i] = 0 \/ files[i] % 2 = i,
         \A i \in 0 .. 1 : files[i] + k + 2 < Half
  PROVE  LET seq == ArmedSeq(files)
         IN  /\ seq \in Nat /\ seq > 0 /\ seq + k + 1 < Half
             /\ files[1 - (seq % 2)] = seq - 1 /\ files[seq % 2] < seq
<1>1. PICK newest \in Numbers :
        /\ ArmedSeq(files) = newest + 1
        /\ newest = 0 \/ newest \in {files[0], files[1]}
        /\ \A i \in 0 .. 1 : files[i] < Span \div 2 => files[i] <= newest
  BY ArmedNext
<1>2. /\ newest \in Nat /\ files[0] \in Nat /\ files[1] \in Nat
      /\ \A i \in 0 .. 1 : files[i] \in Nat /\ files[i] < Half /\ files[i] <= newest
  <2>1. newest \in Nat /\ \A i \in 0 .. 1 : files[i] \in Nat
    BY SpanFacts
  <2>2. \A i \in 0 .. 1 : files[i] < Half
    BY <2>1, SpanFacts
  <2> QED BY <1>1, <2>1, <2>2 DEF Half
<1>3. newest + k + 2 < Half
  BY <1>1, <1>2, SpanFacts
<1>4. /\ (newest + 1) % 2 = 1 - (newest % 2) /\ newest % 2 \in 0 .. 1
      /\ 1 - (1 - (newest % 2)) = newest % 2 /\ 1 - (newest % 2) \in 0 .. 1
  BY <1>2, Parity
<1>5. files[newest % 2] = newest
  <2>1. CASE newest = 0
    BY <1>2, <1>4, <2>1
  <2>2. CASE newest # 0
    BY <1>1, <1>2, <2>2
  <2> QED BY <2>1, <2>2
<1>6. files[1 - (newest % 2)] <= newest
  BY <1>2, <1>4
<1>7. PICK seq \in Nat : seq = newest + 1
  BY <1>2
<1>8. seq % 2 = 1 - (newest % 2) /\ 1 - (seq % 2) = newest % 2
  BY <1>4, <1>7
<1>9. files[1 - (seq % 2)] = newest /\ files[seq % 2] <= newest
  BY <1>5, <1>6, <1>8
<1> HIDE DEF Half
<1>10. /\ ArmedSeq(files) = seq /\ seq > 0 /\ seq + k + 1 < Half
       /\ files[1 - (seq % 2)] = seq - 1 /\ files[seq % 2] < seq
  <2>1. files[seq % 2] \in Nat
    BY <1>2, <1>4, <1>8
  <2> QED BY <1>1, <1>2, <1>3, <1>7, <1>9, <2>1, SpanFacts
<1> QED BY <1>7, <1>10

LEMMA ReportFacts ==
  ASSUME TypeInv, ReportInv
  PROVE  /\ report.seq \in Nat /\ report.seq < Half /\ Mine \in 0 .. 1 /\ 1 - Mine \in 0 .. 1
         /\ runs \in Nat /\ MaxRuns \in Nat /\ runs <= MaxRuns
         /\ reports \in [0 .. 1 -> Numbers] /\ kernel \in Kernels
         /\ \A i \in 0 .. 1 : reports[i] \in Nat /\ (i = Mine \/ i = 1 - Mine)
         /\ report.seq \in Numbers /\ report \in Reports
<1>1. /\ report \in Reports /\ report.seq \in Numbers /\ runs \in 0 .. MaxRuns
      /\ reports \in [0 .. 1 -> Numbers] /\ kernel \in Kernels /\ MaxRuns \in Nat
  BY SystemAssumption DEF TypeInv, RingTypeOK, MailboxTypeOK, Reports
<1>2. report.seq \in Nat
  BY <1>1, SpanFacts
<1>3. Mine \in 0 .. 1 /\ 1 - Mine \in 0 .. 1
  BY <1>2, Parity DEF Mine
<1>4. report.seq < Half
  BY <1>1, <1>2, SpanFacts DEF ReportInv
<1> QED BY <1>1, <1>2, <1>3, <1>4, SpanFacts

LEMMA ReportStart ==
  ASSUME Init
  PROVE  ReportInv
<1>1. /\ reports \in [0 .. 1 -> Numbers]
      /\ \A i \in 0 .. 1 : reports[i] = 0 \/ reports[i] % 2 = i
      /\ \A i \in 0 .. 1 : reports[i] + MaxRuns + 2 < Half
  BY CardAssumption DEF Init, Half
<1>2. report.seq = ArmedSeq(reports) /\ kernel.attempted = 0 /\ kernel.stage = "DRAIN" /\ runs = 0
  BY DEF Init, ArmedReport, FreshKernel
<1>3. /\ report.seq \in Nat /\ report.seq > 0 /\ report.seq + MaxRuns + 1 < Half
      /\ reports[1 - (report.seq % 2)] = report.seq - 1 /\ reports[report.seq % 2] < report.seq
  BY <1>1, <1>2, SystemAssumption, Arming
<1>4. reports[report.seq % 2] \in Nat /\ MaxRuns - runs = MaxRuns
  BY <1>1, <1>2, <1>3, Parity, SpanFacts, SystemAssumption
<1> QED BY <1>1, <1>2, <1>3, <1>4 DEF ReportInv, Mine, At

\* What a step can make of the report files, be it cut short or not.
ReportMoves ==
  \/ reports' = reports
  \/ At("OPEN") /\ reports' = [reports EXCEPT ![ReportFile] = 0]
  \/ At("WRITE") /\ reports' = Written

LEMMA NextReports ==
  ASSUME [Next]_vars
  PROVE  ReportMoves
<1>1. CASE Kernel
  BY <1>1
     DEF Kernel, KernelNext, Drain, Acknowledge, Release, WriteBackConsumer, Sample, Recheck,
         CreateDump, AnchorDump, ExtendDump, CheckReport, ReadReport, OpenReport, WriteReport,
         kernelVars, ReportMoves
<1>2. CASE Restart
  BY <1>2 DEF Restart, CutReports, ReportMoves
<1>3. CASE Start \/ Game \/ Reset \/ UNCHANGED vars
  BY <1>3 DEF Start, Game, Reset, vars, kernelVars, ReportMoves
<1> QED BY <1>1, <1>2, <1>3 DEF Next

\* The file of this start is the only one that changes, and holds nothing newer
\* than the number of the start, which is of its parity.
LEMMA ReportFiles ==
  ASSUME TypeInv, ReportInv, ReportMoves
  PROVE  /\ reports' \in [0 .. 1 -> Numbers] /\ reports'[1 - Mine] = report.seq - 1
         /\ reports'[Mine] \in {reports[Mine], 0, report.seq}
         /\ \A i \in 0 .. 1 : /\ reports'[i] = 0 \/ reports'[i] % 2 = i
                              /\ reports'[i] <= report.seq
<1>1. /\ report.seq \in Nat /\ Mine \in 0 .. 1 /\ 1 - Mine \in 0 .. 1 /\ 1 - Mine # Mine
      /\ reports \in [0 .. 1 -> Numbers] /\ report.seq \in Numbers
      /\ \A i \in 0 .. 1 : reports[i] \in Nat /\ (i = Mine \/ i = 1 - Mine)
  BY ReportFacts
<1>2. /\ reports[1 - Mine] = report.seq - 1 /\ reports[Mine] <= report.seq
      /\ \A i \in 0 .. 1 : reports[i] = 0 \/ reports[i] % 2 = i
  BY DEF ReportInv
<1>3. \/ reports' = reports
      \/ \E n \in {0, report.seq} : reports' = [reports EXCEPT ![Mine] = n]
  BY DEF ReportMoves, ReportInv, ReportFile, Written, Mine
<1>4. CASE reports' = reports
  BY <1>1, <1>2, <1>4
<1>5. ASSUME NEW n \in {0, report.seq}, reports' = [reports EXCEPT ![Mine] = n]
      PROVE  /\ reports' \in [0 .. 1 -> Numbers] /\ reports'[1 - Mine] = report.seq - 1
             /\ reports'[Mine] \in {0, report.seq}
             /\ \A i \in 0 .. 1 : /\ reports'[i] = 0 \/ reports'[i] % 2 = i
                                  /\ reports'[i] <= report.seq
  <2>1. /\ reports' \in [0 .. 1 -> Numbers] /\ reports'[1 - Mine] = report.seq - 1
        /\ reports'[Mine] = n
    BY <1>1, <1>2, <1>5, SpanFacts
  <2>2. n = 0 \/ n % 2 = Mine
    BY DEF Mine
  <2>3. \A i \in 0 .. 1 : i # Mine => reports'[i] = reports[i]
    BY <1>1, <1>5
  <2> QED BY <1>1, <1>2, <1>5, <2>1, <2>2, <2>3
<1> QED BY <1>3, <1>4, <1>5

LEMMA ReportStep ==
  ASSUME TypeInv, TypeInv', ReportInv, [Next]_vars
  PROVE  ReportInv'
<1>1. /\ report.seq \in Nat /\ Mine \in 0 .. 1 /\ 1 - Mine \in 0 .. 1 /\ report \in Reports
      /\ reports \in [0 .. 1 -> Numbers] /\ kernel \in Kernels
      /\ runs \in Nat /\ MaxRuns \in Nat /\ runs <= MaxRuns
      /\ \A i \in 0 .. 1 : reports[i] \in Nat
  BY ReportFacts
<1>2. /\ reports' \in [0 .. 1 -> Numbers] /\ reports'[1 - Mine] = report.seq - 1
      /\ \A i \in 0 .. 1 : /\ reports'[i] = 0 \/ reports'[i] % 2 = i
                           /\ reports'[i] <= report.seq
  BY NextReports, ReportFiles
\* As long as the console is on, the number is that of its start.
<1>3. ASSUME report'.seq = report.seq, runs' \in Nat, runs <= runs',
             kernel'.attempted \in {0, report.seq},
             kernel'.attempted = 0 => reports'[Mine] < report.seq,
             kernel'.stage = "READ" => kernel'.attempted = 0,
             kernel'.stage = "OPEN" => kernel'.attempted = report.seq /\ reports'[Mine] < report.seq,
             kernel'.stage = "WRITE" => kernel'.attempted = report.seq /\ reports'[Mine] = 0
      PROVE  ReportInv'
  <2>1. Mine' = Mine
    BY <1>3 DEF Mine
  <2>2. report'.seq > 0 /\ report'.seq + (MaxRuns - runs') + 1 < Half
    BY <1>1, <1>3, SpanFacts DEF ReportInv
  <2> QED BY <1>1, <1>2, <1>3, <2>1, <2>2 DEF ReportInv, At
<1>4. CASE Start \/ Game \/ Reset \/ UNCHANGED vars
  <2>1. UNCHANGED <<kernel, reports>> /\ runs' \in {runs, runs + 1}
    BY <1>4 DEF Start, Game, Reset, vars, kernelVars
  <2>2. report'.seq = report.seq
    <3>1. CASE Start \/ Reset \/ UNCHANGED vars
      BY <3>1 DEF Start, Reset, CrashInit, vars, mailboxVars
    <3>2. CASE Game
      BY <1>1, <3>2
         DEF Game, GameNext, OpenPhase, StoreBody, StoreBegin, StoreEnd, Refuse, CountDropped,
             PutEntry, PutCursor, PutInverse, WriteBack, WriteBackControl, Capture,
             WriteBackReport, Seal, mailboxVars, Reports
    <3> QED BY <1>4, <3>1, <3>2
  <2>3. runs' \in Nat /\ runs <= runs'
    BY <1>1, <2>1
  <2> QED BY <1>3, <2>1, <2>2, <2>3 DEF ReportInv, At
<1>5. CASE Kernel
  <2>1. report'.seq = report.seq /\ runs' = runs /\ KernelNext /\ runs <= runs'
    BY <1>1, <1>5, KernelFrame
  <2>2. ASSUME reports' = reports, kernel'.attempted = kernel.attempted,
               kernel'.stage \notin {"READ", "OPEN", "WRITE"}
        PROVE  ReportInv'
    BY <1>1, <1>3, <2>1, <2>2 DEF ReportInv
  <2>3. CASE Drain \/ Recheck
    BY <1>1, <2>2, <2>3 DEF Drain, Recheck, EmitPhaseTrace, Goto, Kernels
  <2>4. CASE Acknowledge \/ Release \/ Sample
    BY <1>1, <2>2, <2>4 DEF Acknowledge, Release, Sample, Goto, Done, Kernels
  <2>5. CASE CreateDump \/ AnchorDump \/ ExtendDump
    <3>1. kernel.back \in {"ACK", "CHECK"}
      BY <2>5 DEF CreateDump, AnchorDump, ExtendDump, At, TypeInv, PollShape
    <3> QED BY <1>1, <2>2, <2>5, <3>1 DEF CreateDump, AnchorDump, ExtendDump, Goto, Kernels
  <2>6. CASE CheckReport
    <3>1. /\ reports' = reports /\ kernel'.attempted = kernel.attempted
          /\ kernel'.stage = IF ReportPending THEN "READ" ELSE "DRAIN"
      BY <1>1, <2>6 DEF CheckReport, Done, Kernels
    <3>2. kernel'.stage = "READ" => kernel.attempted = 0
      BY <3>1 DEF ReportPending, ReportInv
    <3> QED BY <1>1, <1>3, <2>1, <3>1, <3>2 DEF ReportInv
  <2>7. CASE ReadReport
    <3>1. /\ reports' = reports /\ kernel'.attempted = report.seq /\ At("READ")
          /\ kernel'.stage \in {"OPEN", "DRAIN"}
      BY <1>1, <2>7 DEF ReadReport, Kernels
    <3>2. reports[Mine] < report.seq /\ report.seq # 0
      BY <1>1, <3>1 DEF ReportInv
    <3> QED BY <1>1, <1>3, <2>1, <3>1, <3>2
  <2>8. CASE OpenReport
    <3>1. At("OPEN") /\ kernel.attempted = report.seq /\ report.seq # 0 /\ reports[Mine] < report.seq
      BY <1>1, <2>8 DEF OpenReport, ReportInv, At
    <3>2. CASE reports' = [reports EXCEPT ![ReportFile] = 0] /\ Goto("WRITE")
      <4>1. reports'[Mine] = 0
        BY <1>1, <3>1, <3>2 DEF ReportFile, Mine
      <4>2. kernel'.stage = "WRITE" /\ kernel'.attempted = report.seq
        BY <1>1, <3>1, <3>2 DEF Goto, Kernels
      <4> QED BY <1>1, <1>3, <2>1, <3>1, <4>1, <4>2
    <3>3. CASE reports' = reports /\ kernel' = [kernel EXCEPT !.stage = "DRAIN", !.outcome = "FAILED"]
      BY <1>1, <2>2, <3>3 DEF Kernels
    <3> QED BY <2>8, <3>2, <3>3 DEF OpenReport
  <2>9. CASE WriteReport
    <3>1. /\ kernel.attempted = report.seq /\ report.seq # 0
          /\ kernel'.stage = "DRAIN" /\ kernel'.attempted = kernel.attempted
      <4>1. /\ kernel.stage = "WRITE" /\ kernel.attempted = report.seq
            /\ report.seq > 0 /\ report.seq # 0
        BY <1>1, <2>9 DEF WriteReport, ReportInv, At
      <4>2. \E outcome : kernel' = [kernel EXCEPT !.stage = "DRAIN", !.outcome = outcome]
        BY <2>9 DEF WriteReport
      <4>3. kernel'.stage = "DRAIN" /\ kernel'.attempted = kernel.attempted
        BY <1>1, <4>2 DEF Kernels
      <4> QED BY <4>1, <4>3
    <3> QED BY <1>1, <1>3, <2>1, <3>1
  <2>10. CASE WriteBackConsumer
    BY <1>1, <1>3, <2>1, <2>10 DEF WriteBackConsumer, kernelVars, ReportInv, At
  <2> QED
    BY <2>1, <2>3, <2>4, <2>5, <2>6, <2>7, <2>8, <2>9, <2>10 DEF KernelNext
\* The next start counts on from what it finds.
<1>6. CASE Restart
  <2>1. /\ runs' = runs + 1 /\ runs < MaxRuns /\ kernel' = FreshKernel
        /\ report'.seq = ArmedSeq(reports')
    BY <1>6 DEF Restart, ArmedReport
  <2>2. PICK k \in Nat : k = MaxRuns - (runs + 1)
    BY <1>1, <2>1
  <2>3. \A i \in 0 .. 1 : reports'[i] + k + 2 < Half
    <3>1. report.seq + k + 2 < Half
      BY <1>1, <2>2 DEF ReportInv
    <3>2. \A i \in 0 .. 1 : reports'[i] \in Nat /\ reports'[i] <= report.seq
      BY <1>2, SpanFacts
    <3>3. Half \in Nat
      BY SpanFacts
    <3> SUFFICES ASSUME NEW i \in 0 .. 1
                 PROVE  reports'[i] + k + 2 < Half
      OBVIOUS
    <3>4. PICK r \in Nat : r = reports'[i] /\ r <= report.seq
      BY <3>2
    <3>5. PICK half \in Nat : half = Half
      BY <3>3
    <3>6. r + k + 2 < half
      BY <1>1, <2>2, <3>1, <3>4, <3>5
    <3> QED BY <3>4, <3>5, <3>6
  <2>4. PICK files \in [0 .. 1 -> Numbers] : files = reports'
    BY <1>2
  <2>5. PICK seq \in Nat :
          /\ seq = report'.seq /\ seq > 0 /\ seq + k + 1 < Half
          /\ files[1 - (seq % 2)] = seq - 1 /\ files[seq % 2] < seq
    BY <1>2, <2>1, <2>3, <2>4, Arming
  <2>6. files[seq % 2] \in Nat
    BY <2>4, <2>5, Parity, SpanFacts
  <2>7. kernel'.attempted = 0 /\ kernel'.stage = "DRAIN"
    BY <2>1 DEF FreshKernel
  <2> QED BY <1>1, <1>2, <2>1, <2>2, <2>4, <2>5, <2>6, <2>7 DEF ReportInv, Mine, At
<1> QED BY <1>4, <1>5, <1>6 DEF Next

THEOREM ReportsHold == Spec => []ReportInv
<1>1. Spec => []TypeInv
  <2>1. RingInv => TypeInv
    BY DEF RingInv
  <2> QED BY <2>1, RingHolds, PTL
<1>2. Init => ReportInv
  BY ReportStart
<1>3. TypeInv /\ TypeInv' /\ ReportInv /\ [Next]_vars => ReportInv'
  BY ReportStep
<1> QED BY <1>1, <1>2, <1>3, PTL DEF Spec

LEMMA NewestReport ==
  ASSUME NEW files \in [0 .. 1 -> Numbers], NEW i \in 0 .. 1,
         files[i] < Half, files[1 - i] <= files[i]
  PROVE  Newest({files[j] : j \in 0 .. 1}) = files[i]
<1> DEFINE G == {files[j] : j \in 0 .. 1} \ {0}
<1>1. /\ files[i] \in Numbers /\ files[1 - i] \in Numbers
      /\ files[i] \in Nat /\ files[1 - i] \in Nat /\ 1 - i \in 0 .. 1
      /\ \A h \in G : h # 0 /\ h \in {files[i], files[1 - i]}
  BY SpanFacts
<1>2. files[i] # 0 => files[i] \in G
  OBVIOUS
<1>3. Newest({files[j] : j \in 0 .. 1}) = NewestOf(G)
  BY DEF Newest
<1> HIDE DEF G
<1>4. CASE files[i] = 0
  <2>1. G \subseteq {0}
    BY <1>1, <1>4
  <2> QED BY <1>3, <1>4, <2>1, NoneUsed
<1>5. CASE files[i] # 0
  <2>1. \A h \in G \ {0, files[i]} : Newer(files[i], h)
    <3> SUFFICES ASSUME NEW h \in G \ {0, files[i]} PROVE Newer(files[i], h)
      OBVIOUS
    <3>1. h = files[1 - i] /\ h < files[i] /\ h < Half
      BY <1>1, SpanFacts
    <3> QED BY <1>1, <3>1, NewerIsGreater DEF Half
  <2>2. G \in SUBSET Numbers
    BY <1>1
  <2> QED BY <1>2, <1>3, <1>5, <2>1, <2>2, NewestIs
<1> QED BY <1>4, <1>5

LEMMA NewestReportKept ==
  ASSUME TypeInv, ReportInv, ReportMoves
  PROVE  NotOlder(Newest({reports'[i] : i \in 0 .. 1}), Newest({reports[i] : i \in 0 .. 1}))
<1>1. /\ report.seq \in Nat /\ report.seq < Half /\ Mine \in 0 .. 1 /\ 1 - Mine \in 0 .. 1
      /\ reports \in [0 .. 1 -> Numbers] /\ report.seq \in Numbers /\ report.seq > 0
      /\ reports[1 - Mine] = report.seq - 1 /\ 1 - (1 - Mine) = Mine
      /\ \A i \in 0 .. 1 : reports[i] \in Nat
  BY ReportFacts DEF ReportInv
<1>2. PICK files \in [0 .. 1 -> Numbers] :
        files = reports' /\ files[1 - Mine] = report.seq - 1
  BY ReportFiles
<1>3. CASE reports' = reports
  BY <1>3 DEF NotOlder
<1>4. CASE At("OPEN") /\ reports' = [reports EXCEPT ![ReportFile] = 0]
  <2>1. ReportFile = Mine /\ reports[Mine] < report.seq
    BY <1>4 DEF ReportFile, Mine, ReportInv
  <2>2. files[Mine] = 0
    BY <1>1, <1>2, <1>4, <2>1
  <2>3. Newest({reports[j] : j \in 0 .. 1}) = reports[1 - Mine]
    BY <1>1, <2>1, SpanFacts, NewestReport
  <2>4. Newest({files[j] : j \in 0 .. 1}) = files[1 - Mine]
    BY <1>1, <1>2, <2>2, SpanFacts, NewestReport
  <2> QED BY <1>1, <1>2, <2>3, <2>4 DEF NotOlder
<1>5. CASE At("WRITE") /\ reports' = Written
  <2>1. kernel.attempted = report.seq /\ reports[Mine] = 0
    BY <1>5 DEF ReportInv
  <2>2. files[Mine] = report.seq
    BY <1>1, <1>2, <1>5, <2>1 DEF Written, ReportFile, Mine
  <2>3. Newest({reports[j] : j \in 0 .. 1}) = reports[1 - Mine]
    BY <1>1, <2>1, SpanFacts, NewestReport
  <2>4. Newest({files[j] : j \in 0 .. 1}) = files[Mine]
    BY <1>1, <1>2, <2>2, SpanFacts, NewestReport
  <2>5. Newer(report.seq, report.seq - 1)
    <3>1. PICK before \in Numbers : before = report.seq - 1 /\ before < report.seq
      BY <1>1, SpanFacts
    <3> QED BY <1>1, <3>1, SpanFacts, NewerIsGreater DEF Half
  <2> QED BY <1>1, <1>2, <2>2, <2>3, <2>4, <2>5 DEF NotOlder
<1> QED BY <1>3, <1>4, <1>5 DEF ReportMoves

LEMMA NewestOfKnown ==
  ASSUME NEW G
  PROVE  Newest(G) = NewestOf(G)
<1>1. (G \ {0}) \ {0} = G \ {0}
  OBVIOUS
<1>2. \A g : (G \ {0}) \ {0, g} = G \ {0, g}
  OBVIOUS
<1>3. (CHOOSE g \in (G \ {0}) \ {0} : \A h \in (G \ {0}) \ {0, g} : Newer(g, h))
        = CHOOSE g \in G \ {0} : \A h \in G \ {0, g} : Newer(g, h)
  BY <1>1, <1>2, Zenon
<1>4. Newest(G) = IF (G \ {0}) \ {0} = {} THEN 0
                  ELSE CHOOSE g \in (G \ {0}) \ {0} : \A h \in (G \ {0}) \ {0, g} : Newer(g, h)
  BY Zenon DEF Newest, NewestOf
<1>5. NewestOf(G) = IF G \ {0} = {} THEN 0
                    ELSE CHOOSE g \in G \ {0} : \A h \in G \ {0, g} : Newer(g, h)
  BY Zenon DEF NewestOf
<1> QED BY <1>1, <1>3, <1>4, <1>5, Zenon

\* Neither the newest dump nor the newest report leaves the card before a newer
\* one is complete, and no dump but the oldest is given up: whatever call fails
\* or is cut short, and although the generations wrap and are compared in pairs.
THEOREM NewestIsKept == Spec => NewestKept
<1>1. ASSUME TypeInv, DumpInv, ReportInv, [Next]_vars
      PROVE  /\ NotOlder(Newest(Known(dumps')), Newest(Known(dumps)))
             /\ NotOlder(Newest({reports'[i] : i \in 0 .. 1}), Newest({reports[i] : i \in 0 .. 1}))
             /\ \A s \in Slots :
                  Readable(dumps[s]) /\ ~Readable(dumps'[s]) =>
                    \A other \in Slots \ {s} :
                      Newer(dumps[other].generation, dumps[s].generation)
  <2>1. kernel \in Kernels
    BY <1>1 DEF TypeInv, RingTypeOK
  <2>2. /\ \/ NewestOf(Known(dumps')) = NewestOf(Known(dumps))
           \/ Newer(NewestOf(Known(dumps')), NewestOf(Known(dumps)))
        /\ OldestGoes(dumps')
    BY <1>1, <2>1, NextDumps, MovesKept
  <2>3. NotOlder(Newest(Known(dumps')), Newest(Known(dumps)))
    BY <2>2, NewestOfKnown DEF NotOlder
  <2>4. NotOlder(Newest({reports'[i] : i \in 0 .. 1}), Newest({reports[i] : i \in 0 .. 1}))
    BY <1>1, NextReports, NewestReportKept
  <2> QED BY <2>2, <2>3, <2>4 DEF OldestGoes
<1>2. RingInv => TypeInv
  BY DEF RingInv
<1> QED BY <1>1, <1>2, RingHolds, DumpsHold, ReportsHold, PTL DEF Spec, NewestKept
=============================================================================
