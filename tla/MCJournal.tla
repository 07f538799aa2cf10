------------------------------- MODULE MCJournal -------------------------------
(***************************************************************************)
(* Instances of JournalSystem for TLC.                                     *)
(***************************************************************************)
EXTENDS JournalSystem

Pair(first, second) == [i \in 0 .. 1 |-> IF i = 0 THEN first ELSE second]

\* Both files, the newer with the last generation before the wrap; a file in a
\* newer format beside an older one.
Both == Pair(Good(Span - 1, AllOf(2)), Good(Span - 2, AllOf(1)))
Mixed == Pair(Good(1, AllOf(1)), NewerFormat)

MCFiles == {[j \in Journals |-> Both],
            [j \in Journals |-> IF j \in {"PB", "PROGRESS"} THEN Mixed ELSE Both]}
=============================================================================
