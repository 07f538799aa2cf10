------------------------------ MODULE MCLmCrash ------------------------------
(***************************************************************************)
(* Instances of LmCrashSystem for TLC.                                     *)
(***************************************************************************)
EXTENDS LmCrashSystem

Used(generations) == [s \in Slots |-> IF generations[s + 1] = 0 THEN Torn
                                      ELSE Dump(generations[s + 1], NoTrace)]

\* Every slot in use, the newest generation the last before the wrap.
MCDumps == {Used(<<Span - 3, Span - 1, Span - 2>>)}
MCReports == {[i \in 0 .. 1 |-> 2 + i]}
=============================================================================
