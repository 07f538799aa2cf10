---------------------------- MODULE JournalRegister ----------------------------
(***************************************************************************)
(* What the pairs of files promise: a register for each journal.  The      *)
(* value last acknowledged is not lost, and what a restart finds is that   *)
(* value or one that was being written.                                    *)
(***************************************************************************)
CONSTANT Registers

VARIABLES
  stored,  \* what a restart would find in each
  kept,    \* the value each acknowledged last
  asked,   \* the value being written to it
  runs     \* how often a processor was restarted

vars == <<stored, kept, asked, runs>>

Save(r) == stored'[r] = asked[r] /\ kept'[r] = asked[r]

\* Not acknowledged: it may have been written all the same, or be lost again.
Try(r) == stored'[r] \in {stored[r], kept[r], asked[r]} /\ kept'[r] = kept[r]

Boot(r) == stored'[r] \in {stored[r], kept[r], asked[r]} /\ kept'[r] = stored'[r]

Same(r) == stored'[r] = stored[r] /\ kept'[r] = kept[r]

\* Values are saved one at a time.
Work ==
  /\ runs' = runs
  /\ \E r \in Registers : (Save(r) \/ Try(r)) /\ \A other \in Registers \ {r} : Same(other)

\* The console is restarted, or the game alone.
Restart == runs' # runs /\ ((\A r \in Registers : Boot(r)) \/ \A r \in Registers : Same(r))

Spec == kept = stored /\ [][Work \/ Restart]_vars
=============================================================================
