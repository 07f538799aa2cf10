--------------------------- MODULE MCLmPreferences ---------------------------
(***************************************************************************)
(* Instances of LmPreferencesSystem for TLC.                               *)
(***************************************************************************)
EXTENDS LmPreferencesSystem

MCDefaults == [k \in Keys |-> 0]

Card(file) == [path |-> file, backup |-> Missing]
Ini(section) == [setup |-> "player", section |-> section]

MCFirstCards == {Card(Missing), Card(Ini(Missing))}

\* An old section that lacks words, a section of this version and a damaged one.
OldSection == [k \in {CHOOSE k \in Keys : TRUE} |-> 1]
FullSection == [k \in Keys |-> 1]
MCUsedCards == {Card(Ini(s)) : s \in {OldSection, FullSection}}
MCCards == MCFirstCards \cup MCUsedCards \cup {Card(Ini(Damaged))}
=============================================================================
