----------------------------- MODULE MCLmState -----------------------------
(***************************************************************************)
(* Instances of LmStateSystem for TLC: what is on the card at first.       *)
(***************************************************************************)
EXTENDS LmStateSystem

MCConfigs == {1}
MCTwoConfigs == {1, 2}
MCBuilds == {1, 2}
MCOneBuild == {1}
MCOnlyNoName == {NoName}
MCNames == {NoName, "a"}

Card(files) == [id \in Ids |-> IF id \in DOMAIN files THEN files[id] ELSE NoFile]

File(version, owner, build, state, payload) ==
  [header |-> [version |-> version, owner |-> owner,
               config |-> IF version = 2 THEN 1 ELSE 0, build |-> build,
               state |-> state],
   complete |-> TRUE, payload |-> payload]

AState == [owner |-> MaxSession, gen |-> 1, profile |-> TRUE]
Clean(state) == [c \in Cells |-> state]

\* A first run of the console: no archive at all.
MCEmptyCard == {Card(<<>>)}

\* Another card's archive, a file that is no archive, a damaged payload under
\* a good envelope, and an archive of another build: all can be copied to a card.
Foreign == File(2, 0, 1, AState, Clean(AState))
NotArchive == [NoFile EXCEPT !.complete = TRUE]
Damaged == File(2, 1, 1, AState, [Clean(AState) EXCEPT ![MaxCell] = Blank])
OtherBuild == File(2, 1, 2, AState, Clean(AState))

MCStrangeCards == {Card(<<f>>) : f \in {Foreign, NotArchive, Damaged, OtherBuild}}
MCForeignCard == {Card(<<Foreign>>)}
MCFullCards == {[id \in Ids |-> Foreign], Card(<<Foreign, NotArchive>>)}
=============================================================================
