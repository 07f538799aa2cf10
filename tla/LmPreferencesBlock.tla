------------------------- MODULE LmPreferencesBlock -------------------------
(***************************************************************************)
(* The 256-byte block through which the game and the kernel exchange the   *)
(* in-game preferences of Luigi's Mansion (lm_preferences.h).  The game    *)
(* owns the request and the values, the kernel owns the reply.  The        *)
(* checksum of a block is taken as exact and memory as reliable, so a      *)
(* block always verifies; what a file holds may not.                       *)
(***************************************************************************)
EXTENDS Naturals, FiniteSets

CONSTANTS
  Keys,       \* the preference words
  Vals,       \* what a word can hold
  SeqMax,     \* largest request sequence number (2^32 - 1 in the code)
  Missing,    \* no file, or a file without the section
  Damaged     \* a section that does not parse or verify

ASSUME SeqAssumption == SeqMax \in Nat /\ SeqMax >= 2

\* What the running game holds, and what a section holds: a version 1 section,
\* or one edited by hand, may lack words.
Vectors  == [Keys -> Vals]
Sections == UNION {[present -> Vals] : present \in SUBSET Keys}

ASSUME SectionAssumption == Missing \notin Sections /\ Damaged \notin Sections

NoValues == [k \in {} |-> 0]

Seqs == 0 .. SeqMax
NextSeqUnbounded(seq) == seq + 1   \* variant: the counter does not wrap
NextSeq(seq) == IF seq = SeqMax THEN 1 ELSE seq + 1

LoadStatuses == {"OK", "NO_FILE", "INVALID", "IO_ERROR", "UNAVAILABLE"}

VARIABLES
  request,   \* PPC lines: requestSeq, values with presentLo/Hi
  reply      \* ARM line: ackSeq, status, ready

blockVars == <<request, reply>>

Requests == [seq : Seqs, values : Sections]
Replies  == [ack : Seqs, status : LoadStatuses, ready : BOOLEAN]

BlockTypeOK == request \in Requests /\ reply \in Replies
=============================================================================
