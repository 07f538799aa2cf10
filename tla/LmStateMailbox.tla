--------------------------- MODULE LmStateMailbox ---------------------------
(***************************************************************************)
(* The memory two processors share to move Luigi's Mansion save states to  *)
(* the SD card: the 928-byte mailbox of lm_state_storage.h and the MEM2    *)
(* snapshot reservation.  The game's processor (PPC) owns the request      *)
(* lines, the Nintendont kernel's processor (ARM) owns the answer lines,   *)
(* and neither ever writes the other's cache line, so a line is one        *)
(* variable and a cache write-back publishes all of it at once.            *)
(***************************************************************************)
EXTENDS Naturals, Sequences, FiniteSets

CONSTANTS
  MaxSession,   \* bound: processes of the game a behaviour may start
  MaxGen,       \* bound: generations of a saved state
  MaxId,        \* LM_STATE_STORAGE_MAX_ID
  SeqMax,       \* largest request sequence number (2^32 - 1 in the code)
  Capacity,     \* LM_STATE_CATALOG_CAPACITY
  MaxCell,      \* payload slices of one snapshot
  Names,        \* display names an archive can be given
  NoName,       \* the empty name
  Configs,      \* launcher set-ups (BootConfigId)
  Builds,       \* builds of the mod that wrote an archive
  Blank         \* memory that holds no snapshot; a cleared commit word

ASSUME BoundsAssumption ==
  /\ MaxSession \in Nat \ {0}
  /\ MaxGen \in Nat \ {0}
  /\ MaxId \in Nat \ {0}
  /\ SeqMax \in Nat /\ SeqMax >= 2
  /\ Capacity \in Nat \ {0}
  /\ MaxCell \in Nat \ {0}

ASSUME DataAssumption ==
  /\ NoName \in Names
  /\ Configs \subseteq Nat \ {0}
  /\ 1 \in Builds

Sessions == 1 .. MaxSession   \* a process session is fresh, never reused
Ids      == 1 .. MaxId
Cells    == 1 .. MaxCell
Seqs     == 0 .. SeqMax

Commands == {"EXPORT", "IMPORT", "CATALOG", "RENAME", "KEY", "DELETE"}

Statuses == {"OK", "UNAVAILABLE", "IO_ERROR", "BAD_FILE", "FULL", "NOT_FOUND",
             "WRONG_SESSION", "CANCELLED", "NAME_ERROR", "KEY_ERROR",
             "CONFIG_ERROR", "STALE_SELECTION", "DELETE_CLEANUP"}

KeyStatuses == {"UNAVAILABLE", "MISSING", "READY", "INVALID", "IO_ERROR"}

-----------------------------------------------------------------------------
(* Data.  A snapshot is named by the process that captured it, its         *)
(* generation and whether it carries a retained-owner profile: all that    *)
(* its checksums, authentication tag and trailer tell apart.               *)

Snapshots == [owner : Sessions, gen : 1 .. MaxGen, profile : BOOLEAN]

Memory == [Cells -> Snapshots \cup {Blank}]

ASSUME BlankAssumption == Blank \notin Snapshots

\* A key is named by the process whose seed made it; 0 is another card's key.
KeyIds == 0 .. MaxSession

\* The 64-byte archive envelope.  Version 0 stands for bytes that are no
\* envelope at all; owner is a process session (version 1) or a key id
\* (version 2); config is reserved1; state is what the payload CRC, the
\* generation and the authentication words bind.
Headers == [version : 0 .. 2, owner : KeyIds, config : Configs \cup {0},
            build : Builds, state : Snapshots]

ValidHeader(h) ==
  \/ h.version = 1 /\ h.config = 0
  \/ h.version = 2 /\ h.config # 0

\* A clean payload is the snapshot its envelope names, slice by slice.
Holds(memory, state) == \A c \in Cells : memory[c] = state

Coherent(memory) == memory[1] # Blank /\ Holds(memory, memory[1])

\* What the catalogue publishes of a file and a deletion must prove: its
\* envelope CRC and its length.
Prints == [header : Headers, complete : BOOLEAN]

PageEntries == [id : Ids, print : Prints, name : Names]

-----------------------------------------------------------------------------
VARIABLES
  request,      \* PPC line: requestSeq, command, archiveId, processSession
  requestName,  \* PPC line: the name to give
  keySeed,      \* PPC line: seed for a first key
  deleteProof,  \* PPC line: the page and the file a deletion was confirmed on
  header,       \* envelope line, written by each side for its own transfers
  response,     \* ARM line: ackSeq, status, resultId, transferred
  receipt,      \* ARM line, published before the response line
  page,         \* ARM lines: the last catalogue page
  keyLine,      \* ARM line: key status, key id and launcher set-up
  snapshot      \* the MEM2 snapshot reservation

ppcLines == <<request, requestName, keySeed, deleteProof>>
armLines == <<response, receipt, page, keyLine>>
mailboxVars == <<ppcLines, armLines, header, snapshot>>

NoHeader == [version |-> 0, owner |-> 0, config |-> 0, build |-> 1,
             state |-> [owner |-> 1, gen |-> 1, profile |-> FALSE]]

NoPrint == [header |-> NoHeader, complete |-> FALSE]

Requests == [seq : Seqs, command : Commands \cup {"NONE"},
             id : 0 .. MaxId, session : 0 .. MaxSession]
Proofs == [seq : Seqs, print : Prints]
Responses == [ack : Seqs, status : Statuses, resultId : 0 .. MaxId + 1,
              transferred : 0 .. MaxCell]
Receipts == [session : 0 .. MaxSession, command : Commands \cup {"NONE"},
             id : 0 .. MaxId, seq : Seqs]
Pages == [after : 0 .. MaxId, entries : Seq(PageEntries), more : BOOLEAN]
KeyLines == [status : KeyStatuses, id : KeyIds, config : Configs]

MailboxTypeOK ==
  /\ request \in Requests /\ requestName \in Names
  /\ keySeed \in KeyIds /\ deleteProof \in Proofs
  /\ header \in Headers /\ snapshot \in Memory
  /\ response \in Responses /\ receipt \in Receipts
  /\ page \in Pages /\ keyLine \in KeyLines

\* LmStateStorageInit zeroes the mailbox; ResolveKey fills the key line.
NoRequest == [seq |-> 0, command |-> "NONE", id |-> 0, session |-> 0]
NoProof == [seq |-> 0, print |-> NoPrint]
NoResponse == [ack |-> 0, status |-> "OK", resultId |-> 0, transferred |-> 0]
NoReceipt == [session |-> 0, command |-> "NONE", id |-> 0, seq |-> 0]
NoPage == [after |-> 0, entries |-> <<>>, more |-> FALSE]

NextSeqUnbounded(s) == s + 1    \* variant: the counter outgrows its word

\* if (++sStorageSeq == 0u) ++sStorageSeq: the next number, skipping zero.
NextSeq(s) == IF s = SeqMax THEN 1 ELSE s + 1

\* LmStateStorageReceiptMatches.
ReceiptMatches(seq, session, command, id) ==
  /\ response.ack = seq
  /\ receipt = [session |-> session, command |-> command, id |-> id, seq |-> seq]
=============================================================================
