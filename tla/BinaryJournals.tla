---------------------------- MODULE BinaryJournals ----------------------------
(***************************************************************************)
(* The binary journals of launcher/kernel/SusamuneCfg.c: personal bests,   *)
(* records, stage targets and split statistics.  Each has two files that   *)
(* are written in turn and a mailbox; the kernel serves one request at a   *)
(* time, in a fixed order of priority, while the game runs.                *)
(***************************************************************************)
EXTENDS Integers, FiniteSets, Sequences

CONSTANTS
  Journals,    \* the journals in use
  Span,        \* generations and sequence numbers count modulo 2^32
  MaxVersion,  \* bound: versions of what a journal holds
  MaxFaults    \* bound: file calls that fail

\* SusamunePbService: who is served first.
Order == <<"PB", "PROGRESS", "TARGETS", "SPLITS">>

ASSUME JournalsAssumption ==
  /\ Journals # {} /\ Journals \subseteq {Order[i] : i \in DOMAIN Order}
  /\ Span \in Nat /\ Span > 2 /\ Span % 2 = 0
  /\ MaxVersion \in Nat
  /\ MaxFaults \in Nat

VARIABLES
  mailbox,  \* [payload, seq, ack, failed, writable] of each journal
  files,    \* the two files of each
  table,    \* [ready, active, generation, ack]: the kernel's statics of each
  worker,   \* [stage, journal, seq, payload, failed]: SusamunePbService
  faults    \* the calls that have failed

journalVars == <<mailbox, files, table, worker, faults>>

Versions == 0 .. MaxVersion
Numbers == 0 .. Span - 1

\* What a journal holds, in two parts that are copied one after the other.
Payloads == [first : Versions, second : Versions]
AllOf(version) == [first |-> version, second |-> version]
Defaults == AllOf(0)
IsWhole(payload) == payload.first = payload.second

\* Missing, torn or of another kind; one this kernel wrote; a newer format.
Bad == [kind |-> "BAD", generation |-> 0, payload |-> Defaults]
NewerFormat == [kind |-> "NEWER", generation |-> 0, payload |-> Defaults]
Good(generation, payload) == [kind |-> "GOOD", generation |-> generation, payload |-> payload]
Files == [kind : {"BAD", "GOOD", "NEWER"}, generation : Numbers, payload : Payloads]
IsGood(file) == file.kind = "GOOD"

Boxes == [payload : Payloads, seq : Numbers, ack : Numbers, failed : BOOLEAN, writable : BOOLEAN]
Tables == [ready : BOOLEAN, active : {-1, 0, 1}, generation : Numbers, ack : Numbers]
Workers == [stage : {"IDLE", "FIRST", "SECOND", "OPEN", "WRITE", "ANSWER"},
            journal : Journals, seq : Numbers, payload : Payloads, failed : BOOLEAN]

JournalsTypeOK ==
  /\ mailbox \in [Journals -> Boxes]
  /\ files \in [Journals -> [0 .. 1 -> Files]]
  /\ table \in [Journals -> Tables]
  /\ worker \in Workers
  /\ faults \in 0 .. MaxFaults

\* PbGenerationIsNewer: the signed difference, so generations may wrap.
NewerGeneration(candidate, current) == (candidate - current) % Span \in 1 .. Span \div 2 - 1

\* The file that counts, if any: the second only if it is newer.
Chosen(pair) ==
  IF IsGood(pair[1]) /\ (~IsGood(pair[0]) \/ NewerGeneration(pair[1].generation, pair[0].generation))
  THEN 1 ELSE IF IsGood(pair[0]) THEN 0 ELSE -1
At(pair, i) == IF i = -1 THEN Defaults ELSE pair[i].payload

ReadNewer(j, file) == IF IsGood(file) THEN "VALID" ELSE "INVALID"   \* variant

\* Read<journal>File.  Of the personal bests only the length is looked at
\* first, so a newer format of another length is no better than a torn file.
ReadResult(j, file) ==
  IF IsGood(file) THEN "VALID"
  ELSE IF file.kind = "NEWER" /\ j # "PB" THEN "UNSAFE" ELSE "INVALID"

\* Init<journal>Files, when the files in unread cannot be read: what is read
\* is offered to the game, but nothing is ever written over what is not.
Seen(pair, unread) == [i \in 0 .. 1 |-> IF i \in unread THEN Bad ELSE pair[i]]
Safe(j, pair, unread) == unread = {} /\ \A i \in 0 .. 1 : ReadResult(j, pair[i]) # "UNSAFE"
InitTable(j, pair, unread) ==
  LET active == Chosen(Seen(pair, unread))
  IN  [ready |-> Safe(j, pair, unread), active |-> active,
       generation |-> IF active = -1 THEN 0 ELSE pair[active].generation,
       ack |-> 0]
InitBox(j, pair, unread) ==
  [payload |-> At(pair, Chosen(Seen(pair, unread))), seq |-> 0, ack |-> 0,
   failed |-> FALSE, writable |-> Safe(j, pair, unread)]

InitWorker == [stage |-> "IDLE", journal |-> CHOOSE j \in Journals : TRUE,
               seq |-> 0, payload |-> Defaults, failed |-> FALSE]

\* SusamuneCfgInit; one journal may have a file that cannot be read.
CfgInit(cards) ==
  /\ \/ /\ table' = [j \in Journals |-> InitTable(j, cards[j], {})]
        /\ mailbox' = [j \in Journals |-> InitBox(j, cards[j], {})]
        /\ UNCHANGED faults
     \/ /\ faults < MaxFaults /\ faults' = faults + 1
        /\ \E k \in Journals, i \in 0 .. 1 :
             /\ table' = [j \in Journals |-> InitTable(j, cards[j], IF j = k THEN {i} ELSE {})]
             /\ mailbox' = [j \in Journals |-> InitBox(j, cards[j], IF j = k THEN {i} ELSE {})]
  /\ worker' = InitWorker
  /\ files' = cards

-----------------------------------------------------------------------------
On(stage) == worker.stage = stage
To(stage) == worker' = [worker EXCEPT !.stage = stage]

\* <journal>SavePending
SavePending(j) == table[j].ready /\ mailbox[j].seq # table[j].ack

Rank(j) == CHOOSE i \in DOMAIN Order : Order[i] = j

\* SusamunePbService takes up the first that is pending ...
Take(j) ==
  /\ On("IDLE")
  /\ SavePending(j) /\ \A k \in Journals : SavePending(k) => Rank(j) <= Rank(k)
  /\ worker' = [worker EXCEPT !.stage = "FIRST", !.journal = j, !.seq = mailbox[j].seq]
  /\ UNCHANGED <<mailbox, files, table, faults>>

\* ... and copies its payload, which the game must leave alone.
CopyFirst ==
  /\ On("FIRST")
  /\ worker' = [worker EXCEPT !.stage = "SECOND", !.payload.first = mailbox[worker.journal].payload.first]
  /\ UNCHANGED <<mailbox, files, table, faults>>

CopySecond ==
  /\ On("SECOND")
  /\ worker' = [worker EXCEPT !.stage = "OPEN", !.payload.second = mailbox[worker.journal].payload.second]
  /\ UNCHANGED <<mailbox, files, table, faults>>

\* Variant: the newest file is written over.
TargetActive(j) == IF table[j].active = -1 THEN 0 ELSE table[j].active

\* Write<journal>File: the other file ...
Target(j) == IF table[j].active = 0 THEN 1 ELSE 0

NextGenerationWide(j) == table[j].generation + 1   \* variant: the counter does not wrap

NextGeneration(j) == (table[j].generation + 1) % Span

Truncated == [files EXCEPT ![worker.journal][Target(worker.journal)] = Bad]
Written ==
  [files EXCEPT ![worker.journal][Target(worker.journal)] =
     Good(NextGeneration(worker.journal), worker.payload)]

Fail(stage) ==
  /\ faults < MaxFaults /\ faults' = faults + 1
  /\ worker' = [worker EXCEPT !.stage = stage, !.failed = TRUE]
  /\ UNCHANGED <<mailbox, table>>

\* ... is truncated ...
Open ==
  /\ On("OPEN")
  /\ \/ files' = Truncated /\ To("WRITE") /\ UNCHANGED <<mailbox, table, faults>>
     \/ files' \in {files, Truncated} /\ Fail("ANSWER")

\* ... and written; only then does it become the newest.
Write ==
  /\ On("WRITE")
  /\ \/ /\ files' = Written
        /\ worker' = [worker EXCEPT !.stage = "ANSWER", !.failed = FALSE]
        /\ table' = [table EXCEPT ![worker.journal].generation = NextGeneration(worker.journal),
                                  ![worker.journal].active = Target(worker.journal)]
        /\ UNCHANGED <<mailbox, faults>>
     \/ files' \in {files, Written} /\ Fail("ANSWER")

\* The status and the acknowledgement are one line.
Answer ==
  /\ On("ANSWER")
  /\ mailbox' = [mailbox EXCEPT ![worker.journal].ack = worker.seq,
                                ![worker.journal].failed = worker.failed]
  /\ table' = [table EXCEPT ![worker.journal].ack = worker.seq]
  /\ worker' = [InitWorker EXCEPT !.journal = worker.journal]
  /\ UNCHANGED <<files, faults>>

KernelNext == (\E j \in Journals : Take(j)) \/ CopyFirst \/ CopySecond \/ Open \/ Write \/ Answer
=============================================================================
