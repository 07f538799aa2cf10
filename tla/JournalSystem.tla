----------------------------- MODULE JournalSystem -----------------------------
(***************************************************************************)
(* The journals with their clients, resets of the game at any instruction, *)
(* and the console switched off at any step.                               *)
(***************************************************************************)
EXTENDS JournalClients

CONSTANTS
  InitialFiles,  \* what the card may hold at first
  MaxRuns        \* bound: resets and restarts

ASSUME SystemAssumption ==
  /\ InitialFiles \subseteq [Journals -> [0 .. 1 -> Files]]
  /\ \A cards \in InitialFiles, j \in Journals, i \in 0 .. 1 : IsWhole(cards[j][i].payload)
  /\ MaxRuns \in Nat

VARIABLE runs

vars == <<journalVars, clientVars, runs>>

Stored(j) == At(files[j], Chosen(files[j]))

Init ==
  /\ files \in InitialFiles
  /\ table = [j \in Journals |-> InitTable(j, files[j], {})]
  /\ mailbox = [j \in Journals |-> InitBox(j, files[j], {})]
  /\ worker = InitWorker /\ faults = 0
  /\ client = [j \in Journals |-> Adopted(mailbox[j], FALSE)]
  /\ newest \in Versions
  /\ \A j \in Journals, i \in 0 .. 1 : files[j][i].payload.first <= newest
  /\ \E j \in Journals, i \in 0 .. 1 : files[j][i].payload.first = newest
  /\ mixed = {} /\ runs = 0

Game ==
  /\ \/ ResetAll
     \/ \E j \in Journals : Edit(j) \/ Update(j)
  /\ UNCHANGED runs

Kernel == KernelNext /\ UNCHANGED <<clientVars, runs>>

Unanswered == {j \in Journals : client[j].staging \/ client[j].pending}

\* The game is reset and its payload injected again.  What it adopts is what was
\* asked for last, be it on the card, being written, or refused.
Reset ==
  /\ runs < MaxRuns /\ runs' = runs + 1
  /\ mixed' = mixed \cup Unanswered
  /\ client' = [j \in Journals |-> Adopted(mailbox[j], client[j].orphan \/ client[j].error \/ j \in Unanswered)]
  /\ UNCHANGED <<journalVars, newest>>

CutFiles == IF On("OPEN") THEN {files, Truncated} ELSE IF On("WRITE") THEN {files, Written} ELSE {files}

\* The console is switched off and on.
Restart ==
  /\ runs < MaxRuns /\ runs' = runs + 1
  /\ \E cards \in CutFiles : CfgInit(cards)
  /\ client' = [j \in Journals |-> Adopted(mailbox'[j], FALSE)]
  /\ UNCHANGED <<newest, mixed>>

Next == Game \/ Kernel \/ Reset \/ Restart

Spec == Init /\ [][Next]_vars

\* The kernel's main loop comes round to the service, and the game draws
\* frames for as long as it runs.
FairSpec == Spec /\ WF_vars(Kernel) /\ \A j \in Journals : WF_vars(Update(j) /\ UNCHANGED runs)

TypeOK == JournalsTypeOK /\ ClientsTypeOK /\ runs \in 0 .. MaxRuns

-----------------------------------------------------------------------------
(* What can go wrong only over several steps of both processors.           *)

\* A file with a good checksum holds one payload, not parts of two: nobody
\* changes a payload while the kernel copies it, unless a reset brought up a
\* process that does not know of the request.
FilesWhole ==
  \A j \in Journals \ mixed, i \in 0 .. 1 : IsGood(files[j][i]) => IsWhole(files[j][i].payload)

\* When the menu shows neither "Saving progress...", nor "Progress not
\* checkpointed", nor an error, a restart finds exactly what is shown.
ShownSaved ==
  \A j \in Journals :
    LET c == client[j]
    IN  c.backend /\ ~c.staging /\ ~c.pending /\ ~c.dirty /\ ~c.error /\ ~c.orphan
          => Stored(j) = c.live

\* Once the writes of a reset are over, neither file can bring back what was
\* there before it.
ResetSticks ==
  \A j \in Journals :
    client[j].wiped # 0 /\ client[j].remaining = 0 =>
      \A i \in 0 .. 1 : IsGood(files[j][i]) =>
        LET kept == files[j][i].payload
        IN  kept.first >= client[j].wiped /\ kept.second >= client[j].wiped

\* A file in a newer format is never written over, whatever happens to its twin.
NewerFormatKept ==
  [][\A j \in Journals \ {"PB"}, i \in 0 .. 1 :
       files[j][i].kind = "NEWER" => files'[j][i] = files[j][i]]_vars

\* Two files written in turn make a register that keeps what it acknowledged,
\* through failing calls, unreadable files, power cuts and wrapped generations.
Kept(j) == IF table[j].ready THEN At(files[j], table[j].active) ELSE Stored(j)
Asked(j) == IF On("OPEN") \/ On("WRITE") THEN worker.payload ELSE Stored(j)

Bank == INSTANCE JournalRegister WITH
  Registers <- Journals,
  stored <- [j \in Journals |-> Stored(j)],
  kept <- [j \in Journals |-> Kept(j)],
  asked <- [j \in Journals |-> Asked(j)]

JournalsImplemented == Bank!Spec

\* When the player pauses and the card works, every change ends on the card,
\* in every journal, however many ring at the same time.
EditsSaved ==
  <>[](\A j \in Journals :
         client[j].backend /\ ~client[j].orphan => Stored(j) = client[j].live)
=============================================================================
