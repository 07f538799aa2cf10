---------------------------- MODULE JournalProofs ----------------------------
(***************************************************************************)
(* Proofs about the journals, for any number of edits, failing calls,      *)
(* resets and power cuts, and any width of the generations.                *)
(***************************************************************************)
EXTENDS JournalSystem, TLAPS

LEMMA DataTypes ==
  /\ Defaults \in Payloads /\ IsWhole(Defaults)
  /\ Bad \in Files /\ ~IsGood(Bad) /\ Bad.kind # "NEWER"
  /\ 0 \in Numbers
  /\ \A v \in Versions : AllOf(v) \in Payloads /\ IsWhole(AllOf(v))
BY JournalsAssumption
   DEF Defaults, AllOf, Payloads, Versions, IsWhole, Bad, Files, IsGood, Numbers

LEMMA GoodType ==
  ASSUME NEW g \in Numbers, NEW p \in Payloads
  PROVE  Good(g, p) \in Files /\ IsGood(Good(g, p)) /\ Good(g, p).payload = p
BY DEF Good, Files, IsGood

\* The file that counts is good, and a good file is not overlooked.
LEMMA ChosenFacts ==
  ASSUME NEW pair \in [0 .. 1 -> Files]
  PROVE  /\ Chosen(pair) \in {-1, 0, 1}
         /\ Chosen(pair) # -1 => IsGood(pair[Chosen(pair)])
         /\ Chosen(pair) = -1 => ~IsGood(pair[0]) /\ ~IsGood(pair[1])
         /\ At(pair, Chosen(pair)) \in Payloads
<1>1. /\ Chosen(pair) \in {-1, 0, 1}
      /\ Chosen(pair) # -1 => IsGood(pair[Chosen(pair)])
      /\ Chosen(pair) = -1 => ~IsGood(pair[0]) /\ ~IsGood(pair[1])
  BY DEF Chosen
<1> QED BY <1>1, DataTypes DEF At, Files

LEMMA SeenType ==
  ASSUME NEW pair \in [0 .. 1 -> Files], NEW unread \in SUBSET (0 .. 1)
  PROVE  Seen(pair, unread) \in [0 .. 1 -> Files]
BY DataTypes DEF Seen

LEMMA InitTableType ==
  ASSUME NEW j \in Journals, NEW pair \in [0 .. 1 -> Files], NEW unread \in SUBSET (0 .. 1)
  PROVE  /\ InitTable(j, pair, unread) \in Tables
         /\ InitBox(j, pair, unread) \in Boxes
<1> DEFINE seen == Seen(pair, unread)
<1>1. seen \in [0 .. 1 -> Files]
  BY SeenType
<1>2. Chosen(seen) \in {-1, 0, 1} /\ At(seen, Chosen(seen)) \in Payloads
  BY <1>1, ChosenFacts
<1>3. Chosen(seen) # -1 => pair[Chosen(seen)].generation \in Numbers
  BY <1>2 DEF Files
<1>6. At(pair, Chosen(seen)) \in Payloads
  BY <1>2, DataTypes DEF At, Files
<1> HIDE DEF seen
<1>0. Safe(j, pair, unread) \in BOOLEAN
  BY DEF Safe
<1>4. InitTable(j, pair, unread) \in Tables
  <2>1. (IF Chosen(seen) = -1 THEN 0 ELSE pair[Chosen(seen)].generation) \in Numbers
    BY <1>3, DataTypes
  <2> QED BY <1>0, <1>2, <2>1, DataTypes DEF Tables, InitTable, seen
<1>5. InitBox(j, pair, unread) \in Boxes
  BY <1>0, <1>6, DataTypes DEF Boxes, InitBox, seen
<1> QED BY <1>4, <1>5

LEMMA InitWorkerType == InitWorker \in Workers
BY JournalsAssumption, DataTypes DEF InitWorker, Workers

LEMMA NextNumbers ==
  ASSUME NEW n \in Numbers
  PROVE  /\ (n + 1) % Span \in Numbers
         /\ (n + 1) % Span # n
         /\ NewerGeneration((n + 1) % Span, n)
<1>1. n + 1 < Span \/ n + 1 = Span
  BY JournalsAssumption DEF Numbers
<1>2. CASE n + 1 < Span
  <2>1. (n + 1) % Span = n + 1
    BY <1>2, JournalsAssumption DEF Numbers
  <2>2. ((n + 1) - n) % Span = 1
    BY JournalsAssumption DEF Numbers
  <2> QED BY <1>2, <2>1, <2>2, JournalsAssumption DEF Numbers, NewerGeneration
<1>3. CASE n + 1 = Span
  <2>1. (n + 1) % Span = 0
    BY <1>3, JournalsAssumption DEF Numbers
  <2>2. (0 - n) % Span = 1
    BY <1>3, JournalsAssumption DEF Numbers
  <2> QED BY <1>3, <2>1, <2>2, JournalsAssumption DEF Numbers, NewerGeneration
<1> QED BY <1>1, <1>2, <1>3

-----------------------------------------------------------------------------
(* Types.                                                                  *)

\* Only a journal that may be written is served.
BusyReady == worker.stage # "IDLE" => table[worker.journal].ready

TypeInv == TypeOK /\ BusyReady

LEMMA TargetType ==
  ASSUME NEW j \in Journals
  PROVE  Target(j) \in 0 .. 1 /\ Target(j) # table[j].active
BY DEF Target

\* What may become of the files, and that nothing else does.
LEMMA CardTypes ==
  ASSUME TypeOK
  PROVE  Truncated \in [Journals -> [0 .. 1 -> Files]] /\ Written \in [Journals -> [0 .. 1 -> Files]]
<1>1. worker.journal \in Journals /\ worker.payload \in Payloads
  BY DEF TypeOK, JournalsTypeOK, Workers
<1>2. NextGeneration(worker.journal) \in Numbers
  BY <1>1, NextNumbers DEF TypeOK, JournalsTypeOK, Tables, NextGeneration
<1>3. files \in [Journals -> [0 .. 1 -> Files]]
  BY DEF TypeOK, JournalsTypeOK
<1> QED BY <1>1, <1>2, <1>3, TargetType, GoodType, DataTypes DEF Truncated, Written

LEMMA CfgInitTypes ==
  ASSUME NEW cards \in [Journals -> [0 .. 1 -> Files]], CfgInit(cards), faults \in 0 .. MaxFaults
  PROVE  JournalsTypeOK' /\ worker'.stage = "IDLE"
<1>1. \A k \in Journals, i \in 0 .. 1, j \in Journals :
        (IF j = k THEN {i} ELSE {}) \in SUBSET (0 .. 1)
  OBVIOUS
<1>2. table' \in [Journals -> Tables] /\ mailbox' \in [Journals -> Boxes]
  BY <1>1, InitTableType DEF CfgInit
<1>3. faults' \in 0 .. MaxFaults
  BY JournalsAssumption DEF CfgInit
<1> QED BY <1>2, <1>3, InitWorkerType DEF CfgInit, JournalsTypeOK, InitWorker

LEMMA AdoptedType ==
  ASSUME NEW box \in Boxes, NEW orphan \in BOOLEAN
  PROVE  Adopted(box, orphan) \in Clients
BY JournalsAssumption DEF Adopted, Clients, Boxes, Versions

LEMMA KernelTypes ==
  ASSUME TypeInv, KernelNext
  PROVE  JournalsTypeOK' /\ BusyReady'
<1> USE DEF TypeInv, TypeOK, JournalsTypeOK, BusyReady
<1>0. worker.journal \in Journals
  BY DEF Workers
<1>1. ASSUME NEW j \in Journals, Take(j) PROVE JournalsTypeOK' /\ BusyReady'
  BY <1>1 DEF Take, Workers, Boxes, SavePending
<1>2. CASE CopyFirst \/ CopySecond
  <2>1. mailbox[worker.journal].payload \in Payloads
    BY <1>0 DEF Boxes
  <2>2. worker' \in Workers /\ worker'.journal = worker.journal
    <3>1. worker.payload \in Payloads /\ \A v \in Versions :
            /\ [worker.payload EXCEPT !.first = v] \in Payloads
            /\ [worker.payload EXCEPT !.second = v] \in Payloads
      BY DEF Workers, Payloads
    <3>2. mailbox[worker.journal].payload.first \in Versions
          /\ mailbox[worker.journal].payload.second \in Versions
      BY <2>1 DEF Payloads
    <3>3. PICK stage \in {"SECOND", "OPEN"}, p \in Payloads :
            worker' = [worker EXCEPT !.stage = stage, !.payload = p]
      BY <1>2, <3>1, <3>2 DEF CopyFirst, CopySecond, Workers
    <3> QED BY <3>3 DEF Workers
  <2> QED BY <1>0, <1>2, <2>2 DEF CopyFirst, CopySecond, On
<1>3. CASE Open
  <2>1. worker' \in Workers /\ worker'.journal = worker.journal
    BY <1>0, <1>3 DEF Open, Fail, To, Workers
  <2>2. files' \in [Journals -> [0 .. 1 -> Files]]
    BY <1>3, CardTypes DEF Open
  <2>3. faults' \in 0 .. MaxFaults
    BY <1>3, JournalsAssumption DEF Open, Fail
  <2> QED BY <1>0, <1>3, <2>1, <2>2, <2>3 DEF Open, Fail, On
<1>4. CASE Write
  <2>1. NextGeneration(worker.journal) \in Numbers /\ Target(worker.journal) \in {-1, 0, 1}
    BY <1>0, NextNumbers DEF Tables, NextGeneration, Target
  <2>2. files' \in [Journals -> [0 .. 1 -> Files]]
    BY <1>4, CardTypes DEF Write
  <2>3. worker' \in Workers /\ worker'.journal = worker.journal
    BY <1>0, <1>4 DEF Write, Fail, Workers
  <2>4. table' \in [Journals -> Tables] /\ table'[worker.journal].ready = table[worker.journal].ready
    <3> DEFINE w == worker.journal
               advanced == [table[w] EXCEPT !.generation = NextGeneration(w), !.active = Target(w)]
    <3>1. table[w] \in Tables
      BY <1>0
    <3>2. advanced \in Tables /\ advanced.ready = table[w].ready
      BY <2>1, <3>1 DEF Tables
    <3>3. table' = [table EXCEPT ![w] = advanced] \/ table' = table
      BY <1>0, <1>4 DEF Write, Fail
    <3> QED BY <1>0, <3>2, <3>3
  <2>5. faults' \in 0 .. MaxFaults /\ mailbox' = mailbox
    BY <1>4, JournalsAssumption DEF Write, Fail
  <2>6. worker.stage # "IDLE"
    BY <1>4 DEF Write, On
  <2> QED BY <2>2, <2>3, <2>4, <2>5, <2>6
<1>5. CASE Answer
  <2>1. worker' \in Workers /\ worker'.stage = "IDLE"
    BY <1>0, <1>5, InitWorkerType DEF Answer, Workers, InitWorker
  <2>2. worker.seq \in Numbers /\ worker.failed \in BOOLEAN
    BY DEF Workers
  <2>3. mailbox' \in [Journals -> Boxes]
    <3> DEFINE w == worker.journal
               answered == [mailbox[w] EXCEPT !.ack = worker.seq, !.failed = worker.failed]
    <3>1. answered \in Boxes
      BY <1>0, <2>2 DEF Boxes
    <3>2. mailbox' = [mailbox EXCEPT ![w] = answered]
      BY <1>0, <1>5 DEF Answer
    <3> QED BY <1>0, <3>1, <3>2
  <2>4. table' \in [Journals -> Tables]
    BY <1>0, <1>5, <2>2 DEF Answer, Tables
  <2> QED BY <1>5, <2>1, <2>3, <2>4 DEF Answer
<1> QED BY <1>1, <1>2, <1>3, <1>4, <1>5 DEF KernelNext

LEMMA OutcomeType ==
  ASSUME NEW j \in Journals, client \in [Journals -> Clients]
  PROVE  Outcome(j) \in Clients /\ Outcome(j).staging = client[j].staging
                                /\ Outcome(j).live = client[j].live
                                /\ Outcome(j).seq = client[j].seq
<1>1. client[j] \in Clients
  OBVIOUS
<1>2. Failed(j) \in Clients /\ Failed(j).staging = client[j].staging
        /\ Failed(j).live = client[j].live /\ Failed(j).seq = client[j].seq
        /\ ~Failed(j).pending
  BY <1>1 DEF Failed, Settled, Clients
<1>3. Succeeded(j) \in Clients /\ Succeeded(j).staging = client[j].staging
        /\ Succeeded(j).live = client[j].live /\ Succeeded(j).seq = client[j].seq
        /\ ~Succeeded(j).pending
  <2>1. Left(j) \in 0 .. 2
    BY <1>1 DEF Clients, Counts, Left
  <2>2. (client[j].dirty \/ (Counts(j) /\ Left(j) # 0)) \in BOOLEAN
    OBVIOUS
  <2> QED BY <1>1, <2>1, <2>2 DEF Succeeded, Settled, Clients
<1> QED BY <1>2, <1>3 DEF Outcome

LEMMA EditTypes ==
  ASSUME TypeOK, NEW j \in Journals, Edit(j) \/ ResetAll
  PROVE  ClientsTypeOK' /\ UNCHANGED journalVars
<1>1. client \in [Journals -> Clients] /\ newest' \in Versions /\ mixed' = mixed
  BY JournalsAssumption DEF TypeOK, ClientsTypeOK, Edit, ResetAll, Versions
<1>2. AllOf(newest') \in Payloads
  BY <1>1, DataTypes
<1>3. CASE Edit(j)
  <2> DEFINE edited == [client[j] EXCEPT !.live = AllOf(newest'), !.dirty = TRUE]
  <2>1. edited \in Clients
    BY <1>1, <1>2 DEF Clients
  <2>2. client' = [client EXCEPT ![j] = edited]
    BY <1>1, <1>3 DEF Edit
  <2> QED BY <1>1, <1>3, <2>1, <2>2 DEF Edit, TypeOK, ClientsTypeOK
<1>4. CASE ResetAll
  <2> DEFINE p == "PROGRESS"
             reset == [client[p] EXCEPT !.live = AllOf(newest'), !.dirty = TRUE,
                         !.remaining = ResetWrites, !.resetting = FALSE, !.wiped = newest']
  <2>0. p \in Journals
    BY <1>4 DEF ResetAll
  <2>1. client[p] \in Clients /\ ResetWrites \in 0 .. 2
    BY <1>1, <2>0 DEF ResetWrites
  <2>2. reset \in Clients
    <3> HIDE DEF p
    <3> QED BY <1>1, <1>2, <2>1 DEF Clients
  <2>3. client' = [client EXCEPT ![p] = reset]
    BY <1>1, <1>4, <2>0 DEF ResetAll
  <2> QED BY <1>1, <1>4, <2>0, <2>2, <2>3 DEF ResetAll, TypeOK, ClientsTypeOK
<1> QED BY <1>3, <1>4

LEMMA UpdateTypes ==
  ASSUME TypeOK, NEW j \in Journals, Update(j)
  PROVE  JournalsTypeOK' /\ ClientsTypeOK' /\ UNCHANGED <<files, table, worker, faults>>
<1> USE DEF TypeOK, JournalsTypeOK, ClientsTypeOK
<1>1. client[j] \in Clients /\ mailbox[j] \in Boxes
  OBVIOUS
<1>2. CASE Stage(j)
  <2> DEFINE filled == [mailbox[j].payload EXCEPT !.first = client[j].live.first]
             box == [mailbox[j] EXCEPT !.payload = filled]
             staged == [client[j] EXCEPT !.staging = TRUE]
  <2>1. filled \in Payloads
    BY <1>1 DEF Boxes, Clients, Payloads
  <2>2. box \in Boxes /\ staged \in Clients
    BY <1>1, <2>1 DEF Boxes, Clients
  <2>3. mailbox' = [mailbox EXCEPT ![j] = box] /\ client' = [client EXCEPT ![j] = staged]
    BY <1>1, <1>2 DEF Stage, Boxes
  <2> QED BY <1>2, <2>2, <2>3 DEF Stage
<1>3. CASE Ring(j)
  <2> DEFINE seq == (client[j].seq + 1) % Span
             filled == [mailbox[j].payload EXCEPT !.second = client[j].live.second]
             box == [mailbox[j] EXCEPT !.payload = filled, !.seq = seq]
             rung == [client[j] EXCEPT !.staging = FALSE, !.seq = seq, !.pending = TRUE,
                        !.dirty = FALSE, !.error = FALSE, !.resetting = @ \/ client[j].remaining # 0]
  <2>1. filled \in Payloads
    BY <1>1 DEF Boxes, Clients, Payloads
  <2>2. seq \in Numbers
    BY <1>1, NextNumbers DEF Clients
  <2>3. box \in Boxes /\ rung \in Clients
    BY <1>1, <2>1, <2>2 DEF Boxes, Clients
  <2>4. mailbox' = [mailbox EXCEPT ![j] = box] /\ client' = [client EXCEPT ![j] = rung]
    BY <1>1, <1>3 DEF Ring, Boxes, Clients
  <2> QED BY <1>3, <2>3, <2>4 DEF Ring
<1>4. CASE Poll(j)
  BY <1>4, OutcomeType DEF Poll, journalVars
<1> QED BY <1>2, <1>3, <1>4 DEF Update

LEMMA ResetTypes ==
  ASSUME TypeOK, Reset
  PROVE  ClientsTypeOK' /\ UNCHANGED journalVars
<1>1. \A j \in Journals : (client[j].orphan \/ client[j].error \/ j \in Unanswered) \in BOOLEAN
  OBVIOUS
<1>2. client' \in [Journals -> Clients]
  BY <1>1, AdoptedType DEF Reset, TypeOK, JournalsTypeOK
<1> QED BY <1>2 DEF Reset, TypeOK, ClientsTypeOK, Unanswered

\* What a power cut may leave on the card.
LEMMA CutTypes ==
  ASSUME TypeOK
  PROVE  CutFiles \subseteq [Journals -> [0 .. 1 -> Files]]
BY CardTypes DEF CutFiles, TypeOK, JournalsTypeOK

LEMMA RestartTypes ==
  ASSUME TypeOK, Restart
  PROVE  JournalsTypeOK' /\ ClientsTypeOK' /\ BusyReady'
<1>1. PICK cards \in CutFiles : CfgInit(cards)
  BY DEF Restart
<1>2. JournalsTypeOK' /\ worker'.stage = "IDLE"
  BY <1>1, CutTypes, CfgInitTypes DEF TypeOK, JournalsTypeOK
<1>3. client' \in [Journals -> Clients]
  BY <1>2, AdoptedType DEF Restart, JournalsTypeOK
<1> QED BY <1>2, <1>3 DEF Restart, TypeOK, ClientsTypeOK, BusyReady

LEMMA InitTypes == Init => TypeInv
<1> SUFFICES ASSUME Init PROVE TypeInv
  OBVIOUS
<1>1. files \in [Journals -> [0 .. 1 -> Files]]
  BY SystemAssumption DEF Init
<1>2. table \in [Journals -> Tables] /\ mailbox \in [Journals -> Boxes]
  BY <1>1, InitTableType DEF Init
<1>3. client \in [Journals -> Clients]
  BY <1>2, AdoptedType DEF Init
<1>4. MaxRuns \in Nat /\ MaxFaults \in Nat
  BY SystemAssumption, JournalsAssumption
<1>5. faults \in 0 .. MaxFaults /\ runs \in 0 .. MaxRuns /\ newest \in Versions /\ mixed \subseteq Journals
  BY <1>4 DEF Init
<1>6. worker \in Workers /\ worker.stage = "IDLE"
  BY InitWorkerType DEF Init, InitWorker
<1> QED BY <1>1, <1>2, <1>3, <1>5, <1>6 DEF TypeInv, TypeOK, JournalsTypeOK, ClientsTypeOK, BusyReady

LEMMA RunsTypes ==
  ASSUME TypeOK, Reset \/ Restart
  PROVE  runs' \in 0 .. MaxRuns
<1>1. MaxRuns \in Nat
  BY SystemAssumption
<1>2. runs \in 0 .. MaxRuns /\ runs < MaxRuns /\ runs' = runs + 1
  BY DEF TypeOK, Reset, Restart
<1> QED BY <1>1, <1>2

LEMMA StepTypes ==
  ASSUME TypeInv, [Next]_vars
  PROVE  TypeInv'
<1> USE DEF TypeInv, TypeOK
<1>1. CASE Game
  <2>1. ASSUME ResetAll PROVE TypeInv'
    <3>1. PICK j \in Journals : TRUE
      BY JournalsAssumption
    <3> QED BY <1>1, <2>1, EditTypes DEF Game, journalVars, JournalsTypeOK, BusyReady
  <2>2. ASSUME NEW j \in Journals, Edit(j) PROVE TypeInv'
    BY <1>1, <2>2, EditTypes DEF Game, journalVars, JournalsTypeOK, BusyReady
  <2>3. ASSUME NEW j \in Journals, Update(j) PROVE TypeInv'
    BY <1>1, <2>3, UpdateTypes DEF Game, BusyReady
  <2> QED BY <1>1, <2>1, <2>2, <2>3 DEF Game
<1>2. CASE Kernel
  BY <1>2, KernelTypes DEF Kernel, clientVars, ClientsTypeOK
<1>3. CASE Reset
  BY <1>3, ResetTypes, RunsTypes DEF journalVars, JournalsTypeOK, BusyReady
<1>4. CASE Restart
  BY <1>4, RestartTypes, RunsTypes
<1>5. CASE UNCHANGED vars
  BY <1>5 DEF vars, journalVars, clientVars, JournalsTypeOK, ClientsTypeOK, BusyReady
<1> QED BY <1>1, <1>2, <1>3, <1>4, <1>5 DEF Next

\* The state of the journals, the kernel's service and the clients keeps its
\* types, and only a journal that may be written is served.
THEOREM TypeCorrect == Spec => []TypeOK
<1>1. Init => TypeInv
  BY InitTypes
<1>2. TypeInv /\ [Next]_vars => TypeInv'
  BY StepTypes
<1>3. TypeInv => TypeOK
  BY DEF TypeInv
<1> QED BY <1>1, <1>2, <1>3, PTL DEF Spec

-----------------------------------------------------------------------------
(* A newer format is kept: what may be written has none.                   *)

NoNewer(j) == \A i \in 0 .. 1 : files[j][i].kind # "NEWER"

ReadyOwned == \A j \in Journals \ {"PB"} : table[j].ready => NoNewer(j)

KeptInv == TypeInv /\ ReadyOwned

\* A boot that finds a newer format does not make the journal ready.
LEMMA SafeHasNoNewer ==
  ASSUME NEW j \in Journals \ {"PB"}, NEW pair \in [0 .. 1 -> Files], NEW unread \in SUBSET (0 .. 1),
         InitTable(j, pair, unread).ready
  PROVE  \A i \in 0 .. 1 : pair[i].kind # "NEWER"
BY DEF InitTable, Safe, ReadResult, IsGood

LEMMA CfgInitOwned ==
  ASSUME NEW cards \in [Journals -> [0 .. 1 -> Files]], CfgInit(cards)
  PROVE  ReadyOwned'
<1>1. \A k \in Journals, i \in 0 .. 1, j \in Journals :
        (IF j = k THEN {i} ELSE {}) \in SUBSET (0 .. 1)
  OBVIOUS
<1>2. ASSUME NEW j \in Journals \ {"PB"}, table'[j].ready PROVE NoNewer(j)'
  <2>1. PICK unread \in SUBSET (0 .. 1) : table'[j] = InitTable(j, cards[j], unread)
    BY <1>1 DEF CfgInit
  <2>2. cards[j] \in [0 .. 1 -> Files] /\ files' = cards
    BY DEF CfgInit
  <2> QED BY <1>2, <2>1, <2>2, SafeHasNoNewer DEF NoNewer
<1> QED BY <1>2 DEF ReadyOwned

\* The files of one journal after a write to it, and those of the others.
LEMMA FileSteps ==
  ASSUME TypeOK, NEW j \in Journals, NEW i \in 0 .. 1
  PROVE  /\ Truncated[j][i] \in {files[j][i], Bad}
         /\ Written[j][i] \in {files[j][i], Good(NextGeneration(worker.journal), worker.payload)}
         /\ Truncated[j][i] # files[j][i] \/ Written[j][i] # files[j][i]
              => j = worker.journal /\ i = Target(j)
BY DEF TypeOK, JournalsTypeOK, Truncated, Written

LEMMA CutSteps ==
  ASSUME TypeInv, NEW cards \in CutFiles \cup {files, Truncated, Written}, NEW j \in Journals, NEW i \in 0 .. 1,
         cards[j][i] # files[j][i]
  PROVE  /\ j = worker.journal /\ i = Target(j)
         /\ cards[j][i] = Bad \/ cards[j][i] = Good(NextGeneration(worker.journal), worker.payload)
BY FileSteps DEF CutFiles, TypeInv

\* What a step does to the card.
LEMMA FilesChange ==
  ASSUME [Next]_vars
  PROVE  files' = files \/ (files' = Truncated /\ On("OPEN")) \/ (files' = Written /\ On("WRITE"))
<1>1. CASE Kernel
  BY <1>1 DEF Kernel, KernelNext, Take, CopyFirst, CopySecond, Open, Write, Answer
<1>2. CASE Restart
  BY <1>2 DEF Restart, CfgInit, CutFiles
<1>3. CASE Game \/ Reset \/ UNCHANGED vars
  BY <1>3 DEF Game, Reset, ResetAll, Edit, Update, Stage, Ring, Poll, journalVars, vars
<1> QED BY <1>1, <1>2, <1>3 DEF Next

LEMMA StepKeepsNewer ==
  ASSUME KeptInv, [Next]_vars, NEW j \in Journals \ {"PB"}, NEW i \in 0 .. 1,
         files[j][i].kind = "NEWER"
  PROVE  files'[j][i] = files[j][i]
<1>1. ~table[j].ready
  BY DEF KeptInv, ReadyOwned, NoNewer
<1>2. worker.stage # "IDLE" => worker.journal # j
  BY <1>1 DEF KeptInv, TypeInv, BusyReady
<1> QED BY <1>2, FilesChange, CutSteps DEF KeptInv, On

LEMMA InitOwned == Init => ReadyOwned
<1> SUFFICES ASSUME Init, NEW j \in Journals \ {"PB"}, table[j].ready PROVE NoNewer(j)
  BY DEF ReadyOwned
<1>1. files[j] \in [0 .. 1 -> Files]
  BY SystemAssumption DEF Init
<1> QED BY <1>1, SafeHasNoNewer DEF Init, NoNewer

\* The kernel's record of a journal changes without its readiness.
LEMMA StampKeeps ==
  ASSUME TypeInv, Write \/ Answer, NEW j \in Journals
  PROVE  table'[j].ready = table[j].ready
<1> DEFINE w == worker.journal
           advanced == [table[w] EXCEPT !.generation = NextGeneration(w), !.active = Target(w)]
           answered == [table[w] EXCEPT !.ack = worker.seq]
<1>1. table \in [Journals -> Tables] /\ w \in Journals /\ table[w] \in Tables
  BY DEF TypeInv, TypeOK, JournalsTypeOK, Workers
<1>2. advanced.ready = table[w].ready /\ answered.ready = table[w].ready
  BY <1>1 DEF Tables
<1>3. table' \in {table, [table EXCEPT ![w] = advanced], [table EXCEPT ![w] = answered]}
  BY <1>1 DEF Write, Answer, Fail
<1> HIDE DEF w, advanced, answered
<1> QED BY <1>1, <1>2, <1>3

LEMMA StepOwned ==
  ASSUME KeptInv, [Next]_vars
  PROVE  ReadyOwned'
<1>0. TypeInv /\ ReadyOwned /\ TypeInv'
  BY StepTypes DEF KeptInv
<1>1. CASE Restart
  <2>1. PICK cards \in CutFiles : CfgInit(cards)
    BY <1>1 DEF Restart
  <2> QED BY <1>0, <2>1, CutTypes, CfgInitOwned DEF TypeInv
<1>2. CASE ~Restart
  <2>1. ASSUME NEW j \in Journals PROVE table'[j].ready = table[j].ready
    <3>1. CASE Write \/ Answer
      BY <1>0, <3>1, StampKeeps
    <3>2. CASE (\E k \in Journals : Take(k)) \/ CopyFirst \/ CopySecond \/ Open
      BY <3>2 DEF Take, CopyFirst, CopySecond, Open, Fail
    <3>3. CASE Game \/ Reset \/ UNCHANGED vars
      BY <3>3 DEF Game, Reset, ResetAll, Edit, Update, Stage, Ring, Poll, journalVars, vars
    <3> QED BY <1>2, <3>1, <3>2, <3>3 DEF Next, Kernel, KernelNext
  <2>2. ASSUME NEW j \in Journals \ {"PB"}, table'[j].ready, NEW i \in 0 .. 1
        PROVE  files'[j][i].kind # "NEWER"
    <3>1. table[j].ready /\ files[j][i].kind # "NEWER"
      BY <1>0, <2>1, <2>2 DEF ReadyOwned, NoNewer
    <3>2. CASE files'[j][i] = files[j][i]
      BY <3>1, <3>2
    <3>3. CASE files'[j][i] # files[j][i]
      BY <1>0, <3>3, FilesChange, CutSteps, DataTypes DEF Good
    <3> QED BY <3>2, <3>3
  <2> QED BY <2>2 DEF ReadyOwned, NoNewer
<1> QED BY <1>1, <1>2

\* A file in a newer format is never written over, through unreadable twins,
\* failing calls, resets and power cuts.
THEOREM NewerIsKept == Spec => NewerFormatKept
<1>1. Init => KeptInv
  BY InitTypes, InitOwned DEF KeptInv
<1>2. KeptInv /\ [Next]_vars => KeptInv'
  BY StepTypes, StepOwned DEF KeptInv
<1> DEFINE Keeping == \A j \in Journals \ {"PB"}, i \in 0 .. 1 :
             files[j][i].kind = "NEWER" => files'[j][i] = files[j][i]
<1>3. KeptInv /\ [Next]_vars => [Keeping]_vars
  BY StepKeepsNewer
<1> QED BY <1>1, <1>2, <1>3, PTL DEF Spec, NewerFormatKept

-----------------------------------------------------------------------------
(* Files are whole: a client that waits for its answer leaves the payload  *)
(* alone, and one that does not wait has none to wait for.                 *)

\* A client and its mailbox agree on what is under way.
Synced(j) ==
  /\ client[j].seq = mailbox[j].seq /\ table[j].ack = mailbox[j].ack
  /\ client[j].staging => ~client[j].pending
  /\ ~client[j].pending => mailbox[j].seq = mailbox[j].ack
  /\ IsWhole(client[j].live)
  /\ client[j].staging => mailbox[j].payload.first = client[j].live.first
  /\ ~client[j].staging => IsWhole(mailbox[j].payload)

\* What the kernel serves is asked for, and copied without a change.
Served(j) ==
  worker.stage # "IDLE" /\ worker.journal = j =>
    /\ worker.seq = mailbox[j].seq /\ mailbox[j].seq # mailbox[j].ack
    /\ worker.stage = "SECOND" => worker.payload.first = mailbox[j].payload.first
    /\ worker.stage \in {"OPEN", "WRITE"} => IsWhole(worker.payload)

CardWhole(j) == \A i \in 0 .. 1 : IsWhole(files[j][i].payload)

WholeInv == TypeInv /\ \A j \in Journals \ mixed : Synced(j) /\ Served(j) /\ CardWhole(j)

LEMMA StepCardWhole ==
  ASSUME TypeInv, [Next]_vars, NEW j \in Journals, Served(j), CardWhole(j)
  PROVE  CardWhole(j)'
<1> SUFFICES ASSUME NEW i \in 0 .. 1, files'[j][i] # files[j][i]
             PROVE  IsWhole(files'[j][i].payload)
  BY DEF CardWhole
<1>1. On("OPEN") \/ On("WRITE")
  BY FilesChange
<1>2. j = worker.journal
      /\ (files'[j][i] = Bad \/ files'[j][i] = Good(NextGeneration(worker.journal), worker.payload))
  BY FilesChange, CutSteps
<1>3. IsWhole(worker.payload)
  BY <1>1, <1>2 DEF Served, On
<1> QED BY <1>2, <1>3, DataTypes DEF Bad, Good

\* What a boot offers is what it read, whole if the card was.
LEMMA CfgInitSynced ==
  ASSUME NEW cards \in [Journals -> [0 .. 1 -> Files]], CfgInit(cards),
         NEW j \in Journals, \A i \in 0 .. 1 : IsWhole(cards[j][i].payload)
  PROVE  /\ mailbox'[j].seq = 0 /\ mailbox'[j].ack = 0 /\ table'[j].ack = 0
         /\ IsWhole(mailbox'[j].payload) /\ worker'.stage = "IDLE"
<1>1. \A k \in Journals, i \in 0 .. 1 : (IF j = k THEN {i} ELSE {}) \in SUBSET (0 .. 1)
  OBVIOUS
<1>2. PICK unread \in SUBSET (0 .. 1) :
        table'[j] = InitTable(j, cards[j], unread) /\ mailbox'[j] = InitBox(j, cards[j], unread)
  BY <1>1 DEF CfgInit
<1>3. Chosen(Seen(cards[j], unread)) \in {-1, 0, 1}
  BY SeenType, ChosenFacts
<1>4. IsWhole(At(cards[j], Chosen(Seen(cards[j], unread))))
  BY <1>3, DataTypes DEF At
<1> QED BY <1>2, <1>4 DEF InitTable, InitBox, CfgInit, InitWorker

LEMMA EditSynced ==
  ASSUME TypeInv, NEW j \in Journals \ mixed, Synced(j), Served(j),
         NEW k \in Journals, Edit(k) \/ ResetAll
  PROVE  Synced(j)' /\ Served(j)'
<1>1. UNCHANGED journalVars
  BY EditTypes DEF TypeInv
<1>2. client \in [Journals -> Clients] /\ newest' \in Versions
  BY EditTypes DEF TypeInv, TypeOK, ClientsTypeOK
<1>3. CASE client'[j] = client[j]
  BY <1>1, <1>3 DEF Synced, Served, journalVars
<1>4. CASE client'[j] # client[j]
  <2>1. client[j] \in Clients
    BY <1>2
  <2>2. ~client[j].staging /\ client'[j].staging = client[j].staging
        /\ client'[j].pending = client[j].pending /\ client'[j].seq = client[j].seq
        /\ client'[j].live = AllOf(newest')
    <3>1. CASE Edit(k)
      <4>1. j = k
        BY <1>2, <1>4, <3>1 DEF Edit
      <4>2. client'[j] = [client[j] EXCEPT !.live = AllOf(newest'), !.dirty = TRUE]
        BY <1>2, <3>1, <4>1 DEF Edit
      <4>3. ~client[j].staging
        BY <3>1, <4>1 DEF Edit, Idle
      <4> QED BY <2>1, <4>2, <4>3 DEF Clients
    <3>2. CASE ResetAll
      <4>1. j = "PROGRESS"
        BY <1>2, <1>4, <3>2 DEF ResetAll
      <4>2. client'[j] = [client[j] EXCEPT !.live = AllOf(newest'), !.dirty = TRUE,
                            !.remaining = ResetWrites, !.resetting = FALSE, !.wiped = newest']
        BY <1>2, <3>2, <4>1 DEF ResetAll
      <4>3. ~client[j].staging
        BY <3>2, <4>1 DEF ResetAll, Idle
      <4> QED BY <2>1, <4>2, <4>3 DEF Clients
    <3> QED BY <3>1, <3>2
  <2> QED BY <1>1, <1>2, <2>2, DataTypes DEF Synced, Served, journalVars
<1> QED BY <1>3, <1>4

LEMMA UpdateSynced ==
  ASSUME TypeInv, NEW j \in Journals \ mixed, Synced(j), Served(j),
         NEW k \in Journals, Update(k)
  PROVE  Synced(j)' /\ Served(j)'
<1>1. UNCHANGED <<files, table, worker, faults>>
  BY UpdateTypes DEF TypeInv
<1>2. client \in [Journals -> Clients] /\ mailbox \in [Journals -> Boxes]
  BY DEF TypeInv, TypeOK, ClientsTypeOK, JournalsTypeOK
<1>3. CASE j # k
  <2>1. client'[j] = client[j] /\ mailbox'[j] = mailbox[j]
    BY <1>2, <1>3 DEF Update, Stage, Ring, Poll, journalVars
  <2> QED BY <1>1, <2>1 DEF Synced, Served
<1>4. CASE j = k
  <2>0. client[j] \in Clients /\ mailbox[j] \in Boxes
    BY <1>2
  <2>1. CASE Stage(j)
    <3>1. client[j].backend /\ ~client[j].staging /\ ~client[j].pending
      BY <2>1 DEF Stage, MayStage, Idle
    <3>2. mailbox[j].seq = mailbox[j].ack /\ ~(worker.stage # "IDLE" /\ worker.journal = j)
      BY <3>1 DEF Synced, Served
    <3>3. client'[j] = [client[j] EXCEPT !.staging = TRUE]
          /\ mailbox'[j] = [mailbox[j] EXCEPT !.payload = [mailbox[j].payload EXCEPT !.first = client[j].live.first]]
      BY <1>2, <2>0, <2>1 DEF Stage, Boxes
    <3>4. /\ client'[j].staging /\ ~client'[j].pending
          /\ client'[j].seq = client[j].seq /\ client'[j].live = client[j].live
          /\ mailbox'[j].seq = mailbox[j].seq /\ mailbox'[j].ack = mailbox[j].ack
          /\ mailbox'[j].payload.first = client[j].live.first
      BY <2>0, <3>1, <3>3 DEF Clients, Boxes, Payloads
    <3> QED BY <1>1, <3>2, <3>4 DEF Synced, Served
  <2>2. CASE Ring(j)
    <3> DEFINE seq == (client[j].seq + 1) % Span
    <3>1. client[j].staging /\ ~client[j].pending
      BY <2>2 DEF Ring, Synced
    <3>2. mailbox[j].seq = mailbox[j].ack /\ ~(worker.stage # "IDLE" /\ worker.journal = j)
      BY <3>1 DEF Synced, Served
    <3>3. client'[j] = [client[j] EXCEPT !.staging = FALSE, !.seq = seq, !.pending = TRUE,
                          !.dirty = FALSE, !.error = FALSE, !.resetting = @ \/ client[j].remaining # 0]
          /\ mailbox'[j] = [mailbox[j] EXCEPT !.payload = [mailbox[j].payload EXCEPT !.second = client[j].live.second],
                                              !.seq = seq]
      BY <1>2, <2>0, <2>2 DEF Ring, Boxes, Clients
    <3> HIDE DEF seq
    <3>4. /\ ~client'[j].staging /\ client'[j].pending
          /\ client'[j].seq = seq /\ client'[j].live = client[j].live
          /\ mailbox'[j].seq = seq /\ mailbox'[j].ack = mailbox[j].ack
          /\ mailbox'[j].payload.first = mailbox[j].payload.first
          /\ mailbox'[j].payload.second = client[j].live.second
      BY <2>0, <3>1, <3>3 DEF Clients, Boxes, Payloads
    <3>5. IsWhole(mailbox'[j].payload)
      BY <3>1, <3>4 DEF Synced, IsWhole
    <3> QED BY <1>1, <3>2, <3>4, <3>5 DEF Synced, Served
  <2>3. CASE Poll(j)
    <3>1. mailbox' = mailbox /\ client'[j] = Outcome(j) /\ mailbox[j].seq = mailbox[j].ack
          /\ ~client[j].staging
      BY <1>2, <2>3 DEF Poll, journalVars, Synced
    <3>2. client'[j].seq = client[j].seq /\ client'[j].live = client[j].live /\ ~client'[j].staging
      BY <1>2, <3>1, OutcomeType
    <3> QED BY <1>1, <3>1, <3>2 DEF Synced, Served
  <2> QED BY <1>4, <2>1, <2>2, <2>3 DEF Update
<1> QED BY <1>3, <1>4

LEMMA KernelSynced ==
  ASSUME TypeInv, KernelNext, UNCHANGED clientVars,
         NEW j \in Journals \ mixed, Synced(j), Served(j)
  PROVE  Synced(j)' /\ Served(j)'
<1>1. client' = client /\ worker \in Workers /\ worker.journal \in Journals
      /\ mailbox \in [Journals -> Boxes] /\ table \in [Journals -> Tables]
  BY DEF clientVars, TypeInv, TypeOK, JournalsTypeOK, Workers
<1>2. ASSUME NEW k \in Journals, Take(k) PROVE Synced(j)' /\ Served(j)'
  <2>1. mailbox' = mailbox /\ table' = table /\ worker'.stage = "FIRST" /\ worker'.journal = k
        /\ worker'.seq = mailbox[k].seq /\ mailbox[k].seq # table[k].ack
    BY <1>1, <1>2 DEF Take, SavePending, Workers
  <2> QED BY <1>1, <2>1 DEF Synced, Served
<1>3. CASE CopyFirst \/ CopySecond
  <2>1. mailbox' = mailbox /\ table' = table
    BY <1>3 DEF CopyFirst, CopySecond
  <2>2. worker'.journal = worker.journal /\ worker'.seq = worker.seq /\ worker.stage # "IDLE"
    BY <1>1, <1>3 DEF CopyFirst, CopySecond, Workers, On
  <2>3. worker.payload \in Payloads
    BY <1>1 DEF Workers
  <2>4. CASE CopyFirst
    <3>1. worker'.stage = "SECOND" /\ worker'.payload.first = mailbox[worker.journal].payload.first
      BY <1>1, <2>3, <2>4 DEF CopyFirst, Workers, Payloads
    <3> QED BY <1>1, <2>1, <2>2, <3>1 DEF Synced, Served
  <2>5. CASE CopySecond
    <3>1. worker'.stage = "OPEN" /\ worker'.payload.first = worker.payload.first
          /\ worker'.payload.second = mailbox[worker.journal].payload.second
          /\ worker.stage = "SECOND"
      BY <1>1, <2>3, <2>5 DEF CopySecond, Workers, Payloads, On
    <3>2. client[j].staging \/ IsWhole(mailbox[j].payload)
      BY DEF Synced
    <3>3. worker.journal = j => ~client[j].staging
      BY <2>2 DEF Synced, Served
    <3>4. worker.journal = j => IsWhole(worker'.payload)
      BY <3>1, <3>2, <3>3 DEF Served, IsWhole
    <3> QED BY <1>1, <2>1, <2>2, <3>1, <3>4 DEF Synced, Served
  <2> QED BY <1>3, <2>4, <2>5
<1>4. CASE Open
  <2>1. mailbox' = mailbox /\ table' = table /\ worker.stage = "OPEN"
    BY <1>4 DEF Open, Fail, On
  <2>2. worker'.journal = worker.journal /\ worker'.seq = worker.seq /\ worker'.payload = worker.payload
        /\ worker'.stage \in {"WRITE", "ANSWER"}
    BY <1>1, <1>4 DEF Open, Fail, To, Workers
  <2> QED BY <1>1, <2>1, <2>2 DEF Synced, Served
<1>5. CASE Write
  <2>1. mailbox' = mailbox /\ worker.stage = "WRITE"
    BY <1>5 DEF Write, Fail, On
  <2>2. worker'.journal = worker.journal /\ worker'.seq = worker.seq /\ worker'.stage = "ANSWER"
    BY <1>1, <1>5 DEF Write, Fail, Workers
  <2>3. table'[j].ack = table[j].ack
    <3> DEFINE w == worker.journal
               advanced == [table[w] EXCEPT !.generation = NextGeneration(w), !.active = Target(w)]
    <3>1. table[w] \in Tables /\ advanced.ack = table[w].ack
      BY <1>1 DEF Tables
    <3>2. table' = [table EXCEPT ![w] = advanced] \/ table' = table
      BY <1>1, <1>5 DEF Write, Fail
    <3> HIDE DEF advanced
    <3> QED BY <1>1, <3>1, <3>2
  <2> QED BY <1>1, <2>1, <2>2, <2>3 DEF Synced, Served
<1>6. CASE Answer
  <2> DEFINE w == worker.journal
             answered == [mailbox[w] EXCEPT !.ack = worker.seq, !.failed = worker.failed]
             noted == [table[w] EXCEPT !.ack = worker.seq]
  <2>1. mailbox[w] \in Boxes /\ table[w] \in Tables
    BY <1>1
  <2>2. answered.ack = worker.seq /\ answered.seq = mailbox[w].seq
        /\ answered.payload = mailbox[w].payload /\ noted.ack = worker.seq
    BY <2>1 DEF Boxes, Tables
  <2>3. mailbox' = [mailbox EXCEPT ![w] = answered] /\ table' = [table EXCEPT ![w] = noted]
    BY <1>1, <1>6, <2>1 DEF Answer, Boxes, Tables
  <2>4. worker.stage # "IDLE" /\ worker'.stage = "IDLE"
    BY <1>6 DEF Answer, On, InitWorker
  <2> HIDE DEF answered, noted
  <2>5. CASE w = j
    BY <1>1, <2>2, <2>3, <2>4, <2>5 DEF Synced, Served
  <2>6. CASE w # j
    BY <1>1, <2>3, <2>4, <2>6 DEF Synced, Served
  <2> QED BY <2>5, <2>6
<1> QED BY <1>2, <1>3, <1>4, <1>5, <1>6 DEF KernelNext

LEMMA ResetSynced ==
  ASSUME TypeInv, Reset, NEW j \in Journals \ mixed', Synced(j), Served(j)
  PROVE  Synced(j)' /\ Served(j)'
<1>1. ~client[j].staging /\ ~client[j].pending
  BY DEF Reset, Unanswered
<1>2. client'[j].seq = mailbox[j].seq /\ client'[j].live = mailbox[j].payload
      /\ ~client'[j].staging /\ ~client'[j].pending
  BY DEF Reset, Adopted
<1>3. mailbox' = mailbox /\ table' = table /\ worker' = worker
  BY DEF Reset, journalVars
<1> QED BY <1>1, <1>2, <1>3 DEF Synced, Served

LEMMA RestartSynced ==
  ASSUME TypeInv, Restart, NEW j \in Journals, Served(j), CardWhole(j)
  PROVE  Synced(j)' /\ Served(j)'
<1>1. PICK cards \in CutFiles : CfgInit(cards)
  BY DEF Restart
<1>2. cards \in [Journals -> [0 .. 1 -> Files]] /\ files' = cards
  BY <1>1, CutTypes DEF TypeInv, CfgInit
<1>3. CardWhole(j)'
  BY StepCardWhole DEF Next
<1>4. /\ mailbox'[j].seq = 0 /\ mailbox'[j].ack = 0 /\ table'[j].ack = 0
      /\ IsWhole(mailbox'[j].payload) /\ worker'.stage = "IDLE"
  BY <1>1, <1>2, <1>3, CfgInitSynced DEF CardWhole
<1>5. client'[j].seq = mailbox'[j].seq /\ client'[j].live = mailbox'[j].payload
      /\ ~client'[j].staging /\ ~client'[j].pending
  BY DEF Restart, Adopted
<1> QED BY <1>4, <1>5 DEF Synced, Served

LEMMA InitWhole == Init => WholeInv
<1> SUFFICES ASSUME Init, NEW j \in Journals PROVE Synced(j) /\ Served(j) /\ CardWhole(j)
  BY InitTypes DEF WholeInv
<1>1. files[j] \in [0 .. 1 -> Files] /\ CardWhole(j)
  BY SystemAssumption DEF Init, CardWhole
<1>2. Chosen(Seen(files[j], {})) \in {-1, 0, 1}
  BY <1>1, SeenType, ChosenFacts
<1>3. IsWhole(At(files[j], Chosen(Seen(files[j], {}))))
  BY <1>1, <1>2, DataTypes DEF At, CardWhole
<1>4. mailbox[j].seq = 0 /\ mailbox[j].ack = 0 /\ table[j].ack = 0 /\ IsWhole(mailbox[j].payload)
  BY <1>3 DEF Init, InitTable, InitBox
<1>5. client[j].seq = mailbox[j].seq /\ client[j].live = mailbox[j].payload
      /\ ~client[j].staging /\ ~client[j].pending
  BY DEF Init, Adopted
<1> QED BY <1>1, <1>4, <1>5 DEF Synced, Served, Init, InitWorker

LEMMA StepWhole ==
  ASSUME WholeInv, [Next]_vars
  PROVE  WholeInv'
<1>1. TypeInv /\ TypeInv'
  BY StepTypes DEF WholeInv
<1>2. mixed \subseteq mixed'
  BY DEF Next, Game, ResetAll, Edit, Update, Stage, Ring, Poll, Kernel, Reset, Restart, clientVars, vars
<1>3. ASSUME NEW j \in Journals \ mixed' PROVE Synced(j)' /\ Served(j)' /\ CardWhole(j)'
  <2>1. j \in Journals \ mixed /\ Synced(j) /\ Served(j) /\ CardWhole(j)
    BY <1>2, <1>3 DEF WholeInv
  <2>2. CardWhole(j)'
    BY <1>1, <2>1, StepCardWhole
  <2>3. CASE Game
    <3>1. CASE ResetAll
      BY <1>1, <2>1, <2>2, <3>1, EditSynced
    <3>2. ASSUME NEW k \in Journals, Edit(k) \/ Update(k) PROVE Synced(j)' /\ Served(j)'
      BY <1>1, <2>1, <3>2, EditSynced, UpdateSynced
    <3> QED BY <2>2, <2>3, <3>1, <3>2 DEF Game
  <2>4. CASE Kernel
    BY <1>1, <2>1, <2>2, <2>4, KernelSynced DEF Kernel
  <2>5. CASE Reset
    BY <1>1, <1>3, <2>1, <2>2, <2>5, ResetSynced
  <2>6. CASE Restart
    BY <1>1, <2>1, <2>2, <2>6, RestartSynced
  <2>7. CASE UNCHANGED vars
    BY <2>1, <2>2, <2>7 DEF vars, journalVars, clientVars, Synced, Served
  <2> QED BY <2>2, <2>3, <2>4, <2>5, <2>6, <2>7 DEF Next
<1> QED BY <1>1, <1>3 DEF WholeInv

\* A file with a good checksum holds one payload: nobody changes what the
\* kernel copies, but for journals whose request a reset of the game orphaned.
THEOREM WholeFiles == Spec => []FilesWhole
<1>1. Init => WholeInv
  BY InitWhole
<1>2. WholeInv /\ [Next]_vars => WholeInv'
  BY StepWhole
<1>3. WholeInv => FilesWhole
  BY DEF WholeInv, CardWhole, FilesWhole
<1> QED BY <1>1, <1>2, <1>3, PTL DEF Spec

-----------------------------------------------------------------------------
(* Two files written in turn are a register.                               *)

\* The newest file is the one the kernel remembers, and the one that is
\* written next is another.
Shape(j) ==
  table[j].ready =>
    /\ table[j].active = -1 => ~IsGood(files[j][1])
    /\ table[j].active # -1 => /\ IsGood(files[j][table[j].active])
                               /\ files[j][table[j].active].generation = table[j].generation

ImplInv == TypeInv /\ \A j \in Journals : Shape(j)

\* The file just written counts ...
LEMMA ChosenWritten ==
  ASSUME NEW pair \in [0 .. 1 -> Files], NEW t \in 0 .. 1, NEW g \in Numbers,
         IsGood(pair[t]), pair[t].generation = (g + 1) % Span,
         IsGood(pair[1 - t]) => pair[1 - t].generation = g
  PROVE  Chosen(pair) = t
<1>1. NewerGeneration((g + 1) % Span, g)
  BY NextNumbers
<1>2. ~NewerGeneration(g, (g + 1) % Span)
  <2>1. g + 1 < Span \/ g + 1 = Span
    BY JournalsAssumption DEF Numbers
  <2>2. CASE g + 1 < Span
    <3>1. (g + 1) % Span = g + 1
      BY <2>2, JournalsAssumption DEF Numbers
    <3>2. (g - (g + 1)) % Span = Span - 1
      BY JournalsAssumption DEF Numbers
    <3> QED BY <3>1, <3>2, JournalsAssumption DEF NewerGeneration
  <2>3. CASE g + 1 = Span
    <3>1. (g + 1) % Span = 0
      BY <2>3, JournalsAssumption DEF Numbers
    <3>2. (g - 0) % Span = Span - 1
      BY <2>3, JournalsAssumption DEF Numbers
    <3> QED BY <3>1, <3>2, JournalsAssumption DEF NewerGeneration
  <2> QED BY <2>1, <2>2, <2>3
<1>3. CASE t = 0
  BY <1>2, <1>3 DEF Chosen
<1>4. CASE t = 1
  BY <1>1, <1>4 DEF Chosen
<1> QED BY <1>3, <1>4

\* ... and if it is torn, the other one does.
LEMMA ChosenTorn ==
  ASSUME NEW pair \in [0 .. 1 -> Files], NEW t \in 0 .. 1, ~IsGood(pair[t])
  PROVE  Chosen(pair) = IF IsGood(pair[1 - t]) THEN 1 - t ELSE -1
<1>1. CASE t = 0
  BY <1>1 DEF Chosen
<1>2. CASE t = 1
  BY <1>2 DEF Chosen
<1> QED BY <1>1, <1>2

\* What the journal served holds once its file is truncated, or written.
LEMMA ServedCard ==
  ASSUME ImplInv, worker.stage # "IDLE"
  PROVE  LET w == worker.journal
         IN  /\ w \in Journals /\ table[w].ready
             /\ At(Truncated[w], Chosen(Truncated[w])) = At(files[w], table[w].active)
             /\ At(Truncated[w], table[w].active) = At(files[w], table[w].active)
             /\ At(Written[w], table[w].active) = At(files[w], table[w].active)
             /\ Chosen(Written[w]) = Target(w) /\ At(Written[w], Target(w)) = worker.payload
<1> DEFINE w == worker.journal
           t == Target(w)
           a == table[w].active
<1>1. w \in Journals /\ table[w].ready /\ Shape(w) /\ TypeOK
  BY DEF ImplInv, TypeInv, TypeOK, BusyReady, JournalsTypeOK, Workers
<1>2. table[w] \in Tables /\ worker.payload \in Payloads /\ files \in [Journals -> [0 .. 1 -> Files]]
  BY <1>1 DEF TypeOK, JournalsTypeOK, Workers
<1>3. Truncated[w] \in [0 .. 1 -> Files] /\ Written[w] \in [0 .. 1 -> Files]
  BY <1>1, CardTypes
<1>4. t \in 0 .. 1 /\ 1 - t \in 0 .. 1 /\ t # 1 - t /\ a \in {-1, 1 - t} /\ (a = -1 => t = 0)
  BY <1>2 DEF Target, Tables
<1>5. NextGeneration(w) = (table[w].generation + 1) % Span /\ NextGeneration(w) \in Numbers
      /\ table[w].generation \in Numbers
  BY <1>2, NextNumbers DEF NextGeneration, Tables
<1>6. /\ Truncated[w][t] = Bad /\ Truncated[w][1 - t] = files[w][1 - t]
      /\ Written[w][t] = Good(NextGeneration(w), worker.payload) /\ Written[w][1 - t] = files[w][1 - t]
  BY <1>1, <1>2, <1>4 DEF Truncated, Written
<1>7. IsGood(files[w][1 - t]) /\ a # -1 => files[w][1 - t].generation = table[w].generation
  BY <1>1, <1>4 DEF Shape
<1>8. a = -1 => ~IsGood(files[w][1 - t])
  BY <1>1, <1>4 DEF Shape
<1>9. a # -1 => IsGood(files[w][1 - t]) /\ a = 1 - t
  BY <1>1, <1>4 DEF Shape
<1> HIDE DEF w, t, a
<1>10. Chosen(Truncated[w]) = a
  BY <1>3, <1>4, <1>6, <1>8, <1>9, ChosenTorn, DataTypes
<1>11. /\ At(Truncated[w], a) = At(files[w], a)
       /\ At(Written[w], a) = At(files[w], a)
  BY <1>4, <1>6, <1>9 DEF At
<1>12. Good(NextGeneration(w), worker.payload).generation = NextGeneration(w)
  BY DEF Good
<1>13. Chosen(Written[w]) = t
  <2>1. IsGood(Written[w][t]) /\ Written[w][t].generation = (table[w].generation + 1) % Span
    BY <1>2, <1>5, <1>6, <1>12, GoodType
  <2>2. IsGood(Written[w][1 - t]) => Written[w][1 - t].generation = table[w].generation
    BY <1>6, <1>7, <1>8
  <2> QED BY <1>3, <1>4, <1>5, <2>1, <2>2, ChosenWritten
<1>14. At(Written[w], t) = worker.payload
  BY <1>2, <1>4, <1>5, <1>6, GoodType DEF At
<1> QED BY <1>1, <1>10, <1>11, <1>13, <1>14 DEF w, t, a

\* What a boot finds is what it remembers.
LEMMA CfgInitShape ==
  ASSUME NEW pair \in [0 .. 1 -> Files], NEW unread \in SUBSET (0 .. 1), NEW j \in Journals,
         InitTable(j, pair, unread).ready
  PROVE  LET record == InitTable(j, pair, unread)
         IN  /\ record.active = Chosen(pair)
             /\ record.active = -1 => ~IsGood(pair[1])
             /\ record.active # -1 => /\ IsGood(pair[record.active])
                                      /\ pair[record.active].generation = record.generation
<1>1. Seen(pair, unread) = pair
  BY DEF InitTable, Safe, Seen
<1>2. InitTable(j, pair, unread).active = Chosen(pair)
      /\ (Chosen(pair) # -1 => InitTable(j, pair, unread).generation = pair[Chosen(pair)].generation)
  BY <1>1 DEF InitTable
<1> QED BY <1>2, ChosenFacts

LEMMA RestartShape ==
  ASSUME TypeInv, NEW cards \in CutFiles, CfgInit(cards), NEW j \in Journals
  PROVE  /\ Shape(j)' /\ files' = cards
         /\ Stored(j)' = At(cards[j], Chosen(cards[j])) /\ Kept(j)' = Stored(j)'
<1>1. cards[j] \in [0 .. 1 -> Files] /\ files' = cards
  BY CutTypes DEF TypeInv, CfgInit
<1>2. \A k \in Journals, i \in 0 .. 1 : (IF j = k THEN {i} ELSE {}) \in SUBSET (0 .. 1)
  OBVIOUS
<1>3. PICK unread \in SUBSET (0 .. 1) : table'[j] = InitTable(j, cards[j], unread)
  BY <1>2 DEF CfgInit
<1>4. Shape(j)' /\ (table'[j].ready => table'[j].active = Chosen(cards[j]))
  BY <1>1, <1>3, CfgInitShape DEF Shape
<1> QED BY <1>1, <1>4 DEF Stored, Kept

\* The kernel's record of a journal, after a step that serves it or another.
LEMMA TableChange ==
  ASSUME TypeInv, KernelNext, NEW j \in Journals
  PROVE  /\ table'[j].ready = table[j].ready
         /\ \/ table'[j].active = table[j].active /\ table'[j].generation = table[j].generation
            \/ /\ On("WRITE") /\ files' = Written /\ j = worker.journal
               /\ table'[j].active = Target(j) /\ table'[j].generation = NextGeneration(j)
<1> DEFINE w == worker.journal
           advanced == [table[w] EXCEPT !.generation = NextGeneration(w), !.active = Target(w)]
           noted == [table[w] EXCEPT !.ack = worker.seq]
<1>1. table \in [Journals -> Tables] /\ w \in Journals /\ table[w] \in Tables
  BY DEF TypeInv, TypeOK, JournalsTypeOK, Workers
<1>2. /\ advanced.ready = table[w].ready /\ noted.ready = table[w].ready
      /\ advanced.active = Target(w) /\ noted.active = table[w].active
      /\ advanced.generation = NextGeneration(w) /\ noted.generation = table[w].generation
  BY <1>1 DEF Tables
<1>3. \/ table' = table
      \/ table' = [table EXCEPT ![w] = advanced] /\ On("WRITE") /\ files' = Written
      \/ table' = [table EXCEPT ![w] = noted] /\ On("ANSWER")
  BY <1>1 DEF KernelNext, Take, CopyFirst, CopySecond, Open, Write, Answer, Fail
<1>4. On("ANSWER") => ~On("WRITE")
  BY DEF On
<1> HIDE DEF advanced, noted
<1>5. CASE table' = table
  BY <1>5
<1>6. CASE table' = [table EXCEPT ![w] = advanced] /\ On("WRITE") /\ files' = Written
  BY <1>1, <1>2, <1>6
<1>7. CASE table' = [table EXCEPT ![w] = noted] /\ On("ANSWER")
  BY <1>1, <1>2, <1>4, <1>7
<1> QED BY <1>3, <1>5, <1>6, <1>7

LEMMA KernelShape ==
  ASSUME ImplInv, KernelNext, [Next]_vars, NEW j \in Journals
  PROVE  Shape(j)'
<1> SUFFICES ASSUME table'[j].ready
             PROVE  /\ table'[j].active = -1 => ~IsGood(files'[j][1])
                    /\ table'[j].active # -1 => /\ IsGood(files'[j][table'[j].active])
                                                /\ files'[j][table'[j].active].generation = table'[j].generation
  BY DEF Shape
<1>0. TypeInv /\ Shape(j) /\ table[j] \in Tables /\ worker.payload \in Payloads
  BY DEF ImplInv, TypeInv, TypeOK, JournalsTypeOK, Workers
<1>1. /\ table[j].ready
      /\ table[j].active = -1 => ~IsGood(files[j][1])
      /\ table[j].active # -1 => /\ IsGood(files[j][table[j].active])
                                 /\ files[j][table[j].active].generation = table[j].generation
  BY <1>0, TableChange DEF Shape
<1>2. Target(j) \in 0 .. 1 /\ Target(j) # table[j].active /\ (table[j].active = -1 => Target(j) = 0)
      /\ table[j].active \in {-1, 0, 1}
  BY <1>0 DEF Target, Tables
<1>3. \A i \in 0 .. 1 : i # Target(j) => files'[j][i] = files[j][i]
  <2> SUFFICES ASSUME NEW i \in 0 .. 1, files'[j][i] # files[j][i] PROVE i = Target(j)
    OBVIOUS
  <2> QED BY <1>0, FilesChange, CutSteps
<1>4. CASE table'[j].active = table[j].active /\ table'[j].generation = table[j].generation
  BY <1>1, <1>2, <1>3, <1>4
<1>5. CASE /\ On("WRITE") /\ files' = Written /\ j = worker.journal
           /\ table'[j].active = Target(j) /\ table'[j].generation = NextGeneration(j)
  <2>1. files'[j][Target(j)] = Good(NextGeneration(j), worker.payload)
    BY <1>0, <1>2, <1>5 DEF Written, TypeInv, TypeOK, JournalsTypeOK
  <2>2. IsGood(files'[j][Target(j)]) /\ files'[j][Target(j)].generation = NextGeneration(j)
    BY <2>1 DEF Good, IsGood
  <2> QED BY <1>2, <1>5, <2>2
<1> QED BY <1>0, <1>4, <1>5, TableChange

LEMMA InitShape == Init => ImplInv /\ \A j \in Journals : Kept(j) = Stored(j)
<1> SUFFICES ASSUME Init, NEW j \in Journals PROVE Shape(j) /\ Kept(j) = Stored(j)
  BY InitTypes DEF ImplInv
<1>1. files[j] \in [0 .. 1 -> Files] /\ table[j] = InitTable(j, files[j], {}) /\ {} \in SUBSET (0 .. 1)
  BY SystemAssumption DEF Init
<1>2. Shape(j) /\ (table[j].ready => table[j].active = Chosen(files[j]))
  BY <1>1, CfgInitShape DEF Shape
<1> QED BY <1>2 DEF Kept, Stored

LEMMA StepShape ==
  ASSUME ImplInv, [Next]_vars
  PROVE  ImplInv'
<1>1. TypeInv'
  BY StepTypes DEF ImplInv
<1>2. ASSUME NEW j \in Journals PROVE Shape(j)'
  <2>1. CASE Kernel
    BY <2>1, KernelShape DEF Kernel
  <2>2. CASE Restart
    BY <2>2, RestartShape DEF Restart, ImplInv
  <2>3. CASE Game \/ Reset \/ UNCHANGED vars
    <3>1. files' = files /\ table' = table
      BY <2>3 DEF Game, Reset, ResetAll, Edit, Update, Stage, Ring, Poll, journalVars, vars
    <3> QED BY <3>1 DEF ImplInv, Shape
  <2> QED BY <2>1, <2>2, <2>3 DEF Next
<1> QED BY <1>1, <1>2 DEF ImplInv

\* The steps of the register, in terms of the journals.
LEMMA WorkStep ==
  ASSUME runs' = runs, NEW r \in Journals,
         \/ Stored(r)' = Asked(r) /\ Kept(r)' = Asked(r)
         \/ Stored(r)' \in {Stored(r), Kept(r), Asked(r)} /\ Kept(r)' = Kept(r),
         \A other \in Journals \ {r} : Stored(other)' = Stored(other) /\ Kept(other)' = Kept(other)
  PROVE  Bank!Work
BY DEF Bank!Work, Bank!Save, Bank!Try, Bank!Same

LEMMA FilesKeep ==
  ASSUME NEW j \in Journals, files'[j] = files[j], table'[j].ready = table[j].ready, table'[j].active = table[j].active
  PROVE  Stored(j)' = Stored(j) /\ Kept(j)' = Kept(j)
BY DEF Stored, Kept

\* Every step of the kernel works on one journal, the one it serves.
LEMMA KernelImplements ==
  ASSUME ImplInv, Kernel
  PROVE  Bank!Work
<1>1. TypeInv /\ worker.journal \in Journals /\ runs' = runs /\ KernelNext /\ [Next]_vars
  BY DEF ImplInv, TypeInv, TypeOK, JournalsTypeOK, Workers, Kernel, Next
<1> PICK w \in Journals : w = worker.journal
  BY <1>1
<1>2. files \in [Journals -> [0 .. 1 -> Files]]
  BY <1>1 DEF TypeInv, TypeOK, JournalsTypeOK
<1>3. ASSUME NEW other \in Journals \ {w}
      PROVE  Stored(other)' = Stored(other) /\ Kept(other)' = Kept(other)
  <2>1. files'[other] = files[other]
    BY <1>1, <1>2, FilesChange DEF Truncated, Written
  <2>2. table'[other].ready = table[other].ready /\ table'[other].active = table[other].active
    BY <1>1, TableChange
  <2> QED BY <2>1, <2>2, FilesKeep
<1>4. table'[w].ready = table[w].ready
  BY <1>1, TableChange
<1>5. CASE files' = files /\ table'[w].active = table[w].active
  BY <1>1, <1>3, <1>4, <1>5, FilesKeep, WorkStep
<1>6. CASE files' = Truncated /\ On("OPEN")
  <2>1. table'[w].active = table[w].active /\ worker.stage # "IDLE"
    BY <1>1, <1>6, TableChange DEF On
  <2>2. Stored(w)' = Kept(w) /\ Kept(w)' = Kept(w)
    BY <1>4, <1>6, <2>1, ServedCard DEF Stored, Kept
  <2> QED BY <1>1, <1>3, <2>2, WorkStep
<1>7. CASE files' = Written /\ On("WRITE")
  <2>1. worker.stage # "IDLE" /\ Asked(w) = worker.payload
    BY <1>7 DEF On, Asked
  <2>2. Stored(w)' = Asked(w)
    BY <1>7, <2>1, ServedCard DEF Stored
  <2>3. Kept(w)' = Kept(w) \/ Kept(w)' = Asked(w)
    <3>1. table'[w].active \in {table[w].active, Target(w)}
      BY <1>1, TableChange
    <3> QED BY <1>4, <1>7, <2>1, <3>1, ServedCard DEF Kept
  <2> QED BY <1>1, <1>3, <2>2, <2>3, WorkStep
<1>8. table'[w].active # table[w].active => files' = Written /\ On("WRITE")
  BY <1>1, TableChange
<1> QED BY <1>1, <1>5, <1>6, <1>7, <1>8, FilesChange

LEMMA RestartImplements ==
  ASSUME ImplInv, Restart
  PROVE  Bank!Restart
<1>1. PICK cards \in CutFiles : CfgInit(cards)
  BY DEF Restart
<1>2. runs' # runs
  BY DEF Restart, ImplInv, TypeInv, TypeOK
<1>3. TypeInv /\ worker.journal \in Journals /\ files \in [Journals -> [0 .. 1 -> Files]]
  BY DEF ImplInv, TypeInv, TypeOK, JournalsTypeOK, Workers
<1>4. ASSUME NEW j \in Journals
      PROVE  Stored(j)' \in {Stored(j), Kept(j), Asked(j)} /\ Kept(j)' = Stored(j)'
  <2>1. Stored(j)' = At(cards[j], Chosen(cards[j])) /\ Kept(j)' = Stored(j)'
    BY <1>1, <1>3, RestartShape
  <2>2. CASE cards[j] = files[j]
    BY <2>1, <2>2 DEF Stored
  <2>3. CASE cards[j] # files[j]
    <3>1. (cards = Truncated /\ On("OPEN")) \/ (cards = Written /\ On("WRITE"))
      BY <1>1, <2>3 DEF CutFiles
    <3>2. j = worker.journal
      BY <1>3, <2>3, <3>1 DEF Truncated, Written
    <3>3. table[j].ready /\ worker.stage # "IDLE"
      BY <3>1, <3>2, ServedCard DEF On
    <3>4. CASE cards = Truncated
      BY <2>1, <3>2, <3>3, <3>4, ServedCard DEF Kept
    <3>5. CASE cards = Written /\ On("WRITE")
      BY <2>1, <3>2, <3>3, <3>5, ServedCard DEF Asked
    <3> QED BY <3>1, <3>4, <3>5
  <2> QED BY <2>2, <2>3
<1> QED BY <1>2, <1>4 DEF Bank!Restart, Bank!Boot

\* The game alone works on no journal; a reset of it is a restart.
LEMMA GameImplements ==
  ASSUME ImplInv, Game \/ Reset \/ UNCHANGED vars
  PROVE  [Bank!Work \/ Bank!Restart]_(Bank!vars)
<1>1. files' = files /\ table' = table /\ worker' = worker
  BY DEF Game, Reset, ResetAll, Edit, Update, Stage, Ring, Poll, journalVars, vars
<1>2. \A j \in Journals : Stored(j)' = Stored(j) /\ Kept(j)' = Kept(j)
  BY <1>1 DEF Stored, Kept
<1>3. CASE Reset
  <2>1. runs' # runs
    BY <1>3 DEF Reset, ImplInv, TypeInv, TypeOK
  <2> QED BY <1>2, <2>1 DEF Bank!Restart, Bank!Same
<1>4. CASE Game \/ UNCHANGED vars
  <2>1. runs' = runs
    BY <1>4 DEF Game, vars
  <2>2. PICK r \in Journals : TRUE
    BY JournalsAssumption
  <2> QED BY <1>2, <2>1, <2>2, WorkStep
<1> QED BY <1>3, <1>4

LEMMA StepImplements ==
  ASSUME ImplInv, [Next]_vars
  PROVE  [Bank!Work \/ Bank!Restart]_(Bank!vars)
BY KernelImplements, RestartImplements, GameImplements DEF Next

\* The pairs of files implement the registers: what was acknowledged last is
\* not lost, and a restart finds it or what was being written, through failing
\* calls, unreadable files, resets and power cuts.
THEOREM JournalsAreRegisters == Spec => JournalsImplemented
<1> DEFINE Steps == [Bank!Work \/ Bank!Restart]_(Bank!vars)
           First == [j \in Journals |-> Kept(j)] = [j \in Journals |-> Stored(j)]
<1>1. Init => ImplInv /\ First
  BY InitShape
<1>2. ImplInv /\ [Next]_vars => ImplInv'
  BY StepShape
<1>3. ImplInv /\ [Next]_vars => Steps
  BY StepImplements
<1>4. Spec => First /\ [][Bank!Work \/ Bank!Restart]_(Bank!vars)
  BY <1>1, <1>2, <1>3, PTL DEF Spec
<1> QED BY <1>4 DEF JournalsImplemented, Bank!Spec

-----------------------------------------------------------------------------
(* What the menu shows as saved is saved, and a reset of the records lasts: *)
(* an answer a client takes for its own is the answer to its own request.   *)
(* Each reset of the game can leave one request behind, so the numbers tell *)
(* requests apart while there are fewer resets than numbers.                *)

Apart(a, b) == (a - b) % Span
Busy(j) == worker.stage # "IDLE" /\ worker.journal = j

\* The requests not answered are those of the resets and the one waited for;
\* the kernel serves one of them.
Numbered(j) ==
  /\ client[j].seq = mailbox[j].seq /\ table[j].ack = mailbox[j].ack
  /\ client[j].staging => ~client[j].pending
  /\ mailbox[j].writable = table[j].ready
  /\ client[j].backend \/ client[j].staging \/ client[j].pending => table[j].ready
  /\ Apart(mailbox[j].seq, mailbox[j].ack) <= runs + IF client[j].pending THEN 1 ELSE 0
  /\ Busy(j) => Apart(mailbox[j].seq, worker.seq) < Apart(mailbox[j].seq, mailbox[j].ack)

\* What is asked for is what is shown.
Asks(j) ==
  /\ client[j].staging => mailbox[j].payload.first = client[j].live.first
  /\ client[j].pending /\ ~client[j].dirty => client[j].live = mailbox[j].payload

Holds(j) == Stored(j) = mailbox[j].payload /\ Kept(j) = mailbox[j].payload

\* The request waited for is copied as it is, and answered truly.
Copied(j) ==
  /\ On("SECOND") => worker.payload.first = mailbox[j].payload.first
  /\ On("OPEN") \/ On("WRITE") => worker.payload = mailbox[j].payload
  /\ On("ANSWER") /\ ~worker.failed => Holds(j)
Answers(j) ==
  client[j].pending =>
    /\ Busy(j) /\ worker.seq = mailbox[j].seq => Copied(j)
    /\ mailbox[j].seq = mailbox[j].ack /\ ~mailbox[j].failed => Holds(j)

\* A client that owes nothing and saw no failure stands on the card.
Confirmed(j) == ~client[j].staging /\ ~client[j].pending /\ ~client[j].error /\ ~client[j].orphan
Rests(j) ==
  table[j].ready /\ Confirmed(j) =>
    /\ mailbox[j].seq = mailbox[j].ack /\ Stored(j) = mailbox[j].payload
    /\ ~client[j].dirty => client[j].live = mailbox[j].payload

\* No version from before the reset of the records.
Clean(j, payload) == payload.first >= client[j].wiped /\ payload.second >= client[j].wiped
BothClean(j) == \A i \in 0 .. 1 : IsGood(files[j][i]) => Clean(j, files[j][i].payload)

\* After the first write of a reset the file that counts is clean and nothing
\* older is on its way; after the second the other one is clean too.
FirstDone(j) ==
  /\ Clean(j, mailbox[j].payload)
  /\ table[j].ready => table[j].active = -1 \/ Clean(j, Kept(j))
  /\ Busy(j) /\ On("SECOND") => worker.payload.first >= client[j].wiped
  /\ Busy(j) /\ (On("OPEN") \/ On("WRITE")) => Clean(j, worker.payload)
  /\ Busy(j) /\ On("ANSWER") /\ ~worker.failed => BothClean(j)
  /\ client[j].pending /\ mailbox[j].seq = mailbox[j].ack /\ ~mailbox[j].failed => BothClean(j)
Wiped(j) ==
  /\ client[j].wiped <= newest /\ Clean(j, client[j].live)
  /\ client[j].resetting => Clean(j, mailbox[j].payload)
  /\ client[j].remaining <= 1 => FirstDone(j)
  /\ client[j].remaining = 0 => BothClean(j)

Told(j) == Numbered(j) /\ Asks(j) /\ Answers(j) /\ Rests(j) /\ Wiped(j)
ToldInv == ImplInv /\ \A j \in Journals : Told(j)

LEMMA ApartFacts ==
  ASSUME NEW a \in Numbers, NEW b \in Numbers
  PROVE  /\ Apart(a, b) \in 0 .. Span - 1
         /\ Apart(a, b) = 0 <=> a = b
         /\ Apart(a, b) + 1 < Span => Apart((a + 1) % Span, b) = Apart(a, b) + 1
<1>1. Span \in Nat /\ Span > 2 /\ a \in 0 .. Span - 1 /\ b \in 0 .. Span - 1
  BY JournalsAssumption DEF Numbers
<1>2. \A x \in 0 .. Span - 1 : (x - b) % Span = IF x >= b THEN x - b ELSE x - b + Span
  <2> SUFFICES ASSUME NEW x \in 0 .. Span - 1
               PROVE  (x - b) % Span = IF x >= b THEN x - b ELSE x - b + Span
    OBVIOUS
  <2>1. CASE x >= b
    BY <1>1, <2>1
  <2>2. CASE x < b
    BY <1>1, <2>2
  <2> QED BY <1>1, <2>1, <2>2
<1>3. (a + 1) % Span = IF a + 1 = Span THEN 0 ELSE a + 1
  <2>1. CASE a + 1 = Span
    BY <1>1, <2>1
  <2>2. CASE a + 1 < Span
    BY <1>1, <2>2
  <2> QED BY <1>1, <2>1, <2>2
<1>4. (a + 1) % Span \in 0 .. Span - 1
  BY <1>1, <1>3
<1> QED BY <1>1, <1>2, <1>3, <1>4 DEF Apart

LEMMA JournalTypes ==
  ASSUME TypeInv, NEW j \in Journals
  PROVE  /\ client[j] \in Clients /\ mailbox[j] \in Boxes /\ table[j] \in Tables
         /\ files[j] \in [0 .. 1 -> Files] /\ worker \in Workers /\ worker.journal \in Journals
         /\ runs \in Nat /\ runs <= MaxRuns /\ MaxRuns \in Nat /\ newest \in Versions
         /\ Versions \subseteq Nat
BY SystemAssumption, JournalsAssumption DEF TypeInv, TypeOK, JournalsTypeOK, ClientsTypeOK, Workers, Versions

\* A step that has nothing to do with the journal.
LEMMA Untouched ==
  ASSUME NEW j \in Journals, Told(j), newest \in Nat, newest' \in Nat, newest <= newest',
         client[j].wiped \in Nat,
         client'[j] = client[j], mailbox'[j] = mailbox[j], table'[j] = table[j], files'[j] = files[j],
         runs' = runs, worker' = worker \/ (~Busy(j) /\ ~Busy(j)')
  PROVE  Told(j)'
<1>1. Stored(j)' = Stored(j) /\ Kept(j)' = Kept(j)
  BY FilesKeep
<1>2. Numbered(j)' /\ Asks(j)'
  BY DEF Told, Numbered, Asks, Busy
<1>3. Answers(j)' /\ Rests(j)'
  BY <1>1 DEF Told, Answers, Rests, Busy, Copied, Holds, Confirmed, On
<1>4. BothClean(j)' <=> BothClean(j)
  BY DEF BothClean, Clean
<1>5. FirstDone(j)' <=> FirstDone(j)
  BY <1>1, <1>4 DEF FirstDone, Clean, Busy, On
<1>6. Wiped(j)'
  BY <1>4, <1>5 DEF Told, Wiped, Clean
<1> QED BY <1>2, <1>3, <1>6 DEF Told

LEMMA EditEffect ==
  ASSUME TypeInv, NEW j \in Journals, NEW k \in Journals, Edit(k) \/ ResetAll
  PROVE  /\ UNCHANGED journalVars /\ newest' = newest + 1
         /\ \/ client'[j] = client[j]
            \/ /\ client[j].backend /\ ~client[j].staging /\ ~client'[j].staging
               /\ client'[j].seq = client[j].seq /\ client'[j].pending = client[j].pending
               /\ client'[j].backend = client[j].backend /\ client'[j].error = client[j].error
               /\ client'[j].orphan = client[j].orphan
               /\ client'[j].live = AllOf(newest') /\ client'[j].dirty
               /\ \/ /\ client'[j].wiped = client[j].wiped
                     /\ client'[j].remaining = client[j].remaining
                     /\ client'[j].resetting = client[j].resetting
                  \/ client'[j].wiped = newest' /\ client'[j].remaining = 2 /\ ~client'[j].resetting
<1>1. client \in [Journals -> Clients] /\ client[j] \in Clients
  BY DEF TypeInv, TypeOK, ClientsTypeOK
<1>2. UNCHANGED journalVars /\ newest' = newest + 1
  BY DEF Edit, ResetAll
<1>3. CASE Edit(k)
  <2>1. CASE j # k
    BY <1>1, <1>2, <1>3, <2>1 DEF Edit
  <2>2. CASE j = k
    <3>1. client'[j] = [client[j] EXCEPT !.live = AllOf(newest'), !.dirty = TRUE]
      BY <1>1, <1>3, <2>2 DEF Edit
    <3>2. client[j].backend /\ ~client[j].staging
      BY <1>3, <2>2 DEF Edit, Idle
    <3> QED BY <1>1, <1>2, <3>1, <3>2 DEF Clients
  <2> QED BY <2>1, <2>2
<1>4. CASE ResetAll
  <2>1. CASE j # "PROGRESS"
    BY <1>1, <1>2, <1>4, <2>1 DEF ResetAll
  <2>2. CASE j = "PROGRESS"
    <3>1. client'[j] = [client[j] EXCEPT !.live = AllOf(newest'), !.dirty = TRUE,
                          !.remaining = ResetWrites, !.resetting = FALSE, !.wiped = newest']
      BY <1>1, <1>4, <2>2 DEF ResetAll
    <3>2. client[j].backend /\ ~client[j].staging
      BY <1>4, <2>2 DEF ResetAll, Idle
    <3> QED BY <1>1, <1>2, <3>1, <3>2 DEF Clients, ResetWrites
  <2> QED BY <2>1, <2>2
<1> QED BY <1>3, <1>4

LEMMA EditTold ==
  ASSUME TypeInv, NEW j \in Journals, Told(j), NEW k \in Journals, Edit(k) \/ ResetAll, runs' = runs
  PROVE  Told(j)'
<1>1. /\ mailbox' = mailbox /\ files' = files /\ table' = table /\ worker' = worker
      /\ newest' = newest + 1 /\ newest \in Nat /\ client[j].wiped \in Nat /\ client[j].remaining \in 0 .. 2
  BY EditEffect, JournalTypes DEF journalVars, Clients
<1>2. CASE client'[j] = client[j]
  BY <1>1, <1>2, Untouched
<1>3. CASE client'[j] # client[j]
  <2>1. /\ client[j].backend /\ ~client[j].staging /\ ~client'[j].staging
        /\ client'[j].seq = client[j].seq /\ client'[j].pending = client[j].pending
        /\ client'[j].backend = client[j].backend /\ client'[j].error = client[j].error
        /\ client'[j].orphan = client[j].orphan
        /\ client'[j].live = AllOf(newest') /\ client'[j].dirty
    BY <1>3, EditEffect
  <2>2. Stored(j)' = Stored(j) /\ Kept(j)' = Kept(j)
    BY <1>1 DEF Stored, Kept
  <2>3. Numbered(j)' /\ Asks(j)'
    BY <1>1, <2>1 DEF Told, Numbered, Asks, Busy
  <2>4. Answers(j)' /\ Rests(j)'
    BY <1>1, <2>1, <2>2 DEF Told, Answers, Rests, Busy, Copied, Holds, Confirmed, On
  <2>5. Wiped(j)'
    <3>1. client'[j].wiped \in Nat /\ client'[j].wiped <= newest' /\ Clean(j, client[j].live)'
      <4>1. client'[j].wiped = client[j].wiped \/ client'[j].wiped = newest'
        BY <1>3, EditEffect
      <4>2. client[j].wiped <= newest
        BY DEF Told, Wiped
      <4>3. client'[j].wiped \in Nat /\ client'[j].wiped <= newest'
        BY <1>1, <4>1, <4>2
      <4> QED BY <1>1, <2>1, <4>3 DEF Clean, AllOf
    <3>2. CASE /\ client'[j].wiped = client[j].wiped
               /\ client'[j].remaining = client[j].remaining
               /\ client'[j].resetting = client[j].resetting
      <4>1. BothClean(j)' <=> BothClean(j)
        BY <1>1, <3>2 DEF BothClean, Clean
      <4>2. FirstDone(j)' <=> FirstDone(j)
        BY <1>1, <2>1, <2>2, <3>2, <4>1 DEF FirstDone, Clean, Busy, On
      <4> QED BY <1>1, <3>1, <3>2, <4>1, <4>2 DEF Told, Wiped, Clean
    <3>3. CASE client'[j].wiped = newest' /\ client'[j].remaining = 2 /\ ~client'[j].resetting
      BY <3>1, <3>3 DEF Wiped
    <3> QED BY <1>3, <3>2, <3>3, EditEffect
  <2> QED BY <2>3, <2>4, <2>5 DEF Told
<1> QED BY <1>2, <1>3

\* The client's own steps, seen from its journal.
LEMMA StageEffect ==
  ASSUME TypeInv, NEW j \in Journals, Stage(j)
  PROVE  /\ UNCHANGED <<files, table, worker, newest>>
         /\ client[j].backend /\ client[j].dirty /\ ~client[j].staging /\ ~client[j].pending
         /\ client'[j] = [client[j] EXCEPT !.staging = TRUE]
         /\ mailbox'[j].payload.first = client[j].live.first
         /\ mailbox'[j].payload.second = mailbox[j].payload.second
         /\ mailbox'[j].seq = mailbox[j].seq /\ mailbox'[j].ack = mailbox[j].ack
         /\ mailbox'[j].failed = mailbox[j].failed /\ mailbox'[j].writable = mailbox[j].writable
<1>1. client[j] \in Clients /\ mailbox[j] \in Boxes /\ mailbox[j].payload \in Payloads
      /\ client \in [Journals -> Clients] /\ mailbox \in [Journals -> Boxes]
  BY DEF TypeInv, TypeOK, ClientsTypeOK, JournalsTypeOK, Boxes
<1>2. mailbox'[j] = [mailbox[j] EXCEPT !.payload = [mailbox[j].payload EXCEPT !.first = client[j].live.first]]
  BY <1>1 DEF Stage, Boxes
<1> QED BY <1>1, <1>2 DEF Stage, MayStage, Idle, Boxes, Payloads

LEMMA RingEffect ==
  ASSUME TypeInv, NEW j \in Journals, Ring(j)
  PROVE  /\ UNCHANGED <<files, table, worker, newest>>
         /\ client[j].staging
         /\ client'[j] = [client[j] EXCEPT
              !.staging = FALSE, !.seq = (client[j].seq + 1) % Span, !.pending = TRUE,
              !.dirty = FALSE, !.error = FALSE, !.resetting = @ \/ client[j].remaining # 0]
         /\ mailbox'[j].payload.first = mailbox[j].payload.first
         /\ mailbox'[j].payload.second = client[j].live.second
         /\ mailbox'[j].payload \in Payloads
         /\ mailbox'[j].seq = (client[j].seq + 1) % Span /\ mailbox'[j].ack = mailbox[j].ack
         /\ mailbox'[j].failed = mailbox[j].failed /\ mailbox'[j].writable = mailbox[j].writable
<1>1. client[j] \in Clients /\ mailbox[j] \in Boxes /\ mailbox[j].payload \in Payloads
      /\ client \in [Journals -> Clients] /\ mailbox \in [Journals -> Boxes]
      /\ client[j].live \in Payloads
  BY DEF TypeInv, TypeOK, ClientsTypeOK, JournalsTypeOK, Boxes, Clients
<1>2. mailbox'[j] = [mailbox[j] EXCEPT !.payload = [mailbox[j].payload EXCEPT !.second = client[j].live.second],
                                       !.seq = (client[j].seq + 1) % Span]
  BY <1>1 DEF Ring, Boxes
<1> QED BY <1>1, <1>2 DEF Ring, Boxes, Payloads

LEMMA StageTold ==
  ASSUME TypeInv, NEW j \in Journals, Told(j), Stage(j), runs' = runs
  PROVE  Told(j)'
<1>1. /\ client[j] \in Clients /\ mailbox[j] \in Boxes /\ Versions \subseteq Nat
      /\ client[j].wiped \in Nat /\ mailbox[j].payload \in Payloads /\ client[j].live \in Payloads
  BY JournalTypes DEF Clients, Boxes
<1>2. /\ client'[j].staging /\ ~client'[j].pending
      /\ client'[j].seq = client[j].seq /\ client'[j].live = client[j].live
      /\ client'[j].backend = client[j].backend /\ client'[j].dirty = client[j].dirty
      /\ client'[j].wiped = client[j].wiped /\ client'[j].remaining = client[j].remaining
      /\ client'[j].resetting = client[j].resetting
  BY <1>1, StageEffect DEF Clients
<1>3. Stored(j)' = Stored(j) /\ Kept(j)' = Kept(j)
  BY StageEffect DEF Stored, Kept
<1>4. Numbered(j)' /\ Asks(j)' /\ Answers(j)' /\ Rests(j)'
  BY <1>2, StageEffect DEF Told, Numbered, Asks, Answers, Rests, Confirmed, Busy
<1>5. Clean(j, mailbox[j].payload) => Clean(j, mailbox[j].payload)'
  BY <1>2, StageEffect DEF Told, Wiped, Clean
<1>6. BothClean(j)' <=> BothClean(j)
  BY <1>2, StageEffect DEF BothClean, Clean
<1>7. FirstDone(j) => FirstDone(j)'
  BY <1>2, <1>3, <1>5, <1>6, StageEffect DEF FirstDone, Clean, Busy, On
<1>8. Wiped(j)'
  BY <1>2, <1>5, <1>6, <1>7, StageEffect DEF Told, Wiped, Clean
<1> QED BY <1>4, <1>8 DEF Told

LEMMA RingTold ==
  ASSUME MaxRuns + 1 < Span, TypeInv, NEW j \in Journals, Told(j), Ring(j), runs' = runs
  PROVE  Told(j)'
<1>1. /\ client[j] \in Clients /\ mailbox[j] \in Boxes /\ Versions \subseteq Nat /\ worker \in Workers
      /\ client[j].wiped \in Nat /\ mailbox[j].payload \in Payloads /\ client[j].live \in Payloads
      /\ client[j].seq \in Numbers /\ mailbox[j].ack \in Numbers /\ worker.seq \in Numbers
      /\ runs \in Nat /\ MaxRuns \in Nat /\ runs <= MaxRuns
  BY JournalTypes DEF Clients, Boxes, Workers
<1>2. /\ ~client'[j].staging /\ client'[j].pending /\ ~client'[j].dirty /\ ~client'[j].error
      /\ client'[j].seq = (client[j].seq + 1) % Span /\ client'[j].live = client[j].live
      /\ client'[j].backend = client[j].backend /\ client'[j].orphan = client[j].orphan
      /\ client'[j].wiped = client[j].wiped /\ client'[j].remaining = client[j].remaining
  <2>1. PICK seq \in Numbers : seq = (client[j].seq + 1) % Span
    BY <1>1, NextNumbers
  <2>2. PICK resetting \in BOOLEAN : resetting = (client[j].resetting \/ client[j].remaining # 0)
    BY Zenon
  <2>3. client'[j] = [client[j] EXCEPT !.staging = FALSE, !.seq = seq, !.pending = TRUE,
                        !.dirty = FALSE, !.error = FALSE, !.resetting = resetting]
    BY <2>1, <2>2, RingEffect, Zenon
  <2> QED BY <1>1, <2>1, <2>3 DEF Clients
<1>16. /\ UNCHANGED <<files, table, worker, newest>> /\ client[j].staging
       /\ mailbox'[j].payload.first = mailbox[j].payload.first
       /\ mailbox'[j].payload.second = client[j].live.second /\ mailbox'[j].payload \in Payloads
       /\ mailbox'[j].seq = (client[j].seq + 1) % Span /\ mailbox'[j].ack = mailbox[j].ack
       /\ mailbox'[j].writable = mailbox[j].writable
  BY RingEffect, Zenon
<1>3. Stored(j)' = Stored(j) /\ Kept(j)' = Kept(j)
  BY <1>16 DEF Stored, Kept
<1>4. /\ client[j].seq = mailbox[j].seq /\ ~client[j].pending
      /\ Apart(mailbox[j].seq, mailbox[j].ack) <= runs
      /\ Busy(j) => Apart(mailbox[j].seq, worker.seq) < Apart(mailbox[j].seq, mailbox[j].ack)
  BY <1>1, <1>16 DEF Told, Numbered
<1>5. PICK seq \in Numbers : seq = mailbox[j].seq
  BY <1>1, <1>4
<1>6. /\ Apart(seq, mailbox[j].ack) \in Nat /\ Apart(seq, worker.seq) \in Nat
      /\ Apart(seq, mailbox[j].ack) + 1 < Span
      /\ Busy(j) => Apart(seq, worker.seq) + 1 < Span
  BY <1>1, <1>4, <1>5, JournalsAssumption, ApartFacts
<1>7. /\ Apart(mailbox[j].seq, mailbox[j].ack)' = Apart(seq, mailbox[j].ack) + 1
      /\ Busy(j) => Apart(mailbox[j].seq, worker.seq)' = Apart(seq, worker.seq) + 1
  <2>1. /\ mailbox'[j].seq = (seq + 1) % Span /\ mailbox'[j].ack = mailbox[j].ack
        /\ worker'.seq = worker.seq
    BY <1>4, <1>5, <1>16
  <2>2. /\ Apart(mailbox[j].seq, mailbox[j].ack)' = Apart((seq + 1) % Span, mailbox[j].ack)
        /\ Apart(mailbox[j].seq, worker.seq)' = Apart((seq + 1) % Span, worker.seq)
    BY <2>1
  <2> QED BY <1>1, <1>6, <2>2, ApartFacts
<1>8. mailbox'[j].seq \in Numbers
  BY <1>1, <1>16, NextNumbers
<1>9. mailbox'[j].seq # mailbox'[j].ack
  <2>1. mailbox'[j].ack \in Numbers /\ Apart(mailbox'[j].seq, mailbox'[j].ack) # 0
    BY <1>1, <1>6, <1>7, <1>16
  <2> QED BY <1>8, <2>1, ApartFacts
<1>10. Busy(j)' <=> Busy(j)
  BY <1>16 DEF Busy
<1>11. ~(Busy(j)' /\ worker'.seq = mailbox'[j].seq)
  <2> SUFFICES ASSUME Busy(j) PROVE worker'.seq # mailbox'[j].seq
    BY <1>10
  <2>1. worker'.seq \in Numbers /\ Apart(mailbox'[j].seq, worker'.seq) # 0
    BY <1>1, <1>6, <1>7, <1>16
  <2> QED BY <1>8, <2>1, ApartFacts
<1>12. mailbox'[j].payload = client[j].live
  <2>1. mailbox'[j].payload.first = client[j].live.first
    BY <1>16 DEF Told, Asks
  <2>2. \A p, q \in Payloads : p.first = q.first /\ p.second = q.second => p = q
    BY DEF Payloads
  <2> QED BY <1>1, <1>16, <2>1, <2>2
<1>13. Numbered(j)'
  <2>1. /\ client'[j].seq = mailbox'[j].seq /\ table'[j].ack = mailbox'[j].ack
        /\ mailbox'[j].writable = table'[j].ready /\ table'[j].ready
    BY <1>2, <1>16 DEF Told, Numbered
  <2>2. Apart(mailbox[j].seq, mailbox[j].ack)' <= runs' + 1
    BY <1>1, <1>4, <1>5, <1>6, <1>7
  <2>3. Busy(j)' => Apart(mailbox[j].seq, worker.seq)' < Apart(mailbox[j].seq, mailbox[j].ack)'
    BY <1>4, <1>5, <1>6, <1>7, <1>10
  <2> QED BY <1>2, <2>1, <2>2, <2>3 DEF Numbered
<1>14. Asks(j)' /\ Answers(j)' /\ Rests(j)'
  BY <1>2, <1>9, <1>11, <1>12 DEF Asks, Answers, Rests, Confirmed
<1>15. Wiped(j)'
  <2>1. Clean(j, mailbox[j].payload)' /\ Clean(j, client[j].live)'
    BY <1>2, <1>12 DEF Told, Wiped, Clean
  <2>2. BothClean(j)' <=> BothClean(j)
    BY <1>2, <1>16 DEF BothClean, Clean
  <2>3. FirstDone(j) => FirstDone(j)'
    BY <1>2, <1>3, <1>9, <1>10, <1>16, <2>1, <2>2 DEF FirstDone, Clean, On
  <2> QED BY <1>2, <1>16, <2>1, <2>2, <2>3 DEF Told, Wiped
<1> QED BY <1>13, <1>14, <1>15 DEF Told

LEMMA PollEffect ==
  ASSUME TypeInv, NEW j \in Journals, Poll(j)
  PROVE  /\ UNCHANGED journalVars /\ newest' = newest
         /\ client[j].pending /\ mailbox[j].ack = client[j].seq
         /\ ~client'[j].staging /\ ~client'[j].pending /\ ~client'[j].resetting
         /\ client'[j].seq = client[j].seq /\ client'[j].live = client[j].live
         /\ client'[j].wiped = client[j].wiped /\ (client'[j].backend => client[j].backend)
         /\ mailbox[j].failed => client'[j].error /\ client'[j].remaining = client[j].remaining
         /\ ~mailbox[j].failed =>
              /\ client'[j].remaining = client[j].remaining
                   \/ /\ client[j].resetting /\ client[j].remaining # 0
                      /\ client'[j].remaining = client[j].remaining - 1
              /\ client[j].dirty => client'[j].dirty
<1>1. client \in [Journals -> Clients] /\ client[j] \in Clients
  BY DEF TypeInv, TypeOK, ClientsTypeOK
<1>2. client'[j] = Outcome(j) /\ ~client[j].staging
  BY <1>1 DEF Poll
<1>3. CASE mailbox[j].failed
  <2>1. client'[j] = Failed(j)
    BY <1>2, <1>3 DEF Outcome
  <2> QED BY <1>1, <1>2, <1>3, <2>1 DEF Poll, Failed, Settled, Clients
<1>4. CASE ~mailbox[j].failed
  <2>1. client'[j] = Succeeded(j)
    BY <1>2, <1>4 DEF Outcome
  <2> QED BY <1>1, <1>2, <1>4, <2>1 DEF Poll, Succeeded, Settled, Counts, Left, Clients
<1> QED BY <1>3, <1>4

LEMMA PollTold ==
  ASSUME TypeInv, NEW j \in Journals, Told(j), Poll(j), runs' = runs
  PROVE  Told(j)'
<1>1. /\ client[j] \in Clients /\ mailbox[j] \in Boxes /\ Versions \subseteq Nat /\ worker \in Workers
      /\ client[j].wiped \in Nat /\ client[j].remaining \in 0 .. 2 /\ runs \in Nat
      /\ mailbox[j].seq \in Numbers /\ mailbox[j].ack \in Numbers /\ worker.seq \in Numbers
  BY JournalTypes DEF Clients, Boxes, Workers
<1>2. UNCHANGED <<mailbox, files, table, worker>> /\ newest' = newest
  BY PollEffect DEF journalVars
<1>3. mailbox[j].seq = mailbox[j].ack /\ Apart(mailbox[j].seq, mailbox[j].ack) = 0 /\ ~Busy(j)
  <2>1. mailbox[j].seq = mailbox[j].ack
    BY PollEffect DEF Told, Numbered
  <2>2. Apart(mailbox[j].seq, mailbox[j].ack) = 0 /\ Apart(mailbox[j].seq, worker.seq) \in Nat
    BY <1>1, <2>1, JournalsAssumption, ApartFacts
  <2> QED BY <2>1, <2>2 DEF Told, Numbered
<1>4. Stored(j)' = Stored(j) /\ Kept(j)' = Kept(j)
  BY <1>2 DEF Stored, Kept
<1>5. Numbered(j)'
  BY <1>1, <1>2, <1>3, PollEffect DEF Told, Numbered, Busy
<1>6. Asks(j)' /\ Answers(j)'
  BY PollEffect DEF Asks, Answers
<1>7. ~mailbox[j].failed => Holds(j)
  BY <1>3, PollEffect DEF Told, Answers
<1>8. Rests(j)'
  BY <1>2, <1>3, <1>4, <1>7, PollEffect DEF Told, Asks, Rests, Confirmed, Holds
<1>9. BothClean(j)' <=> BothClean(j)
  BY <1>2, PollEffect DEF BothClean, Clean
<1>10. FirstDone(j) => FirstDone(j)'
  BY <1>2, <1>3, <1>4, <1>9, PollEffect DEF FirstDone, Clean, Busy
<1>11. Wiped(j)'
  <2>1. client'[j].wiped <= newest' /\ Clean(j, client[j].live)' /\ ~client'[j].resetting
    BY <1>2, PollEffect DEF Told, Wiped, Clean
  <2>2. CASE client'[j].remaining = client[j].remaining
    BY <1>9, <1>10, <2>1, <2>2 DEF Told, Wiped
  <2>3. CASE /\ ~mailbox[j].failed /\ client[j].resetting /\ client[j].remaining # 0
             /\ client'[j].remaining = client[j].remaining - 1
    <3>1. CASE client[j].remaining = 2
      <4>1. Clean(j, mailbox[j].payload) /\ Clean(j, Kept(j))
        BY <1>7, <2>3 DEF Told, Wiped, Holds
      <4>2. Clean(j, mailbox[j].payload)' /\ Clean(j, Kept(j))'
        BY <1>2, <1>4, <4>1, PollEffect DEF Clean
      <4>3. FirstDone(j)'
        BY <1>2, <1>3, <4>2, PollEffect DEF FirstDone, Busy
      <4> QED BY <2>1, <2>3, <3>1, <4>3 DEF Wiped
    <3>2. CASE client[j].remaining = 1
      <4>1. FirstDone(j)
        BY <3>2 DEF Told, Wiped
      <4>2. BothClean(j)
        BY <1>3, <2>3, <4>1, PollEffect DEF FirstDone
      <4> QED BY <1>9, <1>10, <2>1, <2>3, <3>2, <4>1, <4>2 DEF Wiped
    <3> QED BY <1>1, <2>3, <3>1, <3>2
  <2> QED BY <2>2, <2>3, PollEffect
<1> QED BY <1>5, <1>6, <1>8, <1>11 DEF Told

LEMMA UpdateTold ==
  ASSUME MaxRuns + 1 < Span, TypeInv, NEW j \in Journals, Told(j), NEW k \in Journals, Update(k),
         runs' = runs
  PROVE  Told(j)'
<1>1. CASE j # k
  <2>1. /\ client \in [Journals -> Clients] /\ mailbox \in [Journals -> Boxes]
        /\ newest \in Nat /\ client[j].wiped \in Nat
    BY JournalTypes DEF TypeInv, TypeOK, ClientsTypeOK, JournalsTypeOK, Clients
  <2>2. /\ client'[j] = client[j] /\ mailbox'[j] = mailbox[j]
        /\ UNCHANGED <<files, table, worker, newest>>
    BY <1>1, <2>1 DEF Update, Stage, Ring, Poll, journalVars
  <2> QED BY <2>1, <2>2, Untouched
<1>2. CASE j = k
  BY <1>2, StageTold, RingTold, PollTold DEF Update
<1> QED BY <1>1, <1>2

LEMMA BusyFacts ==
  ASSUME TypeInv, NEW j \in Journals, Told(j), Busy(j)
  PROVE  /\ mailbox[j].seq # mailbox[j].ack /\ table[j].ready /\ ~Confirmed(j)
         /\ worker.journal = j /\ worker.stage # "IDLE"
<1>1. mailbox[j].seq \in Numbers /\ mailbox[j].ack \in Numbers /\ worker.seq \in Numbers
  BY JournalTypes DEF Boxes, Workers
<1>2. /\ Apart(mailbox[j].seq, worker.seq) \in 0 .. Span - 1
      /\ Apart(mailbox[j].seq, mailbox[j].ack) \in 0 .. Span - 1
      /\ Apart(mailbox[j].seq, worker.seq) < Apart(mailbox[j].seq, mailbox[j].ack)
  BY <1>1, ApartFacts DEF Told, Numbered
<1>3. Apart(mailbox[j].seq, mailbox[j].ack) # 0
  BY <1>2, JournalsAssumption
<1>4. mailbox[j].seq # mailbox[j].ack
  BY <1>1, <1>3, ApartFacts
<1>5. worker.journal = j /\ worker.stage # "IDLE" /\ table[j].ready
  BY DEF Busy, TypeInv, BusyReady
<1> QED BY <1>4, <1>5 DEF Told, Rests

LEMMA KernelElsewhere ==
  ASSUME TypeInv, KernelNext, NEW j \in Journals, ~Busy(j), ~Take(j)
  PROVE  /\ mailbox'[j] = mailbox[j] /\ table'[j] = table[j] /\ files'[j] = files[j] /\ ~Busy(j)'
<1>1. /\ mailbox \in [Journals -> Boxes] /\ table \in [Journals -> Tables] /\ worker \in Workers
      /\ files \in [Journals -> [0 .. 1 -> Files]] /\ worker.journal \in Journals
  BY DEF TypeInv, TypeOK, JournalsTypeOK, Workers
<1>2. ASSUME NEW k \in Journals, Take(k)
      PROVE  mailbox' = mailbox /\ table' = table /\ files' = files /\ ~Busy(j)'
  <2>1. k # j /\ worker'.journal = k
    BY <1>1, <1>2 DEF Take, Workers
  <2> QED BY <1>2, <2>1 DEF Take, Busy
<1>3. CASE CopyFirst \/ CopySecond \/ Open \/ Write \/ Answer
  <2>1. worker.stage # "IDLE"
    BY <1>3 DEF CopyFirst, CopySecond, Open, Write, Answer, On
  <2>2. worker.journal # j
    BY <2>1 DEF Busy
  <2>3. worker'.journal = worker.journal
    BY <1>1, <1>3 DEF CopyFirst, CopySecond, Open, Write, Answer, Fail, To, InitWorker, Workers
  <2>4. Truncated[j] = files[j] /\ Written[j] = files[j]
    BY <1>1, <2>2 DEF Truncated, Written
  <2>5. files'[j] = files[j]
    BY <1>3, <2>4 DEF CopyFirst, CopySecond, Open, Write, Answer
  <2>6. mailbox'[j] = mailbox[j] /\ table'[j] = table[j]
    BY <1>1, <1>3, <2>2 DEF CopyFirst, CopySecond, Open, Write, Answer, Fail
  <2> QED BY <2>2, <2>3, <2>5, <2>6 DEF Busy
<1> QED BY <1>2, <1>3 DEF KernelNext

LEMMA TakeTold ==
  ASSUME TypeInv, NEW j \in Journals, Told(j), Take(j), UNCHANGED <<clientVars, runs>>
  PROVE  Told(j)'
<1>1. /\ UNCHANGED <<mailbox, files, table, client, newest>> /\ worker \in Workers
      /\ mailbox[j].seq \in Numbers /\ mailbox[j].ack \in Numbers
  BY JournalTypes DEF Take, clientVars, Boxes
<1>2. worker'.stage = "FIRST" /\ worker'.seq = mailbox[j].seq /\ mailbox[j].seq # table[j].ack
  BY <1>1 DEF Take, SavePending, Workers
<1>3. Stored(j)' = Stored(j) /\ Kept(j)' = Kept(j)
  BY <1>1 DEF Stored, Kept
<1>4. Numbered(j)'
  <2>1. Apart(mailbox[j].seq, worker.seq)' < Apart(mailbox[j].seq, mailbox[j].ack)'
    <3>1. Apart(mailbox[j].seq, mailbox[j].seq) = 0 /\ Apart(mailbox[j].seq, mailbox[j].ack) # 0
          /\ Apart(mailbox[j].seq, mailbox[j].ack) \in 0 .. Span - 1
      BY <1>1, <1>2, ApartFacts DEF Told, Numbered
    <3>2. 0 < Apart(mailbox[j].seq, mailbox[j].ack)
      BY <3>1, JournalsAssumption
    <3> QED BY <1>1, <1>2, <3>1, <3>2
  <2> QED BY <1>1, <2>1 DEF Told, Numbered
<1>5. Asks(j)' /\ Answers(j)' /\ Rests(j)'
  BY <1>1, <1>2, <1>3 DEF Told, Asks, Answers, Rests, Copied, Holds, Confirmed, On
<1>6. BothClean(j)' <=> BothClean(j)
  BY <1>1 DEF BothClean, Clean
<1>7. FirstDone(j) => FirstDone(j)'
  BY <1>1, <1>2, <1>3, <1>6 DEF FirstDone, Clean, On
<1>8. Wiped(j)'
  BY <1>1, <1>6, <1>7 DEF Told, Wiped, Clean
<1> QED BY <1>4, <1>5, <1>8 DEF Told

LEMMA CopyTold ==
  ASSUME TypeInv, NEW j \in Journals, Told(j), Busy(j), CopyFirst \/ CopySecond,
         UNCHANGED <<clientVars, runs>>
  PROVE  Told(j)'
<1>1. /\ UNCHANGED <<mailbox, files, table, client, newest, runs>> /\ worker \in Workers
      /\ worker.payload \in Payloads /\ mailbox[j].payload \in Payloads /\ worker.journal = j
  BY JournalTypes, BusyFacts DEF CopyFirst, CopySecond, clientVars, Boxes, Workers
<1>2. worker'.journal = j /\ worker'.seq = worker.seq
  BY <1>1 DEF CopyFirst, CopySecond, Workers
<1>3. \/ /\ worker'.stage = "SECOND" /\ worker'.payload.first = mailbox[j].payload.first
      \/ /\ worker.stage = "SECOND" /\ worker'.stage = "OPEN" /\ worker'.payload \in Payloads
         /\ worker'.payload.first = worker.payload.first
         /\ worker'.payload.second = mailbox[j].payload.second
  <2>1. PICK first \in Versions, second \in Versions :
          first = mailbox[j].payload.first /\ second = mailbox[j].payload.second
    BY <1>1 DEF Payloads
  <2>2. CASE CopyFirst
    <3>1. worker' = [worker EXCEPT !.stage = "SECOND", !.payload.first = first]
      BY <1>1, <2>1, <2>2 DEF CopyFirst
    <3> QED BY <1>1, <2>1, <3>1 DEF Workers, Payloads
  <2>3. CASE CopySecond
    <3>1. worker' = [worker EXCEPT !.stage = "OPEN", !.payload.second = second]
      BY <1>1, <2>1, <2>3 DEF CopySecond
    <3>2. worker.stage = "SECOND" /\ worker'.stage = "OPEN"
      BY <1>1, <2>3, <3>1 DEF CopySecond, On, Workers
    <3>3. worker'.payload = [worker.payload EXCEPT !.second = second]
      BY <1>1, <3>1 DEF Workers
    <3> QED BY <1>1, <2>1, <3>2, <3>3 DEF Payloads
  <2> QED BY <2>2, <2>3
<1>4. Stored(j)' = Stored(j) /\ Kept(j)' = Kept(j) /\ Busy(j)'
  BY <1>1, <1>2, <1>3 DEF Stored, Kept, Busy
<1>5. Numbered(j)' /\ Asks(j)' /\ Rests(j)'
  BY <1>1, <1>2, <1>4 DEF Told, Numbered, Asks, Rests, Confirmed
<1>6. Answers(j)'
  <2>1. ASSUME client[j].pending, worker.seq = mailbox[j].seq PROVE Copied(j)'
    <3>1. worker.stage = "SECOND" => worker.payload.first = mailbox[j].payload.first
      BY <2>1 DEF Told, Answers, Copied, On
    <3>2. \A p, q \in Payloads : p.first = q.first /\ p.second = q.second => p = q
      BY DEF Payloads
    <3> QED BY <1>1, <1>3, <3>1, <3>2 DEF Copied, On
  <2> QED BY <1>1, <1>2, <1>4, <2>1 DEF Told, Answers, Holds
<1>7. BothClean(j)' <=> BothClean(j)
  BY <1>1 DEF BothClean, Clean
<1>8. FirstDone(j) => FirstDone(j)'
  BY <1>1, <1>3, <1>4, <1>7 DEF FirstDone, Clean, On, Busy
<1>9. Wiped(j)'
  BY <1>1, <1>7, <1>8 DEF Told, Wiped, Clean
<1> QED BY <1>5, <1>6, <1>9 DEF Told

\* What a write makes of the card, for the journal that is served.
LEMMA CardEffect ==
  ASSUME ImplInv, NEW j \in Journals, worker.journal = j, worker.stage # "IDLE",
         NEW cards, cards \in {files, Truncated, Written}, files' = cards
  PROVE  /\ \A i \in 0 .. 1 : \/ files'[j][i] = files[j][i]
                              \/ files'[j][i] = Bad
                              \/ i = Target(j) /\ cards = Written /\ files'[j][i].payload = worker.payload
         /\ table'[j] = table[j] => Kept(j)' = Kept(j)
<1>1. /\ TypeInv /\ TypeOK /\ worker.payload \in Payloads /\ table[j].ready
      /\ NextGeneration(j) \in Numbers
  <2>1. TypeInv /\ table[j] \in Tables /\ worker \in Workers /\ table[j].ready
    BY JournalTypes DEF ImplInv, TypeInv, BusyReady
  <2> QED BY <2>1, NextNumbers DEF TypeInv, Tables, Workers, NextGeneration
<1>2. ASSUME NEW i \in 0 .. 1
      PROVE  \/ files'[j][i] = files[j][i]
             \/ files'[j][i] = Bad
             \/ i = Target(j) /\ cards = Written /\ files'[j][i].payload = worker.payload
  <2>1. CASE cards = files
    BY <2>1
  <2>2. CASE cards = Truncated
    BY <1>1, <2>2, FileSteps
  <2>3. CASE cards = Written
    <3>1. Good(NextGeneration(j), worker.payload).payload = worker.payload
      BY <1>1, GoodType
    <3> QED BY <1>1, <2>3, <3>1, FileSteps
  <2> QED BY <2>1, <2>2, <2>3
<1>3. table'[j] = table[j] => Kept(j)' = Kept(j)
  BY <1>1, ServedCard DEF Kept
<1> QED BY <1>2, <1>3

LEMMA OpenTold ==
  ASSUME ImplInv, NEW j \in Journals, Told(j), Busy(j), Open \/ (Write /\ worker'.failed),
         UNCHANGED <<clientVars, runs>>
  PROVE  Told(j)'
<1>1. TypeInv /\ worker.journal = j /\ worker.stage # "IDLE" /\ client[j] \in Clients
      /\ mailbox[j].seq # mailbox[j].ack /\ table[j].ready /\ ~Confirmed(j) /\ worker \in Workers
  BY BusyFacts, JournalTypes DEF ImplInv
<1>2. /\ UNCHANGED <<mailbox, table, client, newest, runs>> /\ files' \in {files, Truncated, Written}
      /\ worker'.journal = j /\ worker'.seq = worker.seq /\ worker'.payload = worker.payload
      /\ \/ worker.stage = "OPEN" /\ worker'.stage = "WRITE"
         \/ /\ worker.stage \in {"OPEN", "WRITE"} /\ worker'.stage = "ANSWER" /\ worker'.failed
  <2>1. CASE Open
    BY <1>1, <2>1 DEF Open, Fail, To, On, Workers, clientVars
  <2>2. CASE Write /\ worker'.failed
    BY <1>1, <2>2 DEF Write, Fail, On, Workers, clientVars
  <2> QED BY <2>1, <2>2
<1>3. Kept(j)' = Kept(j) /\ Busy(j)'
  BY <1>1, <1>2, CardEffect DEF Busy
<1>4. Numbered(j)' /\ Asks(j)' /\ Rests(j)'
  BY <1>1, <1>2, <1>3 DEF Told, Numbered, Asks, Rests, Confirmed
<1>5. Answers(j)'
  BY <1>1, <1>2, <1>3 DEF Told, Answers, Copied, On
<1>6. FirstDone(j) => Clean(j, worker.payload)
  BY <1>2 DEF FirstDone, On
<1>7. BothClean(j) /\ FirstDone(j) => BothClean(j)'
  <2> SUFFICES ASSUME BothClean(j), FirstDone(j), NEW i \in 0 .. 1, IsGood(files'[j][i])
               PROVE  Clean(j, files'[j][i].payload)
    BY <1>2 DEF BothClean, Clean
  <2>1. \/ files'[j][i] = files[j][i] \/ files'[j][i] = Bad \/ files'[j][i].payload = worker.payload
    BY <1>1, <1>2, CardEffect
  <2> QED BY <1>6, <2>1, DataTypes DEF BothClean
<1>8. FirstDone(j) => FirstDone(j)'
  BY <1>1, <1>2, <1>3, <1>6 DEF FirstDone, Clean, On
<1>9. Wiped(j)'
  BY <1>1, <1>2, <1>7, <1>8 DEF Told, Wiped, Clean, Clients
<1> QED BY <1>4, <1>5, <1>9 DEF Told

LEMMA WriteTold ==
  ASSUME ImplInv, NEW j \in Journals, Told(j), Busy(j), Write, ~worker'.failed,
         UNCHANGED <<clientVars, runs>>
  PROVE  Told(j)'
<1>1. TypeInv /\ worker.journal = j /\ worker.stage = "WRITE" /\ client[j] \in Clients
      /\ mailbox[j].seq # mailbox[j].ack /\ table[j].ready /\ ~Confirmed(j) /\ worker \in Workers
      /\ table[j] \in Tables /\ table \in [Journals -> Tables]
  BY BusyFacts, JournalTypes DEF ImplInv, Write, On, TypeInv, TypeOK, JournalsTypeOK
<1>2. /\ UNCHANGED <<mailbox, client, newest, runs>> /\ files' = Written
      /\ worker'.journal = j /\ worker'.seq = worker.seq /\ worker'.payload = worker.payload
      /\ worker'.stage = "ANSWER"
      /\ table' = [table EXCEPT ![j].generation = NextGeneration(j), ![j].active = Target(j)]
  BY <1>1 DEF Write, Fail, Workers, clientVars
<1>3. /\ table'[j].ready = table[j].ready /\ table'[j].ack = table[j].ack
      /\ table'[j].active = Target(j)
  BY <1>1, <1>2 DEF Tables
<1>4. Stored(j)' = worker.payload /\ Kept(j)' = worker.payload /\ Busy(j)'
  BY <1>1, <1>2, <1>3, ServedCard DEF Stored, Kept, Busy
<1>5. Numbered(j)' /\ Asks(j)' /\ Rests(j)'
  BY <1>1, <1>2, <1>3, <1>4 DEF Told, Numbered, Asks, Rests, Confirmed
<1>6. Answers(j)'
  BY <1>1, <1>2, <1>4 DEF Told, Answers, Copied, Holds, On
<1>7. FirstDone(j) => Clean(j, worker.payload)
  BY <1>1 DEF FirstDone, On
\* The other file is the one that counted before, or is not good.
<1>8. FirstDone(j) => BothClean(j)'
  <2> SUFFICES ASSUME FirstDone(j), NEW i \in 0 .. 1, IsGood(files'[j][i])
               PROVE  Clean(j, files'[j][i].payload)
    BY <1>2 DEF BothClean, Clean
  <2>1. CASE i = Target(j)
    <3>1. \/ files'[j][i] = files[j][i] \/ files'[j][i] = Bad \/ files'[j][i].payload = worker.payload
      BY <1>1, <1>2, CardEffect
    <3>2. files'[j][i] = Good(NextGeneration(j), worker.payload)
      BY <1>1, <1>2, <2>1 DEF Written, TypeInv, TypeOK, JournalsTypeOK
    <3>3. files'[j][i].payload = worker.payload
      BY <3>2 DEF Good
    <3> QED BY <1>7, <3>3
  <2>2. CASE i # Target(j)
    <3>1. files'[j][i] = files[j][i]
      BY <1>1, <1>2, <2>2, FileSteps DEF TypeInv
    <3>2. table[j].active \in {-1, 0, 1} /\ (table[j].active = -1 => i = 1)
          /\ (table[j].active # -1 => i = table[j].active)
      BY <1>1, <2>2 DEF Target, Tables
    <3>3. table[j].active # -1
      BY <1>1, <3>1, <3>2 DEF ImplInv, Shape
    <3>4. Kept(j) = files[j][i].payload
      BY <1>1, <3>2, <3>3 DEF Kept, At
    <3> QED BY <1>1, <3>1, <3>3, <3>4 DEF FirstDone
  <2> QED BY <2>1, <2>2
<1>9. FirstDone(j) => FirstDone(j)'
  BY <1>1, <1>2, <1>4, <1>7, <1>8 DEF FirstDone, Clean, On
<1>10. Wiped(j)'
  BY <1>1, <1>2, <1>8, <1>9 DEF Told, Wiped, Clean, Clients
<1> QED BY <1>5, <1>6, <1>10 DEF Told

LEMMA AnswerTold ==
  ASSUME ImplInv, NEW j \in Journals, Told(j), Busy(j), Answer, UNCHANGED <<clientVars, runs>>
  PROVE  Told(j)'
<1>1. /\ TypeInv /\ worker.journal = j /\ worker.stage = "ANSWER" /\ client[j] \in Clients
      /\ mailbox[j].seq # mailbox[j].ack /\ table[j].ready /\ ~Confirmed(j) /\ worker \in Workers
      /\ mailbox[j] \in Boxes /\ mailbox \in [Journals -> Boxes]
      /\ table[j] \in Tables /\ table \in [Journals -> Tables]
      /\ mailbox[j].seq \in Numbers /\ mailbox[j].ack \in Numbers /\ worker.seq \in Numbers
  BY BusyFacts, JournalTypes DEF ImplInv, Answer, On, TypeInv, TypeOK, JournalsTypeOK, Boxes, Workers
<1>2. /\ UNCHANGED <<files, client, newest, runs>> /\ worker'.stage = "IDLE"
      /\ mailbox' = [mailbox EXCEPT ![j].ack = worker.seq, ![j].failed = worker.failed]
      /\ table' = [table EXCEPT ![j].ack = worker.seq]
  BY <1>1 DEF Answer, InitWorker, clientVars
<1>3. /\ mailbox'[j].payload = mailbox[j].payload /\ mailbox'[j].seq = mailbox[j].seq
      /\ mailbox'[j].writable = mailbox[j].writable
      /\ mailbox'[j].ack = worker.seq /\ mailbox'[j].failed = worker.failed
      /\ table'[j].ack = worker.seq /\ table'[j].ready = table[j].ready
      /\ table'[j].active = table[j].active
  BY <1>1, <1>2 DEF Boxes, Tables
<1>4. Stored(j)' = Stored(j) /\ Kept(j)' = Kept(j) /\ ~Busy(j)'
  BY <1>2, <1>3 DEF Stored, Kept, Busy
<1>5. Numbered(j)'
  <2>1. /\ Apart(mailbox[j].seq, worker.seq) \in 0 .. Span - 1
        /\ Apart(mailbox[j].seq, mailbox[j].ack) \in 0 .. Span - 1
    BY <1>1, ApartFacts
  <2>2. Apart(mailbox[j].seq, worker.seq) <= runs + IF client[j].pending THEN 1 ELSE 0
    BY <2>1, JournalsAssumption, JournalTypes, <1>1 DEF Told, Numbered
  <2>3. Apart(mailbox[j].seq, mailbox[j].ack)' <= runs' + IF client'[j].pending THEN 1 ELSE 0
    BY <1>2, <1>3, <2>2
  <2> QED BY <1>2, <1>3, <1>4, <2>3 DEF Told, Numbered
<1>6. Asks(j)' /\ Rests(j)'
  BY <1>1, <1>2, <1>3, <1>4 DEF Told, Asks, Rests, Confirmed
<1>7. Answers(j)'
  BY <1>1, <1>2, <1>3, <1>4 DEF Told, Answers, Copied, Holds, On
<1>8. BothClean(j)' <=> BothClean(j)
  BY <1>2 DEF BothClean, Clean
<1>9. FirstDone(j) => FirstDone(j)'
  BY <1>1, <1>2, <1>3, <1>4, <1>8 DEF FirstDone, Clean, On
<1>10. Wiped(j)'
  BY <1>2, <1>3, <1>8, <1>9 DEF Told, Wiped, Clean
<1> QED BY <1>5, <1>6, <1>7, <1>10 DEF Told

LEMMA KernelTold ==
  ASSUME ImplInv, NEW j \in Journals, Told(j), Kernel
  PROVE  Told(j)'
<1>1. TypeInv /\ KernelNext /\ UNCHANGED <<clientVars, runs>> /\ newest' = newest /\ client' = client
      /\ newest \in Nat /\ client[j].wiped \in Nat
  BY JournalTypes DEF ImplInv, Kernel, clientVars, Clients
<1>2. CASE Take(j)
  BY <1>1, <1>2, TakeTold
<1>3. CASE ~Take(j) /\ ~Busy(j)
  BY <1>1, <1>3, KernelElsewhere, Untouched
<1>4. CASE Busy(j)
  <2>1. CASE \E k \in Journals : Take(k)
    BY <1>4, <2>1 DEF Take, On, Busy
  <2> QED BY <1>1, <1>4, <2>1, CopyTold, OpenTold, WriteTold, AnswerTold DEF KernelNext
<1> QED BY <1>2, <1>3, <1>4

\* A process that has reset no records has none to keep out.
LEMMA NothingWiped ==
  ASSUME TypeInv, NEW j \in Journals, client[j].wiped = 0
  PROVE  Wiped(j)
<1>1. /\ client[j].live \in Payloads /\ mailbox[j].payload \in Payloads /\ worker.payload \in Payloads
      /\ files[j] \in [0 .. 1 -> Files] /\ newest \in Nat /\ Versions \subseteq Nat
      /\ table[j] \in Tables
  BY JournalTypes DEF Clients, Boxes, Workers
<1>2. \A p \in Payloads : Clean(j, p) /\ p.first >= client[j].wiped
  <2> SUFFICES ASSUME NEW p \in Payloads PROVE Clean(j, p) /\ p.first >= client[j].wiped
    OBVIOUS
  <2>1. p.first \in Nat /\ p.second \in Nat
    BY <1>1 DEF Payloads
  <2>2. p.first >= 0 /\ p.second >= 0
    BY <2>1
  <2> QED BY <2>2 DEF Clean
<1>3. Kept(j) \in Payloads
  <2>1. Stored(j) \in Payloads
    BY <1>1, ChosenFacts DEF Stored
  <2>2. At(files[j], table[j].active) \in Payloads
    BY <1>1, DataTypes DEF At, Tables, Files
  <2> QED BY <2>1, <2>2 DEF Kept
<1>4. BothClean(j)
  BY <1>1, <1>2 DEF BothClean, Files
<1>5. FirstDone(j)
  BY <1>1, <1>2, <1>3, <1>4 DEF FirstDone
<1> QED BY <1>1, <1>2, <1>4, <1>5 DEF Wiped

\* A boot, and the process that adopts what it found.
Booted(j) ==
  /\ \E unread \in SUBSET (0 .. 1) :
       mailbox[j] = InitBox(j, files[j], unread) /\ table[j] = InitTable(j, files[j], unread)
  /\ client[j] = Adopted(mailbox[j], FALSE)
  /\ worker.stage = "IDLE"

LEMMA BootTold ==
  ASSUME TypeInv, NEW j \in Journals, Booted(j)
  PROVE  Told(j)
<1>1. PICK unread \in SUBSET (0 .. 1) :
        mailbox[j] = InitBox(j, files[j], unread) /\ table[j] = InitTable(j, files[j], unread)
  BY DEF Booted
<1>2. /\ client[j] = Adopted(mailbox[j], FALSE) /\ ~Busy(j) /\ runs \in Nat /\ files[j] \in [0 .. 1 -> Files]
  BY JournalTypes DEF Booted, Busy
<1>3. /\ mailbox[j].seq = 0 /\ mailbox[j].ack = 0 /\ table[j].ack = 0
      /\ mailbox[j].writable = table[j].ready
      /\ mailbox[j].payload = At(files[j], Chosen(Seen(files[j], unread)))
  BY <1>1 DEF InitBox, InitTable
<1>4. /\ client[j].seq = 0 /\ ~client[j].staging /\ ~client[j].pending
      /\ client[j].backend = mailbox[j].writable /\ client[j].live = mailbox[j].payload
      /\ client[j].wiped = 0
  BY <1>2, <1>3 DEF Adopted
<1>5. Numbered(j)
  <2>1. Apart(0, 0) = 0
    BY DataTypes, ApartFacts
  <2>2. Apart(mailbox[j].seq, mailbox[j].ack) <= runs + IF client[j].pending THEN 1 ELSE 0
    BY <1>2, <1>3, <1>4, <2>1
  <2>3. client[j].backend => table[j].ready
    BY <1>3, <1>4
  <2> QED BY <1>2, <1>3, <1>4, <2>2, <2>3 DEF Numbered
<1>6. Asks(j) /\ Answers(j)
  BY <1>4 DEF Asks, Answers
<1>7. table[j].ready => Stored(j) = mailbox[j].payload
  <2> SUFFICES ASSUME table[j].ready PROVE Stored(j) = mailbox[j].payload
    OBVIOUS
  <2>1. unread = {}
    <3>1. InitTable(j, files[j], unread).ready
      BY <1>1
    <3>2. Safe(j, files[j], unread)
      BY <3>1 DEF InitTable
    <3> QED BY <3>2 DEF Safe
  <2>2. Seen(files[j], unread) = files[j]
    BY <1>2, <2>1 DEF Seen
  <2> QED BY <1>3, <2>2 DEF Stored
<1>8. Rests(j)
  BY <1>3, <1>4, <1>7 DEF Rests
<1> QED BY <1>4, <1>5, <1>6, <1>8, NothingWiped DEF Told

LEMMA ResetTold ==
  ASSUME TypeInv, TypeInv', NEW j \in Journals, Told(j), Reset
  PROVE  Told(j)'
<1>1. /\ UNCHANGED <<mailbox, files, table, worker, newest>> /\ runs' = runs + 1 /\ runs \in Nat
      /\ mailbox[j].seq \in Numbers /\ mailbox[j].ack \in Numbers
  BY JournalTypes DEF Reset, journalVars, Boxes
<1>2. /\ client'[j].seq = mailbox[j].seq /\ ~client'[j].staging /\ ~client'[j].pending
      /\ client'[j].backend = mailbox[j].writable /\ client'[j].live = mailbox[j].payload
      /\ client'[j].wiped = 0
      /\ client'[j].orphan = (client[j].orphan \/ client[j].error \/ j \in Unanswered)
  BY DEF Reset, Adopted
<1>3. Stored(j)' = Stored(j)
  BY <1>1 DEF Stored
<1>4. Numbered(j)'
  <2>1. Apart(mailbox[j].seq, mailbox[j].ack) \in 0 .. Span - 1
    BY <1>1, ApartFacts
  <2>2. Apart(mailbox[j].seq, mailbox[j].ack) <= runs + 1
    BY <1>1, <2>1, JournalsAssumption DEF Told, Numbered
  <2> QED BY <1>1, <1>2, <2>2 DEF Told, Numbered, Busy
<1>5. Asks(j)' /\ Answers(j)'
  BY <1>2 DEF Asks, Answers
<1>6. Rests(j)'
  <2>1. Confirmed(j)' => Confirmed(j)
    BY <1>2 DEF Confirmed, Unanswered
  <2> QED BY <1>1, <1>2, <1>3, <2>1 DEF Told, Rests
<1>7. Wiped(j)'
  <2>1. (TypeInv /\ client[j].wiped = 0 => Wiped(j))'
    BY NothingWiped, PTL
  <2> QED BY <1>2, <2>1
<1> QED BY <1>4, <1>5, <1>6, <1>7 DEF Told

LEMMA RestartTold ==
  ASSUME TypeInv', NEW j \in Journals, Restart
  PROVE  Told(j)'
<1>1. PICK cards \in CutFiles : CfgInit(cards)
  BY DEF Restart
<1>2. \A k \in Journals, i \in 0 .. 1 : (IF j = k THEN {i} ELSE {}) \in SUBSET (0 .. 1)
  OBVIOUS
<1>3. \E unread \in SUBSET (0 .. 1) :
        mailbox'[j] = InitBox(j, cards[j], unread) /\ table'[j] = InitTable(j, cards[j], unread)
  BY <1>1, <1>2 DEF CfgInit
<1>4. Booted(j)'
  BY <1>1, <1>3 DEF Booted, CfgInit, InitWorker, Restart
<1>5. (TypeInv /\ Booted(j) => Told(j))'
  BY BootTold, PTL
<1> QED BY <1>4, <1>5

LEMMA InitTold == Init => ToldInv
<1> SUFFICES ASSUME Init, NEW j \in Journals PROVE Told(j)
  BY InitShape DEF ToldInv
<1>1. Booted(j)
  BY DEF Init, Booted, InitWorker
<1> QED BY <1>1, InitTypes, BootTold

LEMMA StepTold ==
  ASSUME MaxRuns + 1 < Span, ToldInv, [Next]_vars
  PROVE  ToldInv'
<1>1. ImplInv /\ ImplInv' /\ TypeInv /\ TypeInv'
  BY StepShape DEF ToldInv, ImplInv
<1>2. ASSUME NEW j \in Journals PROVE Told(j)'
  <2>1. Told(j)
    BY DEF ToldInv
  <2>2. CASE Game
    BY <1>1, <2>1, <2>2, EditTold, UpdateTold DEF Game
  <2>3. CASE Kernel
    BY <1>1, <2>1, <2>3, KernelTold
  <2>4. CASE Reset
    BY <1>1, <2>1, <2>4, ResetTold
  <2>5. CASE Restart
    BY <1>1, <2>5, RestartTold
  <2>6. CASE UNCHANGED vars
    <3>1. newest \in Nat /\ client[j].wiped \in Nat
      BY <1>1, JournalTypes DEF Clients
    <3> QED BY <2>1, <2>6, <3>1, Untouched DEF vars, journalVars, clientVars
  <2> QED BY <2>2, <2>3, <2>4, <2>5, <2>6 DEF Next
<1> QED BY <1>1, <1>2 DEF ToldInv

LEMMA ToldHolds ==
  ASSUME MaxRuns + 1 < Span
  PROVE  Spec => []ToldInv
<1>1. Init => ToldInv
  BY InitTold
<1>2. ToldInv /\ [Next]_vars => ToldInv'
  BY StepTold
<1> QED BY <1>1, <1>2, PTL DEF Spec

\* Whatever is shown without a message is what a restart finds, through failing
\* calls, unreadable files, resets and power cuts, as long as the game is reset
\* less often than there are numbers of requests.
THEOREM ShownIsSaved ==
  ASSUME MaxRuns + 1 < Span
  PROVE  Spec => []ShownSaved
<1>1. ToldInv => ShownSaved
  BY DEF ToldInv, Told, Numbered, Rests, Confirmed, ShownSaved
<1> QED BY <1>1, ToldHolds, PTL

\* Once the writes of a reset of the records are over, no good file holds
\* anything older, under the same condition.
THEOREM ResetLasts ==
  ASSUME MaxRuns + 1 < Span
  PROVE  Spec => []ResetSticks
<1>1. ToldInv => ResetSticks
  BY DEF ToldInv, Told, Wiped, BothClean, Clean, ResetSticks
<1> QED BY <1>1, ToldHolds, PTL
=============================================================================
