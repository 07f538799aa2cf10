---------------------------- MODULE JournalClients ----------------------------
(***************************************************************************)
(* The game's side of the journals: records_persistence.cpp, and the same  *)
(* protocol in iling.cpp, stage_targets.cpp and split_stats.cpp.  The      *)
(* delays before a save or a retry last as long as they like.              *)
(***************************************************************************)
EXTENDS BinaryJournals

VARIABLES
  client,   \* the statics of each journal's client
  newest,   \* the newest version any journal was given
  mixed     \* history: journals whose payload was replaced before it was answered

clientVars == <<client, newest, mixed>>

Clients == [staging : BOOLEAN, live : Payloads, seq : Numbers, pending : BOOLEAN,
            dirty : BOOLEAN, error : BOOLEAN, backend : BOOLEAN,
            remaining : 0 .. 2, resetting : BOOLEAN,
            wiped : Versions,     \* history: the version resetAll made, 0 after none or a restart
            orphan : BOOLEAN]     \* history: it took over a request that had not succeeded

ClientsTypeOK ==
  /\ client \in [Journals -> Clients]
  /\ newest \in Versions
  /\ mixed \subseteq Journals

\* init: the payload and the numbering are adopted, a pending request is not.
Adopted(box, orphan) ==
  [staging |-> FALSE, live |-> box.payload, seq |-> box.seq, pending |-> FALSE,
   dirty |-> FALSE, error |-> FALSE, backend |-> box.writable,
   remaining |-> 0, resetting |-> FALSE, wiped |-> 0, orphan |-> orphan]

Idle(j) == client[j].backend /\ ~client[j].staging

\* The records change, and are absorbed.
Edit(j) ==
  /\ Idle(j)
  /\ newest < MaxVersion /\ newest' = newest + 1
  /\ client' = [client EXCEPT ![j].live = AllOf(newest'), ![j].dirty = TRUE]
  /\ UNCHANGED <<journalVars, mixed>>

ResetOnce == 1   \* variant: one file is enough

\* Both files must be written after a reset.
ResetWrites == 2

\* resetAll: an older request that is still under way must not count.
ResetAll ==
  /\ "PROGRESS" \in Journals /\ Idle("PROGRESS")
  /\ newest < MaxVersion /\ newest' = newest + 1
  /\ client' = [client EXCEPT !["PROGRESS"].live = AllOf(newest'),
                              !["PROGRESS"].dirty = TRUE,
                              !["PROGRESS"].remaining = ResetWrites,
                              !["PROGRESS"].resetting = FALSE,
                              !["PROGRESS"].wiped = newest']
  /\ UNCHANGED <<journalVars, mixed>>

StageAnyTime(j) == Idle(j) /\ client[j].dirty   \* variant: an unanswered request does not hold it back

MayStage(j) == Idle(j) /\ client[j].dirty /\ ~client[j].pending

\* beginSave fills the payload ...
Stage(j) ==
  /\ MayStage(j)
  /\ mailbox' = [mailbox EXCEPT ![j].payload.first = client[j].live.first]
  /\ client' = [client EXCEPT ![j].staging = TRUE]
  /\ UNCHANGED <<files, table, worker, faults, newest, mixed>>

\* ... and rings with the next number.
Ring(j) ==
  /\ client[j].staging
  /\ LET seq == (client[j].seq + 1) % Span
     IN  /\ mailbox' = [mailbox EXCEPT ![j].payload.second = client[j].live.second, ![j].seq = seq]
         /\ client' = [client EXCEPT ![j].staging = FALSE, ![j].seq = seq, ![j].pending = TRUE,
                                     ![j].dirty = FALSE, ![j].error = FALSE,
                                     ![j].resetting = @ \/ client[j].remaining # 0]
  /\ UNCHANGED <<files, table, worker, faults, newest, mixed>>

Settled(j) == [client[j] EXCEPT !.pending = FALSE, !.resetting = FALSE]

GivesUp(j) == [Settled(j) EXCEPT !.error = TRUE]   \* variant: no journal tries again

\* A failed save is tried again; the targets give up until the next boot.
Failed(j) ==
  IF j = "TARGETS"
  THEN [Settled(j) EXCEPT !.error = TRUE, !.backend = FALSE, !.dirty = FALSE]
  ELSE [Settled(j) EXCEPT !.error = TRUE, !.dirty = TRUE]

\* A reset that needs another write makes the records dirty again.
Counts(j) == client[j].resetting /\ client[j].remaining # 0
Left(j) == IF Counts(j) THEN client[j].remaining - 1 ELSE client[j].remaining
Succeeded(j) ==
  [Settled(j) EXCEPT !.remaining = Left(j), !.orphan = FALSE,
                     !.dirty = client[j].dirty \/ (Counts(j) /\ Left(j) # 0)]

\* Variant: the status is not looked at.
OutcomeBlind(j) == Succeeded(j)

Outcome(j) == IF mailbox[j].failed THEN Failed(j) ELSE Succeeded(j)

\* pollSave: however long it takes, the same request is waited for.
Poll(j) ==
  /\ ~client[j].staging /\ client[j].pending
  /\ mailbox[j].ack = client[j].seq
  /\ client' = [client EXCEPT ![j] = Outcome(j)]
  /\ UNCHANGED <<journalVars, newest, mixed>>

Update(j) == Stage(j) \/ Ring(j) \/ Poll(j)
=============================================================================
