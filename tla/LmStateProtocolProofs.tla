------------------------- MODULE LmStateProtocolProofs -------------------------
(***************************************************************************)
(* The mailbox protocol, proved for any number of processes and requests   *)
(* and any width of the sequence number: however resets, power cuts and    *)
(* the two processors interleave, a process is only ever shown the answer  *)
(* to its own request, and the worker only writes its slot when asked to.  *)
(* The slot then stays whole: the game saves and clears it, the worker     *)
(* writes an import into it slice by slice, a reset changes hands in the   *)
(* middle of either, and still a process in service that is not waiting    *)
(* for an import has a slot that is whole or marked empty.                 *)
(***************************************************************************)
EXTENDS LmStateTypeProofs

ProtocolInv == TypeInv /\ Protocol

-----------------------------------------------------------------------------
(* What a step of the worker can do to the protocol: publish an answer,    *)
(* latch the request in the line, or go on serving the latched one.        *)

SameRequest(a) ==
  /\ a \in Arms /\ a.phase # "IDLE"
  /\ a.seq = arm.seq /\ a.session = arm.session
  /\ a.command = arm.command /\ a.requestId = arm.requestId

Serve ==
  /\ arm.phase \notin {"IDLE", "ACK"}
  /\ UNCHANGED response
  /\ SameRequest(arm')
  /\ arm'.phase = "ACK" => receipt' = [session |-> arm.session, command |-> arm.command,
                                      id |-> arm.requestId, seq |-> arm.seq]

\* Answering the request in the line is serving it.
LEMMA FinishServes ==
  ASSUME TypeOK, arm.phase \notin {"IDLE", "ACK"}, UNCHANGED response,
         NEW a, SameRequest(a), NEW s \in Statuses, Finish(a, s)
  PROVE  Serve
<1>1. SameRequest(arm')
  BY DEF SameRequest, Finish, Arms, InnerPhases
<1>2. receipt' = [session |-> arm.session, command |-> arm.command,
                  id |-> arm.requestId, seq |-> arm.seq]
  BY DEF SameRequest, Finish
<1> QED BY <1>1, <1>2 DEF Serve

\* So is working on it.
LEMMA ContinueServes ==
  ASSUME TypeOK, arm.phase \notin {"IDLE", "ACK"}, UNCHANGED response,
         NEW a, SameRequest(a), NEW p \in (ServicePhases \cup InnerPhases) \ {"ACK"},
         Continue(a, p)
  PROVE  Serve
<1>1. SameRequest(arm') /\ arm'.phase # "ACK"
  BY DEF SameRequest, Continue, Arms, ServicePhases, InnerPhases
<1> QED BY <1>1 DEF Serve

\* All the worker ever does is latch the request in the line, serve the one it
\* latched, or publish the acknowledgement.
LEMMA WorkerServes ==
  ASSUME TypeInv, StorageStep
  PROVE  PublishAck \/ Latch \/ Serve
<1> SUFFICES ASSUME ~PublishAck, ~Latch PROVE Serve
  OBVIOUS
<1> USE DEF TypeInv, Quiet
<1>1. arm \in Arms
  BY DEF TypeOK, StorageTypeOK
<1>2. arm.phase # "IDLE" => SameRequest(arm)
  BY <1>1 DEF SameRequest
<1>3. ASSUME arm.phase \notin {"IDLE", "ACK"}, UNCHANGED response,
             NEW s \in Statuses, Finish(arm, s)
      PROVE  Serve
  BY <1>2, <1>3, FinishServes
<1>4. ASSUME arm.phase \notin {"IDLE", "ACK"}, UNCHANGED response,
             NEW p \in {"OPEN", "HEADER", "TRANSFER", "CLOSE", "PUBLISH", "KEYCOPY0", "KEYCOPY1",
                       "DROPNAME0", "DROPNAME1", "WRITENAME", "PLACENAME"},
             Continue(arm, p)
      PROVE  Serve
  BY <1>2, <1>4, ContinueServes DEF ServicePhases, InnerPhases
<1>5. {"OK", "IO_ERROR", "NOT_FOUND", "BAD_FILE", "FULL", "CANCELLED", "KEY_ERROR"}
        \subseteq Statuses
  BY DEF Statuses
<1>6. CASE Cancel
  BY <1>3, <1>5, <1>6 DEF Cancel, ServicePhases
<1>7. CASE OpenKey
  BY <1>3, <1>4, <1>5, <1>7 DEF OpenKey, Working
<1>8. CASE WriteKeyCopy0
  BY <1>3, <1>4, <1>5, <1>8 DEF WriteKeyCopy0
<1>9. CASE WriteKeyCopy1
  BY <1>3, <1>5, <1>9 DEF WriteKeyCopy1
<1>10. CASE OpenCatalog
  <2>1. ASSUME arm' = [arm EXCEPT !.phase = "SCAN"]
        PROVE  SameRequest(arm') /\ arm'.phase # "ACK"
    BY <1>1, <2>1 DEF SameRequest, Arms, ServicePhases
  <2>2. arm.phase = "OPEN" /\ UNCHANGED response
    BY <1>10 DEF OpenCatalog, Working
  <2>3. CASE arm' = [arm EXCEPT !.phase = "SCAN"]
    BY <2>1, <2>2, <2>3 DEF Serve
  <2> QED BY <1>3, <1>5, <1>10, <2>2, <2>3 DEF OpenCatalog
<1>11. CASE ScanEntry
  <2>1. arm' = arm /\ arm.phase = "SCAN" /\ UNCHANGED response
    BY <1>11 DEF ScanEntry, Working
  <2> QED BY <1>2, <2>1 DEF Serve, SameRequest
<1>12. CASE EndScan
  BY <1>3, <1>5, <1>12 DEF EndScan, Working
<1>13. CASE DeleteArchive
  BY <1>3, <1>4, <1>5, <1>13, StatusTypes DEF DeleteArchive, Working
<1>14. \A stays \in BOOLEAN : Cleanup(stays) \in Statuses
  BY <1>1 DEF Cleanup, Arms, Statuses
<1>15. CASE DropName0
  <2>1. PICK stays \in BOOLEAN :
          /\ DropName(0, stays)
          /\ Continue([arm EXCEPT !.status = Cleanup(stays)], "DROPNAME1")
    BY <1>15 DEF DropName0
  <2>2. arm.phase = "DROPNAME0" /\ UNCHANGED response
    BY <1>15, <2>1 DEF DropName0, DropName
  <2>3. SameRequest([arm EXCEPT !.status = Cleanup(stays)])
    BY <1>1, <1>14, <2>2 DEF SameRequest, Arms
  <2> QED BY <2>1, <2>2, <2>3, ContinueServes DEF InnerPhases
<1>16. CASE DropName1
  BY <1>3, <1>14, <1>16 DEF DropName1, DropName
<1>17. CASE OpenRename
  BY <1>3, <1>4, <1>5, <1>17, StatusTypes DEF OpenRename, Working
<1>18. CASE RemoveOldName
  BY <1>3, <1>4, <1>18, StatusTypes DEF RemoveOldName
<1>19. CASE PlaceName
  BY <1>3, <1>5, <1>19, StatusTypes DEF PlaceName
<1>20. CASE OpenExport
  <2> DEFINE a == [arm EXCEPT !.fileId = arm.fileId + 1]
  <2>1. arm.phase = "OPEN" /\ UNCHANGED response
    BY <1>20 DEF OpenExport, Working
  <2>2. CASE Taken(arm.fileId) /\ (Finish(a, "FULL") \/ Continue(a, "OPEN"))
    <3>1. arm.fileId + 1 \in 0 .. MaxId + 1
      BY <1>20, BoundsAssumption DEF OpenExport, Working, WorkerShape, Ids
    <3>2. SameRequest(a)
      BY <1>1, <2>1, <3>1 DEF SameRequest, Arms
    <3> QED BY <1>5, <2>1, <2>2, <3>2, FinishServes, ContinueServes DEF ServicePhases
  <2> QED BY <1>3, <1>4, <1>5, <1>20, <2>1, <2>2 DEF OpenExport
<1>21. CASE OpenImport
  BY <1>3, <1>4, <1>5, <1>21 DEF OpenImport, Working
<1>22. CASE WriteHeader
  BY <1>3, <1>4, <1>5, <1>22 DEF WriteHeader, Working
<1>23. CASE ReadHeader
  BY <1>3, <1>4, <1>5, <1>23, StatusTypes DEF ReadHeader, Working
<1>24. CASE Transfer
  <2>1. arm.phase = "TRANSFER" /\ UNCHANGED response
    BY <1>24 DEF Transfer, Working
  <2>2. ASSUME NEW p \in {"CLOSE", "TRANSFER"}, Continue(Advanced, p)
        PROVE  Serve
    <3>1. NextSlice \in 0 .. MaxCell
      BY <1>1, <2>1, BoundsAssumption DEF WorkerShape, NextSlice, Arms
    <3>2. SameRequest(Advanced)
      BY <1>1, <2>1, <3>1 DEF SameRequest, Advanced, Arms
    <3> QED BY <2>1, <2>2, <3>2, ContinueServes DEF ServicePhases
  <2> QED BY <1>3, <1>5, <1>24, <2>1, <2>2 DEF Transfer
<1>25. CASE Close
  BY <1>3, <1>4, <1>5, <1>25 DEF Close, Working
<1>26. CASE PublishExport
  BY <1>3, <1>4, <1>5, <1>26 DEF PublishExport, Working
<1>27. CASE PublishImport
  BY <1>3, <1>5, <1>27 DEF PublishImport, Working
<1> QED
  BY <1>6, <1>7, <1>8, <1>9, <1>10, <1>11, <1>12, <1>13, <1>15, <1>16, <1>17, <1>18, <1>19,
     <1>20, <1>21, <1>22, <1>23, <1>24, <1>25, <1>26, <1>27
     DEF StorageStep

-----------------------------------------------------------------------------
(* What a step of the game can do to the protocol: claim the mailbox, end  *)
(* the wait for the slot, issue a request, read an answer, or nothing.     *)

Claim ==
  /\ ~ppc.initialized
  /\ request' = [request EXCEPT !.session = ppc.session]
  /\ ppc' = [ppc EXCEPT !.initialized = TRUE, !.seq = request.seq,
                        !.startup = response.ack # request.seq]

\* In service, with no request outstanding and none asked for.
InService(p) == /\ p \in Ppcs /\ p.slotInit /\ ~p.startup
                /\ p.initialized = ppc.initialized /\ p.session = ppc.session
                /\ p.seq = ppc.seq

MayIssue ==
  /\ ppc.initialized
  /\ ppc.slotInit => ppc.command = "NONE" /\ ~ppc.startup
  /\ StorageStartupReady

Issues == MayIssue /\ \E p, command, id : /\ InService(p) /\ command \in Commands
                                         /\ Issue(p, command, id)

Rests ==
  /\ ppc.initialized /\ InService(ppc') /\ UNCHANGED request
  /\ \/ MayIssue /\ ppc'.command = ppc.command
     \/ ppc'.command = "NONE" /\ response.ack = ppc.seq

\* All the game ever does to the protocol is start, take the slot over, ask,
\* read an answer, or none of these.
LEMMA GameMoves ==
  ASSUME TypeInv, Protocol, ClientNext
  PROVE  Claim \/ Issues \/ Rests \/ UNCHANGED <<ppc, request>>
<1> SUFFICES ASSUME ~ UNCHANGED <<ppc, request>> PROVE Claim \/ Issues \/ Rests
  OBVIOUS
<1>1. ppc \in Ppcs
  BY DEF TypeInv, TypeOK, ClientTypeOK
<1>2. MenuFree => MayIssue /\ InService(ppc)
  BY <1>1 DEF MenuFree, StorageInFlight, MayIssue, InService, StorageStartupReady,
              Protocol, StartupOrder
<1>3. ppcLines' = ppcLines => request' = request
  BY DEF ppcLines
<1>4. CASE InitializeStorage
  BY <1>4 DEF InitializeStorage, Claim
<1>5. CASE InitializeSlot
  <2> DEFINE p == [ppc EXCEPT !.startup = FALSE, !.slotInit = TRUE]
  <2>1. MayIssue /\ InService(p)
    BY <1>1, <1>5 DEF InitializeSlot, MayIssue, InService, Ppcs
  <2>2. (ppc' = p /\ UNCHANGED request) \/ Issue(p, "KEY", 0)
    BY <1>5 DEF InitializeSlot
  <2>3. "KEY" \in Commands /\ ppc.initialized /\ p.command = ppc.command
    BY <1>1, <1>5 DEF Commands, InitializeSlot, Ppcs
  <2> HIDE DEF p
  <2>4. Rests \/ Issues
    BY <2>1, <2>2, <2>3 DEF Rests, Issues
  <2> QED BY <2>4
<1>6. CASE ServiceStorage
  <2>1. ppc.command \in Commands /\ response.ack = ppc.seq
    BY <1>6 DEF ServiceStorage, CompleteKey, CompleteDelete, CompleteCatalog, CompleteExport,
                CompleteRename, CompleteImport, Answered, Commands
  <2>2. ppc.slotInit /\ ppc.initialized /\ ~ppc.startup
    BY <2>1 DEF Protocol, StartupOrder, Commands
  <2>3. Idle(ppc) \in Ppcs
    BY <1>1 DEF Idle, Ppcs
  <2>4. \A gen, result : LET f == [Finished(result) EXCEPT !.gen = gen] IN
          /\ InService(Finished(result)) \/ Finished(result) \notin Ppcs
          /\ Finished(result).command = "NONE"
          /\ InService(f) \/ f \notin Ppcs
          /\ f.command = "NONE"
    BY <1>1, <2>2, <2>3 DEF Finished, Idle, InService, Ppcs
  <2>5. InService(Idle(ppc)) /\ Idle(ppc).command = "NONE"
    BY <1>1, <2>2, <2>3 DEF Idle, InService, Ppcs
  <2>6. \/ ppc' = Idle(ppc)
        \/ \E result : ppc' = Finished(result)
        \/ \E gen, result : ppc' = [Finished(result) EXCEPT !.gen = gen]
    BY <1>6 DEF ServiceStorage, CompleteKey, CompleteDelete, CompleteCatalog, CompleteExport,
                CompleteRename, CompleteImport
  <2>7. UNCHANGED request
    BY <1>3, <1>6 DEF ServiceStorage, CompleteKey, CompleteDelete, CompleteCatalog,
                      CompleteExport, CompleteRename, CompleteImport
  <2>8. ppc' \in Ppcs
    <3>1. GameTypes'
      BY <1>6, AnswerType DEF ClientNext
    <3> QED BY <3>1 DEF GameTypes, ClientTypeOK
  <2>9. InService(ppc') /\ ppc'.command = "NONE"
    <3>1. CASE ppc' = Idle(ppc)
      BY <2>5, <3>1
    <3>2. CASE \E result : ppc' = Finished(result)
      BY <2>4, <2>8, <3>2
    <3>3. CASE \E gen, result : ppc' = [Finished(result) EXCEPT !.gen = gen]
      BY <2>4, <2>8, <3>3
    <3> QED BY <2>6, <3>1, <3>2, <3>3
  <2> QED BY <2>1, <2>2, <2>7, <2>9 DEF Rests
<1>7. CASE \E action \in {"Save", "Load"} : RequestMenu(action)
  <2>1. MenuFree /\ UNCHANGED request
    BY <1>3, <1>7 DEF RequestMenu
  <2>2. InService(ppc') /\ ppc'.command = ppc.command
    BY <1>1, <1>2, <1>7 DEF RequestMenu, InService, Ppcs
  <2> QED BY <1>2, <2>1, <2>2 DEF Rests, MayIssue
<1>8. CASE ServiceMenu
  <2>1. ppc.slotInit /\ ~StorageInFlight /\ UNCHANGED request
    BY <1>3, <1>8 DEF ServiceMenu
  <2>2. MayIssue
    BY <1>1, <2>1 DEF StorageInFlight, MayIssue, StorageStartupReady, Protocol, StartupOrder
  <2>3. ppc' \in Ppcs
    <3>1. GameTypes'
      BY <1>8, SlotType DEF ClientNext
    <3> QED BY <3>1 DEF GameTypes, ClientTypeOK
  <2>4. InService(ppc') /\ ppc'.command = ppc.command
    BY <1>1, <1>8, <2>1, <2>3
       DEF ServiceMenu, SaveState, NoSave, StorageInFlight, InService, Ppcs
  <2> QED BY <2>1, <2>2, <2>4 DEF Rests, MayIssue
<1>9. CASE RequestExport \/ RequestImport \/ RequestRename \/ RequestCatalog
  <2>1. MayIssue /\ InService(ppc)
    BY <1>2, <1>9
       DEF RequestExport, RequestImport, RequestRename, RequestCatalog, CanBegin
  <2>2. \E command \in Commands : \E id : Issue(ppc, command, id)
    BY <1>9 DEF RequestExport, RequestImport, RequestRename, RequestCatalog, Commands
  <2> QED BY <2>1, <2>2 DEF Issues
<1>10. CASE ConfirmDelete
  <2>1. ~StorageInFlight /\ prompt.active /\ Issue(ppc, "DELETE", prompt.id)
    BY <1>10 DEF ConfirmDelete
  <2>2. MayIssue /\ InService(ppc)
    BY <1>1, <2>1
       DEF StorageInFlight, MayIssue, InService, StorageStartupReady, Protocol, StartupOrder
  <2>3. "DELETE" \in Commands
    BY DEF Commands
  <2> QED BY <2>1, <2>2, <2>3 DEF Issues
<1>11. CASE ClearSelectedSlot \/ OpenDeletePrompt \/ CancelPrompt
  BY <1>3, <1>11 DEF ClearSelectedSlot, OpenDeletePrompt, CancelPrompt
<1> QED
  BY <1>4, <1>5, <1>6, <1>7, <1>8, <1>9, <1>10, <1>11 DEF ClientNext, Tick, Player

\* A prompt is only ever open in a process that is in service.
LEMMA PromptMoves ==
  ASSUME TypeInv, Protocol, ClientNext
  PROVE  prompt'.active => ppc.slotInit \/ ppc'.slotInit
<1>1. prompt.active => ppc.slotInit
  BY DEF Protocol, StartupOrder
<1>2. CASE UNCHANGED prompt
  BY <1>1, <1>2
<1>3. CASE OpenDeletePrompt
  BY <1>3 DEF OpenDeletePrompt, CanBegin, MenuFree
<1>4. CASE CancelPrompt \/ ConfirmDelete
  BY <1>1, <1>4 DEF CancelPrompt, ConfirmDelete
<1>5. UNCHANGED prompt \/ OpenDeletePrompt \/ CancelPrompt \/ ConfirmDelete
  BY DEF ClientNext, Tick, Player, InitializeStorage, InitializeSlot, ServiceStorage,
         CompleteKey, CompleteDelete, CompleteCatalog, CompleteExport, CompleteRename,
         CompleteImport, RequestMenu, ServiceMenu, ClearSelectedSlot, RequestExport,
         RequestImport, RequestRename, RequestCatalog
<1> QED BY <1>2, <1>3, <1>4, <1>5

-----------------------------------------------------------------------------
(* The protocol is inductive.                                              *)

\* The worker never breaks the protocol: it owes at most the one answer.
LEMMA WorkerKeepsProtocol ==
  ASSUME ProtocolInv, Worker
  PROVE  Protocol'
<1> USE DEF ProtocolInv, TypeInv, TypeOK, MailboxTypeOK, StorageTypeOK, ClientTypeOK,
            Protocol, StartupOrder, WorkerOwes, RequestOutstanding, NoBadResponse
<1>1. UNCHANGED <<ppc, prompt, request>> /\ StorageStep
  BY DEF Worker, StorageNext, ppcLines, clientVars
<1>2. CASE PublishAck
  <2>1. /\ arm.phase = "ACK" /\ arm'.phase = "IDLE" /\ receipt' = receipt
        /\ response'.ack = arm.seq
    BY <1>2 DEF PublishAck, Arms
  <2>2. arm.seq = request.seq /\ arm.command = request.command /\ arm.requestId = request.id
    BY <2>1
  <2>3. ppc.command # "NONE" =>
          receipt = [session |-> ppc.session, command |-> ppc.command, id |-> ppc.id,
                     seq |-> ppc.seq]
    BY <2>1, <2>2
  <2> QED BY <1>1, <2>1, <2>2, <2>3
<1>3. CASE Latch
  <2>1. request.seq # response.ack /\ response' = response
    BY <1>3 DEF Latch, Quiet
  <2>2. /\ arm'.seq = request.seq /\ arm'.command = request.command
        /\ arm'.requestId = request.id /\ arm'.session = request.session
        /\ arm'.phase = "ACK" => receipt' = [session |-> arm'.session, command |-> arm'.command,
                                            id |-> arm'.requestId, seq |-> arm'.seq]
    BY <1>3 DEF Latch, Latched, Finish, Continue
  <2> QED BY <1>1, <2>1, <2>2
<1>4. CASE Serve
  <2>1. /\ response' = response /\ arm.phase # "IDLE"
        /\ arm'.seq = arm.seq /\ arm'.session = arm.session
        /\ arm'.command = arm.command /\ arm'.requestId = arm.requestId
        /\ arm'.phase = "ACK" => receipt' = [session |-> arm.session, command |-> arm.command,
                                            id |-> arm.requestId, seq |-> arm.seq]
    BY <1>4 DEF Serve, SameRequest
  <2> QED BY <1>1, <2>1
<1> QED BY <1>1, <1>2, <1>3, <1>4, WorkerServes

\* The game never breaks it: it asks only when nothing is owed.
LEMMA GameKeepsProtocol ==
  ASSUME ProtocolInv, Game
  PROVE  Protocol'
<1> USE DEF ProtocolInv, Protocol
<1>1. /\ arm' = arm /\ response' = response /\ receipt' = receipt /\ ClientNext
  BY DEF Game, storageVars, ClientNext, armLines
<1>2. /\ request \in Requests /\ ppc \in Ppcs /\ response \in Responses
  BY DEF TypeInv, TypeOK, MailboxTypeOK, ClientTypeOK
<1>3. prompt'.active => ppc.slotInit \/ ppc'.slotInit
  BY <1>1, PromptMoves
<1>4. CASE Claim
  <2>1. /\ ~ppc.initialized /\ ~ppc.slotInit /\ ppc.command = "NONE"
    BY <1>4 DEF Claim, StartupOrder
  <2>2. /\ ppc'.initialized /\ ppc'.seq = request.seq /\ ppc'.session = ppc.session
        /\ ~ppc'.slotInit /\ ppc'.command = "NONE"
        /\ ~ppc'.startup => response.ack = request.seq
    BY <1>2, <1>4, <2>1 DEF Claim, Ppcs
  <2>3. /\ request'.seq = request.seq /\ request'.session = ppc.session
        /\ request'.command = request.command /\ request'.id = request.id
    BY <1>2, <1>4 DEF Claim, Requests
  <2>4. StartupOrder'
    BY <1>1, <1>3, <2>1, <2>2, <2>3 DEF StartupOrder
  <2>5. WorkerOwes'
    BY <1>1, <2>2, <2>3 DEF WorkerOwes
  <2> QED BY <2>2, <2>4, <2>5 DEF RequestOutstanding, NoBadResponse
<1>5. CASE Issues
  <2>1. PICK p, command, id : /\ InService(p) /\ command \in Commands /\ Issue(p, command, id)
    BY <1>5 DEF Issues
  <2>2. MayIssue
    BY <1>5 DEF Issues
  <2>3. response.ack = ppc.seq /\ ppc.seq = request.seq /\ request.session = ppc.session
    BY <2>2 DEF MayIssue, StorageStartupReady, StartupOrder
  <2>4. arm.phase = "IDLE"
    BY <2>3 DEF WorkerOwes
  <2>5. NextSeq(p.seq) # response.ack
    BY <1>2, <2>1, <2>3, NextSeqType DEF InService, Ppcs
  <2>6. /\ ppc'.seq = NextSeq(p.seq) /\ ppc'.command = command /\ ppc'.id = id
        /\ ppc'.session = ppc.session /\ ppc'.slotInit /\ ~ppc'.startup /\ ppc'.initialized
    BY <2>1, <2>2 DEF Issue, InService, Ppcs, MayIssue
  <2>7. request' = [seq |-> NextSeq(p.seq), command |-> command, id |-> id,
                    session |-> ppc.session]
    BY <1>2, <2>1, <2>3 DEF Issue, Requests
  <2>8. command # "NONE"
    BY <2>1 DEF Commands
  <2>9. StartupOrder'
    BY <2>6, <2>7, <2>8 DEF StartupOrder
  <2>10. WorkerOwes'
    BY <1>1, <2>4 DEF WorkerOwes
  <2>11. RequestOutstanding' /\ NoBadResponse'
    BY <1>1, <2>5, <2>6, <2>7 DEF RequestOutstanding, NoBadResponse
  <2> QED BY <2>9, <2>10, <2>11
<1>6. CASE Rests
  <2>1. /\ ppc'.seq = ppc.seq /\ ppc'.session = ppc.session /\ ppc'.slotInit
        /\ ~ppc'.startup /\ ppc'.initialized /\ request' = request
    BY <1>6 DEF Rests, InService
  <2>2. ppc'.command = "NONE" /\ response.ack = ppc.seq
    BY <1>6 DEF Rests, MayIssue, StorageStartupReady, StartupOrder
  <2>3. ppc.seq = request.seq /\ request.session = ppc.session
    BY <1>6 DEF Rests, StartupOrder
  <2>4. StartupOrder'
    BY <1>1, <2>1, <2>2, <2>3 DEF StartupOrder
  <2>5. WorkerOwes'
    BY <1>1, <2>1, <2>2 DEF WorkerOwes
  <2> QED BY <2>2, <2>4, <2>5 DEF RequestOutstanding, NoBadResponse
<1>7. CASE UNCHANGED <<ppc, request>>
  BY <1>1, <1>3, <1>7 DEF StartupOrder, WorkerOwes, RequestOutstanding, NoBadResponse
<1> QED BY <1>1, <1>4, <1>5, <1>6, <1>7, GameMoves

\* A fresh process has claimed nothing and asked for nothing.
LEMMA FreshKeepsProtocol ==
  ASSUME ProtocolInv, FreshProcess,
         UNCHANGED <<arm, request, response, receipt>> \/ arm' = IdleArm
  PROVE  Protocol'
<1>1. ~ppc'.initialized /\ ~ppc'.slotInit /\ ppc'.command = "NONE" /\ ~prompt'.active
  BY DEF FreshProcess, FreshPpc, NoPrompt
<1>2. WorkerOwes'
  BY <1>1 DEF ProtocolInv, Protocol, WorkerOwes, IdleArm
<1> QED BY <1>1, <1>2 DEF Protocol, StartupOrder, RequestOutstanding, NoBadResponse

\* No step of the system breaks the protocol.
LEMMA ProtocolStep == ProtocolInv /\ [Next]_vars => ProtocolInv'
<1> SUFFICES ASSUME ProtocolInv, [Next]_vars PROVE ProtocolInv'
  OBVIOUS
<1>1. TypeInv'
  BY TypeStep DEF ProtocolInv
<1>2. CASE Worker
  BY <1>1, <1>2, WorkerKeepsProtocol DEF ProtocolInv
<1>3. CASE Game
  BY <1>1, <1>3, GameKeepsProtocol DEF ProtocolInv
<1>4. CASE Reset
  <2>1. UNCHANGED <<arm, request, response, receipt>> /\ FreshProcess
    BY <1>4 DEF Reset, mailboxVars, ppcLines, armLines, storageVars
  <2> QED BY <1>1, <2>1, FreshKeepsProtocol DEF ProtocolInv
<1>5. CASE PowerLoss
  BY <1>1, <1>5, FreshKeepsProtocol DEF PowerLoss, StorageRestart, ProtocolInv
<1>6. CASE UNCHANGED vars
  <2>1. UNCHANGED <<arm, request, response, receipt, ppc, prompt>>
    BY <1>6 DEF vars, mailboxVars, ppcLines, armLines, storageVars, clientVars
  <2> QED
    BY <1>1, <2>1 DEF ProtocolInv, Protocol, StartupOrder, WorkerOwes, RequestOutstanding,
                      NoBadResponse
<1> QED BY <1>2, <1>3, <1>4, <1>5, <1>6 DEF Next

\* The protocol holds when the console starts.
LEMMA InitProtocol == Init => ProtocolInv
<1> SUFFICES ASSUME Init PROVE ProtocolInv
  OBVIOUS
<1>1. Protocol
  BY DEF Init, StorageInit, ClientInit, FreshPpc, NoPrompt, IdleArm, Protocol, StartupOrder,
         WorkerOwes, RequestOutstanding, NoBadResponse
<1> QED BY <1>1, InitType DEF ProtocolInv

\* The inductive invariant holds in every reachable state.
LEMMA ProtocolAlways == Spec => []ProtocolInv
  BY InitProtocol, ProtocolStep, PTL DEF Spec

\* Order of start-up, what a busy worker owes, the outstanding request and the
\* receipt: the whole protocol holds in every reachable state.
THEOREM ProtocolHolds == Spec => []Protocol
<1>1. ProtocolInv => Protocol
  BY DEF ProtocolInv
<1> QED BY <1>1, ProtocolAlways, PTL

\* No process is ever shown the answer to another request, of its own or of a
\* process before it, so serviceStorage never reports BAD RESPONSE for one.
THEOREM AnswersAreOwn == Spec => []NoBadResponse
<1>1. ProtocolInv => NoBadResponse
  BY DEF ProtocolInv, Protocol
<1> QED BY <1>1, ProtocolAlways, PTL

\* Whenever the game may begin something, the worker has nothing left to do.
THEOREM WorkerIsIdle == Spec => []WorkerIdleBetweenRequests
<1>1. ProtocolInv => WorkerIdleBetweenRequests
  BY DEF ProtocolInv, Protocol, StartupOrder, WorkerOwes, WorkerIdleBetweenRequests
<1> QED BY <1>1, ProtocolAlways, PTL

\* The worker writes the snapshot memory only while the process that owns it is
\* waiting for an import it asked for, or has not taken the memory over yet.
THEOREM SlotIsOwned == Spec => []SlotOwnership
<1>1. ProtocolInv => SlotOwnership
  BY DEF ProtocolInv, Protocol, StartupOrder, WorkerOwes, RequestOutstanding,
         SlotOwnership, Superseded
<1> QED BY <1>1, ProtocolAlways, PTL

-----------------------------------------------------------------------------
(* The snapshot memory.                                                    *)

\* A process that has not taken the memory over has no slot to speak of.
SlotInv == SlotIntact /\ (~ppc.slotInit => ~slot.raw)

SlotState == IF slot.raw THEN Coherent(snapshot) ELSE snapshot[1] = Blank

\* A state is a whole image of itself.
LEMMA WholeImage ==
  ASSUME NEW memory \in Memory, NEW state \in Snapshots, Holds(memory, state)
  PROVE  Coherent(memory)
<1>1. 1 \in Cells
  BY BoundsAssumption DEF Cells
<1>2. memory[1] = state
  BY <1>1 DEF Holds
<1> QED BY <1>2, BlankAssumption DEF Coherent

\* The worker writes the memory in one action only, for an import.
LEMMA WorkerWritesImports ==
  ASSUME StorageStep, snapshot' # snapshot
  PROVE  arm.phase = "TRANSFER" /\ arm.command = "IMPORT" /\ ~Superseded
<1>1. CASE Transfer
  BY <1>1 DEF Transfer, Working
<1>2. CASE ~Transfer
  BY <1>2
     DEF StorageStep, PublishAck, Cancel, Latch, OpenKey, WriteKeyCopy0, WriteKeyCopy1,
         OpenCatalog, ScanEntry, EndScan, DeleteArchive, DropName0, DropName1, DropName,
         OpenRename, RemoveOldName, PlaceName, OpenExport, OpenImport, WriteHeader,
         ReadHeader, Close, PublishExport, PublishImport
<1> QED BY <1>1, <1>2

\* The worker leaves a slot alone that the process has in service.
LEMMA WorkerKeepsSlot ==
  ASSUME ProtocolInv, SlotInv, Worker
  PROVE  SlotInv'
<1>1. UNCHANGED <<ppc, slot>> /\ StorageStep
  BY DEF Worker, StorageNext, clientVars
<1>2. CASE UNCHANGED snapshot
  BY <1>1, <1>2 DEF SlotInv, SlotIntact, Coherent, Holds
<1>3. CASE snapshot' # snapshot
  <2>1. SlotOwnership
    BY DEF ProtocolInv, Protocol, StartupOrder, WorkerOwes, RequestOutstanding,
           SlotOwnership, Superseded
  <2>2. ~ppc.slotInit \/ ppc.command = "IMPORT"
    BY <1>1, <1>3, <2>1, WorkerWritesImports DEF SlotOwnership
  <2> QED BY <1>1, <2>2 DEF SlotInv, SlotIntact
<1> QED BY <1>2, <1>3

\* The process is in service before it saves, clears or imports.
LEMMA GameKeepsSlot ==
  ASSUME ProtocolInv, SlotInv, ClientNext
  PROVE  SlotInv'
<1>1. /\ ppc \in Ppcs /\ slot \in Slots /\ header \in Headers /\ snapshot \in Memory
      /\ 1 \in Cells /\ snapshot' \in Memory
  <2>1. snapshot' \in Memory
    BY StartType, AnswerType, SlotType, RequestType
       DEF ClientNext, Tick, Player, ProtocolInv, GameTypes, MailboxTypeOK
  <2> QED
    BY <2>1, BoundsAssumption
       DEF ProtocolInv, TypeInv, TypeOK, MailboxTypeOK, ClientTypeOK, Cells
<1>2. ppc.slotInit /\ ppc.command # "IMPORT" => SlotState
  BY DEF SlotInv, SlotIntact, SlotState
<1>3. /\ ~ppc.slotInit => ~slot.raw
      /\ ppc.command # "NONE" => ppc.slotInit
  BY DEF SlotInv, ProtocolInv, Protocol, StartupOrder
<1>4. SlotState' => SlotIntact'
  BY DEF SlotState, SlotIntact
<1>5. CASE InitializeSlot
  <2>1. slot' = slot /\ ~slot.raw /\ snapshot'[1] = Blank /\ ~ppc.slotInit
    BY <1>1, <1>3, <1>5 DEF InitializeSlot, Memory
  <2> QED BY <1>4, <2>1 DEF SlotState, SlotInv
<1>6. CASE ServiceMenu
  <2>1. CASE SaveState
    <3>1. PICK profile \in BOOLEAN :
            snapshot' = [c \in Cells |-> [owner |-> ppc.session, gen |-> ppc.gen + 1,
                                          profile |-> profile]]
      BY <2>1 DEF SaveState
    <3> DEFINE state == [owner |-> ppc.session, gen |-> ppc.gen + 1, profile |-> profile]
    <3>2. Holds(snapshot', state)
      BY <3>1 DEF Holds
    <3>3. state \in Snapshots
      BY <2>1, <1>1, BoundsAssumption DEF SaveState, Snapshots, Ppcs
    <3>4. slot'.raw /\ ppc'.slotInit
      BY <1>1, <1>6, <2>1 DEF SaveState, ServiceMenu, Slots, Ppcs
    <3> HIDE DEF state
    <3>5. Coherent(snapshot')
      BY <1>1, <3>2, <3>3, WholeImage
    <3> QED BY <1>4, <3>4, <3>5 DEF SlotState, SlotInv, Coherent, Holds
  <2>2. CASE NoSave
    <3>1. ppc'.slotInit = ppc.slotInit /\ ppc'.command = ppc.command /\ UNCHANGED <<slot, snapshot>>
      BY <1>1, <2>2 DEF NoSave, Ppcs
    <3> QED BY <3>1 DEF SlotInv, SlotIntact, Coherent, Holds
  <2> QED BY <1>6, <2>1, <2>2 DEF ServiceMenu
<1>7. CASE ClearSelectedSlot
  <2>1. ~slot'.raw /\ snapshot'[1] = Blank
    BY <1>1, <1>7 DEF ClearSelectedSlot, Slots, Memory
  <2> QED BY <1>4, <2>1 DEF SlotState, SlotInv
<1>8. CASE RequestImport
  <2>1. ppc'.command = "IMPORT" /\ ppc'.slotInit
    BY <1>1, <1>8 DEF RequestImport, Issue, CanBegin, MenuFree, Ppcs
  <2> QED BY <2>1 DEF SlotInv, SlotIntact
<1>9. CASE CompleteImport
  <2>1. ppc.slotInit
    BY <1>3, <1>9 DEF CompleteImport, Answered
  <2>2. ppc'.slotInit
    BY <1>1, <1>9, <2>1 DEF CompleteImport, Finished, Idle, Ppcs
  <2>3. CASE ImportVerdict = "DONE"
    <3>1. slot'.raw /\ snapshot' = snapshot
      BY <1>9, <2>3 DEF CompleteImport
    <3>2. Holds(snapshot, header.state)
      BY <2>3 DEF ImportVerdict, ImportedArchiveOK
    <3>3. Coherent(snapshot)
      BY <1>1, <3>2, WholeImage DEF Headers
    <3>4. Coherent(snapshot')
      BY <3>1, <3>3
    <3> QED BY <1>4, <2>2, <3>1, <3>4 DEF SlotState, SlotInv, Coherent, Holds
  <2>4. CASE ImportVerdict # "DONE" /\ slot.backup # Blank
    <3>1. slot'.raw /\ snapshot' = [c \in Cells |-> slot.backup]
      <4>1. slot' = [raw |-> slot.backup # Blank, backup |-> Blank]
        BY <1>9, <2>4 DEF CompleteImport
      <4>2. slot'.raw = (slot.backup # Blank)
        BY <4>1
      <4> QED BY <1>9, <2>4, <4>2 DEF CompleteImport
    <3>2. Holds(snapshot', slot.backup) /\ slot.backup \in Snapshots
      BY <1>1, <2>4, <3>1 DEF Holds, Slots
    <3>3. Coherent(snapshot')
      BY <1>1, <3>2, WholeImage
    <3> QED BY <1>4, <2>2, <3>1, <3>3 DEF SlotState, SlotInv, Coherent, Holds
  <2>5. CASE ImportVerdict # "DONE" /\ slot.backup = Blank
    <3>1. ~slot'.raw /\ snapshot'[1] = Blank
      <4>1. slot' = [raw |-> slot.backup # Blank, backup |-> Blank]
        BY <1>9, <2>5 DEF CompleteImport
      <4>2. slot'.raw = (slot.backup # Blank)
        BY <4>1
      <4> QED BY <1>1, <1>9, <2>5, <4>2 DEF CompleteImport, Memory
    <3> QED BY <1>4, <3>1 DEF SlotState, SlotInv
  <2> QED BY <2>3, <2>4, <2>5
<1>10. CASE ~(\/ InitializeSlot \/ ServiceMenu \/ ClearSelectedSlot \/ RequestImport
              \/ CompleteImport)
  <2>1. UNCHANGED <<slot, snapshot>>
    BY <1>10 DEF ClientNext, Tick, Player, ServiceStorage, InitializeStorage, CompleteKey,
                 CompleteDelete, CompleteCatalog, CompleteExport, CompleteRename, RequestMenu,
                 RequestExport, RequestRename, RequestCatalog, OpenDeletePrompt, CancelPrompt,
                 ConfirmDelete
  <2>2. /\ ppc'.slotInit = ppc.slotInit
        /\ ppc.command = "IMPORT" => ppc'.command = "IMPORT"
    <3>1. CASE InitializeStorage \/ RequestMenu("Save") \/ RequestMenu("Load")
      BY <1>1, <3>1 DEF InitializeStorage, RequestMenu, Ppcs
    <3>2. CASE CompleteKey \/ CompleteDelete \/ CompleteCatalog \/ CompleteExport
               \/ CompleteRename
      <4>1. ppc.command # "IMPORT"
        BY <3>2 DEF CompleteKey, CompleteDelete, CompleteCatalog, CompleteExport,
                    CompleteRename, Answered
      <4>2. ppc' = Idle(ppc) \/ \E id : ppc' = [Idle(ppc) EXCEPT !.archiveId = id]
        BY <3>2 DEF CompleteKey, CompleteDelete, CompleteCatalog, CompleteExport,
                    CompleteRename, Finished
      <4>3. \A id : [Idle(ppc) EXCEPT !.archiveId = id].slotInit = ppc.slotInit
        BY <1>1 DEF Idle, Ppcs
      <4>4. Idle(ppc).slotInit = ppc.slotInit
        BY <1>1 DEF Idle, Ppcs
      <4> QED BY <4>1, <4>2, <4>3, <4>4
    <3>3. CASE RequestExport \/ RequestRename \/ RequestCatalog \/ ConfirmDelete
      <4>1. ppc.command = "NONE"
        BY <3>3 DEF RequestExport, RequestRename, RequestCatalog, ConfirmDelete, CanBegin,
                    MenuFree, StorageInFlight
      <4>2. \E command, id : Issue(ppc, command, id)
        BY <3>3 DEF RequestExport, RequestRename, RequestCatalog, ConfirmDelete
      <4>3. PICK command, id : Issue(ppc, command, id)
        BY <4>2
      <4>4. ppc'.slotInit = ppc.slotInit
        BY <1>1, <4>3 DEF Issue, Ppcs
      <4> QED BY <4>1, <4>4
    <3>4. CASE OpenDeletePrompt \/ CancelPrompt
      BY <3>4 DEF OpenDeletePrompt, CancelPrompt
    <3> QED BY <1>10, <3>1, <3>2, <3>3, <3>4 DEF ClientNext, Tick, Player, ServiceStorage
  <2> QED BY <2>1, <2>2 DEF SlotInv, SlotIntact, Coherent, Holds
<1> QED BY <1>5, <1>6, <1>7, <1>8, <1>9, <1>10

\* No step of the system tears the slot.
LEMMA SlotStep == ProtocolInv /\ SlotInv /\ [Next]_vars => SlotInv'
<1> SUFFICES ASSUME ProtocolInv, SlotInv, [Next]_vars PROVE SlotInv'
  OBVIOUS
<1>1. CASE Worker
  BY <1>1, WorkerKeepsSlot
<1>2. CASE Game
  BY <1>2, GameKeepsSlot DEF Game
<1>3. CASE Reset \/ PowerLoss
  <2>1. ~ppc'.slotInit /\ ~slot'.raw
    BY <1>3 DEF Reset, PowerLoss, FreshProcess, FreshPpc, EmptySlot
  <2> QED BY <2>1 DEF SlotInv, SlotIntact
<1>4. CASE UNCHANGED vars
  <2>1. UNCHANGED <<ppc, slot, snapshot>>
    BY <1>4 DEF vars, mailboxVars, clientVars
  <2> QED BY <2>1 DEF SlotInv, SlotIntact, Coherent, Holds
<1> QED BY <1>1, <1>2, <1>3, <1>4 DEF Next

\* A load and an export never read a half-written slot: outside an import it is
\* one whole state or marked empty, through failed imports, resets in the middle
\* of a transfer and power cuts.
THEOREM SlotIsIntact == Spec => []SlotIntact
<1>1. Init => SlotInv
  BY DEF Init, ClientInit, FreshPpc, EmptySlot, SlotInv, SlotIntact
<1>2. SlotInv => SlotIntact
  BY DEF SlotInv
<1> QED BY <1>1, <1>2, SlotStep, ProtocolAlways, PTL DEF Spec
=============================================================================
