------------------------- MODULE LmPreferencesProofs -------------------------
(***************************************************************************)
(* Proofs about saving preferences, for any words, values, faults, resets  *)
(* and power cuts.  What concerns the card assumes either that the         *)
(* launcher does not rewrite the file, or that nothing fails: otherwise a  *)
(* run shows what is lost.                                                 *)
(***************************************************************************)
EXTENDS LmPreferencesSystem, TLAPS

LEMMA VectorsAreSections == Vectors \subseteq Sections
BY DEF Vectors, Sections

LEMMA NextSeqIsNew ==
  ASSUME NEW seq \in Seqs
  PROVE  NextSeq(seq) \in Seqs /\ NextSeq(seq) # seq
BY SeqAssumption DEF Seqs, NextSeq

LEMMA SectionParts ==
  ASSUME NEW file \in Files \cup {Missing}
  PROVE  /\ SectionOf(file) \in Sections \cup {Missing, Damaged}
         /\ SetupOf(file) \in Setups \cup {Missing}
BY DEF SectionOf, SetupOf, Files

LEMMA StatusType ==
  ASSUME NEW section \in Sections \cup {Missing, Damaged}
  PROVE  /\ StatusOf(section) \in LoadStatuses
         /\ StatusOf(section) = "OK" <=> section \in Sections
BY SectionAssumption DEF StatusOf, LoadStatuses

LEMMA NoValuesType == NoValues \in Sections
BY DEF NoValues, Sections

LEMMA ZeroSeq == 0 \in Seqs
BY SeqAssumption DEF Seqs

LEMMA FreshTypes == FreshGame \in Games /\ IdleWorker \in Workers
<1>1. FreshGame \in Games
  BY DefaultsAssumption, ZeroSeq DEF FreshGame, Games, Texts
<1>2. EmptyFile \in Files
  BY DEF EmptyFile, Files
<1> QED BY <1>1, <1>2 DEF IdleWorker, Workers, Stages, LoadStatuses

LEMMA LoadedTypes ==
  ASSUME PreferencesInit, Stored \in Sections \cup {Missing, Damaged}
  PROVE  request' \in Requests /\ reply' \in Replies
<1>1. PICK status \in LoadStatuses, values \in Sections : Loaded(status, values)
  BY StatusType, NoValuesType DEF PreferencesInit, LoadStatuses
<1>2. (status # "UNAVAILABLE") \in BOOLEAN
  OBVIOUS
<1> QED BY <1>1, <1>2, ZeroSeq DEF Loaded, Requests, Replies

LEMMA PowerOnTypes ==
  ASSUME PowerOn, path \in Files \cup {Missing}, launcher \in Launcher
  PROVE  path' \in Files \cup {Missing} /\ launcher' \in Launcher /\ UNCHANGED backup
<1>1. SectionOf(path) \in Sections \cup {Missing, Damaged}
  BY SectionParts
<1>2. launcher.setup \in Setups
  BY DEF Launcher
<1>3. Torn \subseteq Files \cup {Missing}
  BY <1>1, <1>2 DEF Torn, Files
<1>4. PICK file \in Torn :
        path' = file /\ launcher' = [stage |-> "MENU", setup |-> LoadedSetup(file)]
  BY DEF PowerOn
<1>5. LoadedSetup(file) \in Setups
  BY <1>3, SectionParts, SetupAssumption DEF LoadedSetup
<1> QED BY <1>3, <1>4, <1>5 DEF PowerOn, Launcher

LEMMA KernelTypes ==
  ASSUME Service, worker \in Workers, reply \in Replies, request \in Requests,
         path \in Files \cup {Missing}, backup \in Files \cup {Missing}
  PROVE  worker' \in Workers /\ reply' \in Replies
<1> USE DEF Workers, Stages, LoadStatuses
<1>1. CASE WriteDraft
  <2>1. Draft \in Files
    <3>1. SetupOf(path) \in Setups \cup {Missing} /\ SetupOf(backup) \in Setups \cup {Missing}
      BY SectionParts
    <3> QED BY <3>1 DEF Draft, Files, Requests
  <2>2. (path # Missing) \in BOOLEAN
    OBVIOUS
  <2>3. CASE IoFaults /\ Finish("IO_ERROR")
    BY <1>1, <2>3 DEF WriteDraft, Finish
  <2>4. ASSUME NEW stage \in Stages,
               worker' = [stage |-> stage, original |-> path # Missing, draft |-> Draft,
                          status |-> "OK"]
        PROVE  worker' \in Workers
    BY <2>1, <2>2, <2>4
  <2> QED BY <1>1, <2>3, <2>4 DEF WriteDraft
<1>2. CASE UnlinkBackup \/ KeepOriginal \/ Promote \/ Rollback
  BY <1>2 DEF UnlinkBackup, KeepOriginal, Promote, Rollback, Finish, Continue
<1>3. CASE Acknowledge
  BY <1>3, FreshTypes DEF Acknowledge, Replies, Requests
<1> QED BY <1>1, <1>2, <1>3 DEF Service

-----------------------------------------------------------------------------
(* The client's functions stay within their types.                         *)

LEMMA AdoptedType ==
  ASSUME NEW g \in Games, request \in Requests
  PROVE  Adopted(g) \in Games
<1>1. Applied(request.values, g) \in Vectors
  BY DEF Applied, Vectors, Games, Requests, Sections
<1>2. Merged(request.values, g) \in Vectors
  BY <1>1 DEF Merged, Vectors, Games
<1>3. (Changed(g) # {}) \in BOOLEAN
  OBVIOUS
<1> QED BY <1>1, <1>2, <1>3 DEF Adopted, Games, Requests, Texts

LEMMA UnloadedType ==
  ASSUME NEW g \in Games, request \in Requests
  PROVE  Unloaded(g) \in Games
BY DEF Unloaded, Games, Requests, Texts

LEMMA InitializedType ==
  ASSUME NEW g \in Games, NEW open \in BOOLEAN, request \in Requests
  PROVE  Initialized(g, open) \in Games
BY AdoptedType, UnloadedType DEF Initialized

LEMMA PolledType ==
  ASSUME NEW g \in Games, request \in Requests, g.pending => request.values \in Vectors
  PROVE  Polled(g) \in Games
BY DEF Polled, Games, Requests, Texts

LEMMA QueueType ==
  ASSUME NEW g \in Games
  PROVE  Queue(g) \in Games
BY DEF Queue, Games

\* Publishing keeps the types of the request and of the statics, and a save
\* that is under way is of all words.
LEMMA PublishType ==
  ASSUME NEW g \in Games, request \in Requests, Publish(g),
         g.pending => request.values \in Vectors
  PROVE  /\ game' \in Games /\ request' \in Requests
         /\ game'.pending => request'.values \in Vectors
<1>1. CASE MayPublish(g) /\ NeedsSave(g) /\ LineFree(g) /\ game' = Sent(g)
           /\ request' = [seq |-> NextSeq(g.seq), values |-> g.desired]
  <2>1. NextSeq(g.seq) \in Seqs
    BY NextSeqIsNew DEF Games
  <2>2. g.desired \in Sections /\ g.desired \in Vectors
    BY VectorsAreSections DEF Games
  <2> QED BY <1>1, <2>1, <2>2 DEF Sent, Games, Requests, Texts
<1>2. CASE game' = Dropped(g) /\ UNCHANGED request
  BY <1>2 DEF Dropped, Games, Texts
<1>3. CASE game' = g /\ UNCHANGED request
  BY <1>3
<1> QED BY <1>1, <1>2, <1>3 DEF Publish

\* Initializing never happens under a pending save, and starts none.
LEMMA InitializedPending ==
  ASSUME NEW g \in Games, NEW open \in BOOLEAN, g.pending => g.initialized
  PROVE  /\ Initialized(g, open).pending = g.pending
         /\ g.pending => Initialized(g, open) = g
<1>1. CASE g.initialized
  BY <1>1 DEF Initialized, MayInitialize
<1>2. CASE ~g.initialized
  <2>1. Adopted(g).pending = g.pending /\ Unloaded(g).pending = g.pending
    BY DEF Adopted, Unloaded, Games
  <2> QED BY <1>2, <2>1 DEF Initialized
<1> QED BY <1>1, <1>2 DEF Games

-----------------------------------------------------------------------------
(* Types.                                                                  *)

\* A save under way is of all words, by a process that has been initialized.
PendingShape ==
  game.pending =>
    game.initialized /\ request.values \in Vectors /\ game.text = "SAVING"

\* Until the kernel has booted nothing of either side is under way.
OffShape == ~Running => game = FreshGame /\ worker = IdleWorker /\ ~reply.ready

TypeInv == TypeOK /\ PendingShape /\ OffShape

LEMMA TickType ==
  ASSUME TypeInv, NEW open \in BOOLEAN, NEW g \in Games, Tick(open, g),
         g.pending = game.pending, g.initialized = game.initialized, g.text = game.text
  PROVE  /\ game' \in Games /\ menu' \in BOOLEAN /\ request' \in Requests
         /\ PendingShape'
         /\ \E h \in Games : Publish(h)
<1> DEFINE begun == Initialized(g, open)
           polled == IF begun.initialized
                     THEN IF g.wasOpen /\ ~open THEN Queue(Polled(begun)) ELSE Polled(begun)
                     ELSE begun
           last == [polled EXCEPT !.wasOpen = open, !.captured = TRUE]
<1>1. request \in Requests /\ g.pending => request.values \in Vectors
  BY DEF TypeInv, TypeOK, BlockTypeOK, PendingShape
<1>2. begun \in Games /\ begun.pending = g.pending
      /\ (begun.pending => begun.initialized /\ begun.text = "SAVING")
  BY <1>1, InitializedType, InitializedPending
     DEF TypeInv, PendingShape, TypeOK, BlockTypeOK
<1>3. polled \in Games /\ (polled.pending => begun.pending /\ polled.initialized
                                             /\ polled.text = "SAVING")
  <2>1. Polled(begun) \in Games
        /\ (Polled(begun).pending => begun.pending /\ Polled(begun).initialized
                                     /\ Polled(begun).text = "SAVING")
    BY <1>1, <1>2, PolledType DEF Polled, Games, TypeInv, TypeOK, BlockTypeOK
  <2>2. Queue(Polled(begun)) \in Games
        /\ (Queue(Polled(begun)).pending => begun.pending
              /\ Queue(Polled(begun)).initialized /\ Queue(Polled(begun)).text = "SAVING")
    BY <2>1, QueueType DEF Queue, Games
  <2> QED BY <1>2, <2>1, <2>2
<1>4. last \in Games /\ (last.pending => begun.pending /\ last.initialized
                                         /\ last.text = "SAVING")
  BY <1>3 DEF Games
<1>5. Publish(last) /\ menu' = open
  BY DEF Tick
<1>6. game' \in Games /\ request' \in Requests /\ (game'.pending => request'.values \in Vectors)
  BY <1>1, <1>2, <1>4, <1>5, PublishType DEF TypeInv, TypeOK, BlockTypeOK
<1>7. game'.pending => game'.initialized /\ game'.text = "SAVING"
  BY <1>4, <1>5 DEF Publish, Sent, Dropped, MayPublish, Games
<1> QED
  <2> HIDE DEF last
  <2> QED BY <1>4, <1>5, <1>6, <1>7 DEF PendingShape

LEMMA RecordType ==
  ASSUME TypeInv, NEW k \in Keys, NEW v \in Vals, RecordReference(k, v)
  PROVE  /\ game' \in Games /\ menu' \in BOOLEAN /\ request' \in Requests
         /\ PendingShape'
         /\ (\E h \in Games : Publish(h)) \/ UNCHANGED request
<1> DEFINE g == [game EXCEPT !.live[k] = v]
           begun == Initialized(g, menu)
<1>1. g \in Games /\ g.pending = game.pending /\ g.text = game.text
      /\ g.initialized = game.initialized
  BY DEF TypeInv, TypeOK, GameTypeOK, Games, Vectors
<1>2. request \in Requests /\ menu \in BOOLEAN
      /\ (g.pending => request.values \in Vectors /\ g.initialized /\ g.text = "SAVING")
  BY <1>1 DEF TypeInv, TypeOK, BlockTypeOK, GameTypeOK, PendingShape
<1>3. begun \in Games /\ begun.pending = g.pending
      /\ (begun.pending => begun.initialized /\ begun.text = "SAVING")
  <2> HIDE DEF g
  <2> QED BY <1>1, <1>2, InitializedType, InitializedPending
<1>4. CASE Publish(Queue(begun))
  <2>1. Queue(begun) \in Games /\ Queue(begun).pending = begun.pending
        /\ Queue(begun).text = begun.text /\ Queue(begun).initialized = begun.initialized
    BY <1>3, QueueType DEF Queue, Games
  <2>2. game' \in Games /\ request' \in Requests /\ (game'.pending => request'.values \in Vectors)
    BY <1>2, <1>3, <1>4, <2>1, PublishType
  <2>3. game'.pending => game'.initialized /\ game'.text = "SAVING"
    BY <1>3, <1>4, <2>1, <2>2 DEF Publish, Sent, Dropped, MayPublish, Games
  <2>4. \E h \in Games : Publish(h)
    BY <1>4, <2>1
  <2> QED BY <1>2, <2>2, <2>3, <2>4 DEF PendingShape, RecordReference
<1>5. CASE game' = begun /\ UNCHANGED request
  BY <1>1, <1>2, <1>3, <1>5 DEF PendingShape, RecordReference
<1> QED BY <1>4, <1>5 DEF RecordReference

\* Every variable stays in its type, and a save under way keeps its shape.
THEOREM TypeInvariant == Spec => []TypeInv
<1>1. Init => TypeInv
  <2> SUFFICES ASSUME Init PROVE TypeInv
    OBVIOUS
  <2>2. PICK card \in InitialCards : path = card.path /\ backup = card.backup
    BY DEF Init
  <2>3. path \in Files \cup {Missing} /\ backup \in Files \cup {Missing}
    BY <2>2, SystemAssumption
  <2>4. LoadedSetup(path) \in Setups
    BY <2>3, SectionParts, SetupAssumption DEF LoadedSetup
  <2>5. request \in Requests /\ reply \in Replies
    BY NoValuesType, ZeroSeq DEF Init, Requests, Replies, LoadStatuses
  <2>6. launcher \in Launcher
    BY <2>4 DEF Init, Launcher
  <2>7. game \in Games /\ worker \in Workers /\ ~game.pending
    BY FreshTypes DEF Init, FreshGame
  <2>8. menu \in BOOLEAN /\ touched \subseteq Keys
    BY DEF Init
  <2>10. runs \in 0 .. MaxRuns
    BY SystemAssumption DEF Init
  <2>9. OffShape
    BY DEF Init, OffShape
  <2> QED BY <2>3, <2>5, <2>6, <2>7, <2>8, <2>9, <2>10
       DEF TypeInv, TypeOK, BlockTypeOK, KernelTypeOK, FileTypeOK, GameTypeOK, PendingShape
<1>2. TypeInv /\ [Next]_vars => TypeInv'
  <2> SUFFICES ASSUME TypeInv, [Next]_vars PROVE TypeInv'
    OBVIOUS
  <2> USE DEF TypeInv, TypeOK, BlockTypeOK, KernelTypeOK, FileTypeOK, GameTypeOK
  <2>1. ASSUME InLauncher PROVE TypeInv'
    <3>1. SectionOf(path) \in Sections \cup {Missing, Damaged}
      BY SectionParts
    <3>2. path' \in Files \cup {Missing} /\ launcher' \in Launcher /\ UNCHANGED backup
      BY <2>1, <3>1 DEF InLauncher, SaveSetup, WriteSetup, Launcher, Files, fileVars
    <3>3. ~Running /\ ~Running'
      BY <2>1 DEF InLauncher, SaveSetup, WriteSetup, Running, Launcher
    <3> QED BY <2>1, <3>2, <3>3 DEF InLauncher, blockVars, gameVars, PendingShape, OffShape
  <2>2. ASSUME Boot PROVE TypeInv'
    <3>1. Stored \in Sections \cup {Missing, Damaged}
      BY SectionParts DEF Stored, StoredIn
    <3>2. request' \in Requests /\ reply' \in Replies
      BY <2>2, <3>1, LoadedTypes DEF Boot
    <3>3. worker' \in Workers
      BY <2>2, FreshTypes DEF Boot, PreferencesInit
    <3>4. launcher' \in Launcher /\ UNCHANGED <<path, backup, game, menu, runs, touched>>
      BY <2>2 DEF Boot, LeaveLauncher, Launcher, fileVars, gameVars
    <3>5. ~game.pending /\ Running'
      BY <2>2 DEF Boot, LeaveLauncher, OffShape, Running, FreshGame, Launcher
    <3> QED BY <3>2, <3>3, <3>4, <3>5 DEF PendingShape, OffShape
  <2>3. ASSUME Kernel PROVE TypeInv'
    <3>1. path' \in Files \cup {Missing} /\ backup' \in Files \cup {Missing}
      BY <2>3 DEF Kernel, Service, WriteDraft, UnlinkBackup, KeepOriginal, Promote, Rollback,
                  Acknowledge, Workers, fileVars
    <3>2. worker' \in Workers /\ reply' \in Replies
      BY <2>3, KernelTypes DEF Kernel
    <3> QED BY <2>3, <3>1, <3>2
         DEF Kernel, Service, gameVars, PendingShape, OffShape, Running
  <2>4. ASSUME Frame PROVE TypeInv'
    <3>1. PICK open \in BOOLEAN, g \in Games :
            /\ Tick(open, g) /\ g.pending = game.pending
            /\ g.initialized = game.initialized /\ g.text = game.text
      <4>1. CASE Watch \/ ToggleMenu
        BY <4>1 DEF Watch, ToggleMenu
      <4>2. ASSUME NEW k \in Keys, NEW v \in Vals, Edit(k, v)
            PROVE  LET g == [game EXCEPT !.live[k] = v]
                   IN /\ menu \in BOOLEAN /\ g \in Games /\ Tick(menu, g)
                      /\ g.pending = game.pending
                      /\ g.initialized = game.initialized /\ g.text = game.text
        BY <4>2 DEF Edit, Games, Vectors
      <4> QED BY <2>4, <4>1, <4>2 DEF Frame, IdleFrame, MenuFrame
    <3>2. touched' \subseteq Keys
      BY <2>4 DEF Frame, IdleFrame, MenuFrame, Touch
    <3> QED BY <2>4, <3>1, <3>2, TickType DEF Frame, IdleFrame, MenuFrame, fileVars, OffShape, Running
  <2>5. ASSUME Recording PROVE TypeInv'
    <3>1. PICK k \in Keys, v \in Vals : RecordReference(k, v) /\ Touch(k)
      BY <2>5 DEF Recording
    <3> QED BY <2>5, <3>1, RecordType DEF Recording, Touch, fileVars, OffShape, Running
  <2>6. ASSUME Reset PROVE TypeInv'
    <3>1. runs' \in 0 .. MaxRuns
      BY <2>6, SystemAssumption DEF Reset
    <3>2. game' \in Games /\ ~game'.pending /\ menu' \in BOOLEAN
      BY <2>6, FreshTypes DEF Reset, FreshGame
    <3> QED BY <2>6, <3>1, <3>2 DEF Reset, fileVars, blockVars, PendingShape, OffShape, Running
  <2>7. ASSUME Restart PROVE TypeInv'
    <3>1. runs' \in 0 .. MaxRuns
      BY <2>7, SystemAssumption DEF Restart
    <3>2. game' \in Games /\ ~game'.pending /\ menu' \in BOOLEAN /\ worker' \in Workers
      BY <2>7, FreshTypes DEF Restart, Off, FreshGame
    <3>3. request' \in Requests /\ reply' \in Replies /\ ~reply'.ready
      BY <2>7, NoValuesType, ZeroSeq DEF Restart, Off, Requests, Replies, LoadStatuses
    <3>4. path' \in Files \cup {Missing} /\ launcher' \in Launcher /\ UNCHANGED backup
      BY <2>7, PowerOnTypes DEF Restart
    <3> QED BY <2>7, <3>1, <3>2, <3>3, <3>4 DEF Restart, Off, PendingShape, OffShape
  <2>8. CASE UNCHANGED vars
    BY <2>8 DEF vars, fileVars, blockVars, gameVars, PendingShape, OffShape, Running
  <2> QED BY <2>1, <2>2, <2>3, <2>4, <2>5, <2>6, <2>7, <2>8 DEF Next
<1> QED BY <1>1, <1>2, PTL DEF Spec

\* Every line, static, file and stage of the preferences stays in its range.
THEOREM TypeCorrect == Spec => []TypeOK
<1>1. TypeInv => TypeOK
  BY DEF TypeInv
<1> QED BY <1>1, TypeInvariant, PTL

-----------------------------------------------------------------------------
(* Whose the request line is.                                              *)

LEMMA InitializedLine ==
  ASSUME NEW g \in Games, NEW open \in BOOLEAN, g.pending => g.initialized,
         g.initialized => reply.ready /\ request.seq = g.seq
                          /\ (~g.pending => reply.ack = g.seq)
  PROVE  LET b == Initialized(g, open)
         IN b.initialized => reply.ready /\ request.seq = b.seq
                             /\ (~b.pending => reply.ack = b.seq)
<1>1. CASE MayInitialize(g, open)
  BY <1>1 DEF MayInitialize, Initialized, Adopted, Unloaded, Games
<1>2. CASE ~MayInitialize(g, open)
  BY <1>2 DEF Initialized
<1> QED BY <1>1, <1>2

LEMMA PublishLine ==
  ASSUME NEW g \in Games, Publish(g), UNCHANGED reply, 
         g.initialized => reply.ready /\ request.seq = g.seq
                          /\ (~g.pending => reply.ack = g.seq)
  PROVE  LineOwned'
<1>1. CASE LineFree(g) /\ game' = Sent(g)
           /\ request' = [seq |-> NextSeq(g.seq), values |-> g.desired]
  <2>1. game'.pending /\ game'.seq = NextSeq(g.seq)
    BY <1>1 DEF Sent, Games
  <2> QED BY <1>1, <2>1 DEF LineFree, LineOwned
<1>2. CASE game' = Dropped(g) /\ UNCHANGED request
  <2>1. game'.pending = g.pending /\ game'.seq = g.seq /\ game'.initialized = g.initialized
    BY <1>2 DEF Dropped, Games
  <2> QED BY <1>2, <2>1 DEF LineOwned
<1>3. CASE game' = g /\ UNCHANGED request
  BY <1>3 DEF LineOwned
<1> QED BY <1>1, <1>2, <1>3 DEF Publish

LEMMA PolledLine ==
  ASSUME NEW g \in Games, 
         g.initialized => reply.ready /\ request.seq = g.seq
                          /\ (~g.pending => reply.ack = g.seq)
  PROVE  LET p == Polled(g)
         IN p.initialized => reply.ready /\ request.seq = p.seq
                             /\ (~p.pending => reply.ack = p.seq)
BY DEF Polled, Games

LEMMA TickLine ==
  ASSUME TypeInv, NEW open \in BOOLEAN, NEW g \in Games, Tick(open, g), UNCHANGED reply,
         g.pending = game.pending, g.pending => g.initialized,
         g.initialized => reply.ready /\ request.seq = g.seq
                          /\ (~g.pending => reply.ack = g.seq)
  PROVE  LineOwned'
<1> DEFINE begun == Initialized(g, open)
           polled == IF begun.initialized
                     THEN IF g.wasOpen /\ ~open THEN Queue(Polled(begun)) ELSE Polled(begun)
                     ELSE begun
           last == [polled EXCEPT !.wasOpen = open, !.captured = TRUE]
           Line(h) == h.initialized => reply.ready /\ request.seq = h.seq
                                       /\ (~h.pending => reply.ack = h.seq)
<1>1. request \in Requests /\ (g.pending => request.values \in Vectors)
  BY DEF TypeInv, TypeOK, BlockTypeOK, PendingShape
<1>2. begun \in Games /\ Line(begun) /\ (begun.pending => request.values \in Vectors)
  BY <1>1, InitializedType, InitializedPending, InitializedLine
<1>3. Polled(begun) \in Games /\ Line(Polled(begun))
  BY <1>1, <1>2, PolledType, PolledLine
<1>4. Queue(Polled(begun)) \in Games /\ Line(Queue(Polled(begun)))
  BY <1>3, QueueType DEF Queue, Games
<1>5. polled \in Games /\ Line(polled)
  BY <1>2, <1>3, <1>4
<1>6. last \in Games /\ Line(last)
  <2> HIDE DEF polled
  <2> QED BY <1>5 DEF Games
<1>7. Publish(last)
  BY DEF Tick
<1> QED
  <2> HIDE DEF last
  <2> QED BY <1>6, <1>7, PublishLine

LEMMA RecordLine ==
  ASSUME TypeInv, LineOwned, NEW k \in Keys, NEW v \in Vals, RecordReference(k, v),
         UNCHANGED reply
  PROVE  LineOwned'
<1> DEFINE g == [game EXCEPT !.live[k] = v]
           begun == Initialized(g, menu)
           Line(h) == h.initialized => reply.ready /\ request.seq = h.seq
                                       /\ (~h.pending => reply.ack = h.seq)
<1>1. g \in Games /\ Line(g) /\ menu \in BOOLEAN /\ request \in Requests
      /\ (g.pending => g.initialized)
  BY DEF TypeInv, TypeOK, GameTypeOK, BlockTypeOK, PendingShape, LineOwned, Games, Vectors
<1>2. begun \in Games /\ Line(begun)
  <2> HIDE DEF g
  <2> QED BY <1>1, InitializedType, InitializedLine
<1>3. Queue(begun) \in Games /\ Line(Queue(begun))
  <2> HIDE DEF begun
  <2> QED BY <1>2, QueueType DEF Queue, Games
<1>4. CASE Publish(Queue(begun))
  <2> HIDE DEF begun
  <2> QED BY <1>3, <1>4, PublishLine
<1>5. CASE game' = begun /\ UNCHANGED request
  <2> HIDE DEF begun
  <2> QED BY <1>2, <1>5 DEF LineOwned
<1> QED BY <1>4, <1>5 DEF RecordReference

\* A process numbers its saves as the block does and never finds the line taken.
THEOREM LineIsOwned == Spec => []LineOwned
<1>1. Init => LineOwned
  BY DEF Init, LineOwned, FreshGame
<1>2. TypeInv /\ LineOwned /\ [Next]_vars => LineOwned'
  <2> SUFFICES ASSUME TypeInv, LineOwned, [Next]_vars PROVE LineOwned'
    OBVIOUS
  <2>0. game \in Games /\ menu \in BOOLEAN /\ (game.pending => game.initialized)
        /\ (~Running => ~game.initialized)
    BY DEF TypeInv, TypeOK, GameTypeOK, PendingShape, OffShape, FreshGame
  <2>1. CASE InLauncher
    BY <2>1 DEF InLauncher, LineOwned, blockVars, gameVars
  <2>2. CASE Boot
    <3>1. ~game'.initialized
      BY <2>0, <2>2 DEF Boot, LeaveLauncher, Running, gameVars
    <3> QED BY <3>1 DEF LineOwned
  <2>3. CASE Kernel
    BY <2>3 DEF Kernel, Service, WriteDraft, UnlinkBackup, KeepOriginal, Promote, Rollback,
                Acknowledge, LineOwned, gameVars, TypeInv, TypeOK, BlockTypeOK, Replies
  <2>4. CASE Frame
    <3>1. PICK open \in BOOLEAN, g \in Games :
            /\ Tick(open, g) /\ g.pending = game.pending
            /\ g.initialized = game.initialized /\ g.seq = game.seq
      <4>1. CASE Watch \/ ToggleMenu
        BY <2>0, <4>1 DEF Watch, ToggleMenu
      <4>2. ASSUME NEW k \in Keys, NEW v \in Vals, Edit(k, v)
            PROVE  LET g == [game EXCEPT !.live[k] = v]
                   IN /\ menu \in BOOLEAN /\ g \in Games /\ Tick(menu, g)
                      /\ g.pending = game.pending
                      /\ g.initialized = game.initialized /\ g.seq = game.seq
        BY <2>0, <4>2 DEF Edit, Games, Vectors
      <4> QED BY <2>4, <4>1, <4>2 DEF Frame, IdleFrame, MenuFrame
    <3>2. UNCHANGED reply
      BY <2>4 DEF Frame, IdleFrame, MenuFrame
    <3> QED BY <2>0, <3>1, <3>2, TickLine DEF LineOwned
  <2>5. CASE Recording
    <3>1. PICK k \in Keys, v \in Vals : RecordReference(k, v)
      BY <2>5 DEF Recording
    <3>2. UNCHANGED reply
      BY <2>5 DEF Recording
    <3> QED BY <2>0, <3>1, <3>2, RecordLine
  <2>6. CASE Reset \/ Restart
    BY <2>6 DEF Reset, Restart, Off, FreshGame, LineOwned
  <2>7. CASE UNCHANGED vars
    BY <2>7 DEF vars, blockVars, gameVars, LineOwned
  <2> QED BY <2>1, <2>2, <2>3, <2>4, <2>5, <2>6, <2>7 DEF Next
<1> QED BY <1>1, <1>2, TypeInvariant, PTL DEF Spec

-----------------------------------------------------------------------------
(* The card.  One lemma: what a step of the save does to the invariant and *)
(* to the register.                                                        *)

LEMMA Replaced ==
  ASSUME TypeInv, SaveInv, Service
  PROVE  /\ SaveInv'
         /\ \/ /\ ~At("ACK") /\ ~(At("ACK")' /\ worker'.status = "OK")
               /\ Stored' = Stored /\ reply' = reply
            \/ /\ At("PROMOTE") /\ At("ACK")' /\ worker'.status = "OK"
               /\ Stored' = request.values /\ reply' = reply
            \/ /\ At("ACK") /\ Stored' = Stored
               /\ reply' = [reply EXCEPT !.ack = request.seq, !.status = worker.status]
<1> USE DEF SaveInv, SaveShape, AnswerTrue, At
<1>0. UNCHANGED request /\ worker \in Workers /\ reply \in Replies /\ request \in Requests
      /\ path \in Files \cup {Missing} /\ backup \in Files \cup {Missing}
  BY DEF Service, TypeInv, TypeOK, BlockTypeOK, KernelTypeOK, FileTypeOK
<1>1. CASE WriteDraft
  <2>1. Stored' = Stored /\ UNCHANGED <<path, backup, reply>> /\ Pending
        /\ worker.stage = "IDLE"
    BY <1>0, <1>1 DEF WriteDraft, Stored, StoredIn
  <2>2. worker'.stage \in {"UNLINK", "PROMOTE", "ACK"}
        /\ (worker'.stage = "UNLINK" => path # Missing)
        /\ (worker'.stage = "PROMOTE" => path = Missing)
        /\ (worker'.stage = "ACK" => worker'.status # "OK")
        /\ (worker'.stage # "ACK" => worker'.draft.section = request.values)
    <3>1. Draft.section = request.values
      BY DEF Draft
    <3>2. CASE Finish("IO_ERROR")
      BY <1>0, <3>2 DEF Finish, Workers
    <3>3. ASSUME worker' = [stage |-> IF path # Missing THEN "UNLINK" ELSE "PROMOTE",
                            original |-> path # Missing, draft |-> Draft, status |-> "OK"]
          PROVE  /\ worker'.stage = IF path # Missing THEN "UNLINK" ELSE "PROMOTE"
                 /\ worker'.draft = Draft
      BY <3>3
    <3> QED BY <1>1, <3>1, <3>2, <3>3 DEF WriteDraft
  <2> QED BY <1>0, <2>1, <2>2 DEF Pending
<1>2. CASE UnlinkBackup
  <2>1. CASE backup' = Missing /\ Continue("KEEP")
    <3>1. worker'.stage = "KEEP" /\ worker'.draft = worker.draft
      BY <1>0, <2>1 DEF Continue, Workers
    <3>2. Stored' = Stored
      BY <1>2, <2>1 DEF UnlinkBackup, Stored, StoredIn, Settled, SectionOf
    <3> QED BY <1>0, <1>2, <2>1, <3>1, <3>2 DEF UnlinkBackup, Pending, Settled, SectionOf
  <2>2. CASE Finish("IO_ERROR") /\ UNCHANGED backup
    <3>1. worker'.stage = "ACK" /\ worker'.status = "IO_ERROR"
      BY <1>0, <2>2 DEF Finish, Workers
    <3> QED BY <1>0, <1>2, <2>2, <3>1 DEF UnlinkBackup, Pending, Stored
  <2> QED BY <1>2, <2>1, <2>2 DEF UnlinkBackup
<1>3. CASE KeepOriginal
  <2>1. CASE backup' = path /\ path' = Missing /\ Continue("PROMOTE")
    <3>1. worker'.stage = "PROMOTE" /\ worker'.draft = worker.draft
      BY <1>0, <2>1 DEF Continue, Workers
    <3>2. Stored' = Stored
      BY <1>3, <2>1 DEF KeepOriginal, Stored, StoredIn, SectionOf
    <3> QED BY <1>0, <1>3, <2>1, <3>1, <3>2 DEF KeepOriginal, Pending, Settled
  <2>2. CASE Finish("IO_ERROR") /\ UNCHANGED fileVars
    <3>1. worker'.stage = "ACK" /\ worker'.status = "IO_ERROR"
      BY <1>0, <2>2 DEF Finish, Workers
    <3> QED BY <1>0, <1>3, <2>2, <3>1 DEF KeepOriginal, Pending, Stored, fileVars
  <2> QED BY <1>3, <2>1, <2>2 DEF KeepOriginal
<1>4. CASE Promote
  <2>1. CASE path' = worker.draft /\ Finish("OK")
    <3>1. worker'.stage = "ACK" /\ worker'.status = "OK"
      BY <1>0, <2>1 DEF Finish, Workers
    <3>2. path' # Missing /\ SectionOf(path') = request.values /\ request.values # Missing
      BY <1>0, <1>4, <2>1, FileAssumption, SectionAssumption
         DEF Promote, Workers, SectionOf, Requests
    <3>3. Stored' = request.values
      BY <3>2 DEF Stored, StoredIn
    <3> QED BY <1>0, <1>4, <2>1, <3>1, <3>2, <3>3 DEF Promote, Pending, Settled
  <2>2. CASE UNCHANGED path /\ (Continue("ROLLBACK") \/ Finish("IO_ERROR"))
    <3>1. worker'.stage = "ROLLBACK" \/ (worker'.stage = "ACK" /\ worker'.status = "IO_ERROR")
      BY <1>0, <2>2 DEF Finish, Continue, Workers
    <3> QED BY <1>0, <1>4, <2>2, <3>1 DEF Promote, Pending, Stored
  <2> QED BY <1>4, <2>1, <2>2 DEF Promote
<1>5. CASE Rollback
  <2>1. worker'.stage = "ACK" /\ worker'.status = "IO_ERROR"
    BY <1>0, <1>5 DEF Rollback, Finish, Workers
  <2>2. CASE path' = backup /\ backup' = Missing
    <3>1. Stored' = Stored
      BY <1>5, <2>2 DEF Rollback, Stored, StoredIn, SectionOf
    <3> QED BY <1>0, <1>5, <2>1, <2>2, <3>1 DEF Rollback, Pending, Settled, SectionOf
  <2>3. CASE UNCHANGED fileVars
    BY <1>0, <1>5, <2>1, <2>3 DEF Rollback, Pending, Stored, fileVars
  <2> QED BY <1>5, <2>2, <2>3 DEF Rollback
<1>6. CASE Acknowledge
  <2>1. reply'.ack = request.seq /\ reply'.status = worker.status /\ worker'.stage = "IDLE"
    BY <1>0, <1>6 DEF Acknowledge, IdleWorker, Replies
  <2>2. Stored' = Stored
    BY <1>6 DEF Acknowledge, Stored, fileVars
  <2> QED BY <1>0, <1>6, <2>1, <2>2 DEF Acknowledge, Pending, fileVars
<1> QED BY <1>1, <1>2, <1>3, <1>4, <1>5, <1>6 DEF Service

LEMMA PublishSave ==
  ASSUME SaveInv, TypeInv, NEW g \in Games, Publish(g),
         UNCHANGED <<path, backup, reply, worker>>
  PROVE  /\ SaveInv' /\ Stored' = Stored
         /\ \/ UNCHANGED request
            \/ ~Pending /\ Pending' /\ request' \in Requests
<1>1. Stored' = Stored /\ (Settled(path, backup) => Settled(path, backup)')
  BY DEF Stored, Settled
<1>2. CASE UNCHANGED request
  BY <1>1, <1>2 DEF SaveInv, SaveShape, AnswerTrue, Pending, At
<1>3. CASE LineFree(g) /\ request' = [seq |-> NextSeq(g.seq), values |-> g.desired]
  <2>1. ~Pending /\ At("IDLE")
    BY <1>3 DEF LineFree, Pending, SaveInv, SaveShape
  <2>2. request'.seq # reply.ack /\ request' \in Requests
    BY <1>3, NextSeqIsNew, VectorsAreSections DEF LineFree, Games, Requests
  <2>3. Pending'
    BY <1>3, <2>2 DEF LineFree, Pending
  <2> QED BY <1>1, <2>1, <2>2, <2>3 DEF SaveInv, SaveShape, AnswerTrue, At
<1> QED BY <1>2, <1>3 DEF Publish

LEMMA GameSave ==
  ASSUME SaveInv, TypeInv, Frame \/ Recording
  PROVE  /\ SaveInv' /\ Stored' = Stored
         /\ \/ UNCHANGED request
            \/ ~Pending /\ Pending' /\ request' \in Requests
<1>0. game \in Games /\ menu \in BOOLEAN /\ UNCHANGED <<path, backup, reply, worker>>
  BY DEF TypeInv, TypeOK, GameTypeOK, Frame, IdleFrame, MenuFrame, Recording, fileVars
<1>1. CASE Frame
  <2>1. CASE Watch \/ ToggleMenu
    BY <1>0, <2>1, TickType, PublishSave DEF Watch, ToggleMenu
  <2>2. ASSUME NEW k \in Keys, NEW v \in Vals, Edit(k, v)
        PROVE  \E h \in Games : Publish(h)
    <3> DEFINE g == [game EXCEPT !.live[k] = v]
    <3>1. g \in Games /\ Tick(menu, g) /\ g.pending = game.pending
          /\ g.initialized = game.initialized /\ g.text = game.text
      BY <1>0, <2>2 DEF Edit, Games, Vectors
    <3> HIDE DEF g
    <3> QED BY <1>0, <3>1, TickType
  <2> QED BY <1>0, <1>1, <2>1, <2>2, PublishSave DEF Frame, IdleFrame, MenuFrame
<1>2. CASE Recording
  <2>1. PICK k \in Keys, v \in Vals : RecordReference(k, v)
    BY <1>2 DEF Recording
  <2>2. CASE UNCHANGED request
    BY <1>0, <2>2 DEF SaveInv, SaveShape, AnswerTrue, Pending, At, Stored, Settled
  <2> QED BY <1>0, <2>1, <2>2, RecordType, PublishSave
<1> QED BY <1>1, <1>2

LEMMA BootSave ==
  ASSUME TypeInv, SaveInv, Boot
  PROVE  /\ SaveInv' /\ Stored' = Stored /\ ~Pending' /\ At("IDLE")'
         /\ reply'.status = "OK" => request'.values = Stored
<1>1. UNCHANGED <<path, backup>> /\ worker' = IdleWorker
  BY DEF Boot, PreferencesInit, fileVars
<1>2. Stored' = Stored /\ Settled(path, backup)'
  BY <1>1 DEF Stored, SaveInv, Settled
<1>3. reply'.ack = 0 /\ request'.seq = 0
  BY DEF Boot, PreferencesInit, Loaded
<1>4. reply'.status = "OK" => request'.values = Stored
  BY DEF Boot, PreferencesInit, Loaded
<1> QED BY <1>1, <1>2, <1>3, <1>4
     DEF SaveInv, SaveShape, AnswerTrue, Pending, At, IdleWorker

LEMMA RestartSave ==
  ASSUME TypeInv, SaveInv, Restart, launcher.stage # "WRITING"
  PROVE  SaveInv' /\ Stored' = Stored /\ ~Pending' /\ At("IDLE")'
         /\ reply'.status = "UNAVAILABLE"
<1>1. UNCHANGED <<path, backup>> /\ worker' = IdleWorker /\ ~reply'.ready
      /\ reply'.status = "UNAVAILABLE"
  BY DEF Restart, PowerOn, Torn, Off
<1> QED BY <1>1 DEF SaveInv, SaveShape, AnswerTrue, Pending, At, IdleWorker, Stored, Settled

LEMMA InitSave == Init => SaveInv
<1> SUFFICES ASSUME Init PROVE SaveInv
  OBVIOUS
<1>1. Settled(path, backup)
  BY SystemAssumption DEF Init
<1> QED BY <1>1 DEF Init, SaveInv, SaveShape, AnswerTrue, Pending, At, IdleWorker

\* The launcher is not rewriting the file, and a save leaves it in order.
CardInv == SaveInv /\ launcher.stage # "WRITING"

\* Whatever step a power cut or a failing call strikes, the file can be put
\* together again, and what an answer says is so.
THEOREM SaveIsSafe ==
  ASSUME ~LauncherWrites
  PROVE  Spec => []CardInv
<1>1. Init => CardInv
  BY InitSave DEF Init, CardInv
<1>2. TypeInv /\ CardInv /\ [Next]_vars => CardInv'
  <2> SUFFICES ASSUME TypeInv, CardInv, [Next]_vars PROVE CardInv'
    OBVIOUS
  <2> USE DEF CardInv
  <2>1. ~InLauncher
    BY DEF InLauncher, SaveSetup, WriteSetup
  <2>2. CASE Boot
    BY <2>2, BootSave DEF Boot, LeaveLauncher, TypeInv, TypeOK, KernelTypeOK, FileTypeOK, Launcher
  <2>3. CASE Kernel
    BY <2>3, Replaced DEF Kernel, Service
  <2>4. CASE Frame \/ Recording
    BY <2>4, GameSave DEF Frame, IdleFrame, MenuFrame, Recording
  <2>5. CASE Restart
    BY <2>5, RestartSave DEF Restart, PowerOn
  <2>6. CASE Reset \/ UNCHANGED vars
    BY <2>6 DEF Reset, vars, fileVars, blockVars, SaveInv, SaveShape, AnswerTrue, Pending, At,
                Stored, Settled
  <2> QED BY <2>1, <2>2, <2>3, <2>4, <2>5, <2>6 DEF Next
<1> QED BY <1>1, <1>2, TypeInvariant, PTL DEF Spec

-----------------------------------------------------------------------------
(* Saving implements the register.                                         *)

LEMMA RegisterStep ==
  ASSUME TypeInv, SaveInv, [Next]_vars,
         InLauncher => Stored' = Stored, Restart => launcher.stage # "WRITING"
  PROVE  [Register!RegisterNext]_(Register!vars)
<1> DEFINE asked == IF Pending THEN request.values ELSE Missing
           done == At("ACK") /\ worker.status = "OK"
           told == IF ~Pending /\ reply.status = "OK" THEN request.values ELSE Missing
<1> USE DEF Register!RegisterNext, Register!vars
<1>0. request \in Requests /\ request.values \in Sections /\ request.values # Missing
  BY SectionAssumption DEF TypeInv, TypeOK, BlockTypeOK, Requests
<1>1. CASE InLauncher
  BY <1>1 DEF InLauncher, blockVars, Pending, At
<1>2. CASE Boot
  <2>1. ~Pending' /\ At("IDLE")' /\ Stored' = Stored
        /\ (reply'.status = "OK" => request'.values = Stored)
    BY <1>2, BootSave
  <2>2. Register!Boot
    BY <2>1 DEF Register!Boot, At
  <2> QED BY <2>2
<1>3. CASE Restart
  <2>1. ~Pending' /\ At("IDLE")' /\ Stored' = Stored /\ reply'.status = "UNAVAILABLE"
    BY <1>3, RestartSave
  <2>2. Register!Boot
    BY <2>1 DEF Register!Boot, At
  <2> QED BY <2>2
<1>4. CASE Kernel
  <2>1. Service /\ UNCHANGED request
    BY <1>4 DEF Kernel, Service
  <2>2. CASE At("PROMOTE") /\ At("ACK")' /\ worker'.status = "OK"
             /\ Stored' = request.values /\ reply' = reply
    <3>1. Pending /\ Pending' /\ ~At("ACK")
      BY <2>1, <2>2 DEF SaveInv, SaveShape, Pending, At
    <3>2. Register!Store
      BY <1>0, <2>1, <2>2, <3>1 DEF Register!Store
    <3> QED BY <3>2
  <2>3. CASE At("ACK") /\ Stored' = Stored
             /\ reply' = [reply EXCEPT !.ack = request.seq, !.status = worker.status]
    <3>1. Pending /\ ~Pending' /\ reply'.status = worker.status /\ At("IDLE")'
      BY <2>1, <2>3
         DEF SaveInv, SaveShape, Pending, At, Service, Acknowledge, WriteDraft, UnlinkBackup,
             KeepOriginal, Promote, Rollback, IdleWorker, TypeInv, TypeOK, BlockTypeOK, Replies
    <3>2. Register!Answer
      BY <1>0, <2>1, <2>3, <3>1 DEF Register!Answer, SaveInv, AnswerTrue, At
    <3> QED BY <3>2
  <2>4. CASE ~At("ACK") /\ ~(At("ACK")' /\ worker'.status = "OK")
             /\ Stored' = Stored /\ reply' = reply
    <3>1. UNCHANGED <<Stored, asked, told, done>>
      BY <2>1, <2>4 DEF Pending, At
    <3> QED BY <3>1
  <2> QED BY <2>1, <2>2, <2>3, <2>4, Replaced
<1>5. CASE Frame \/ Recording
  <2>1. UNCHANGED <<reply, worker>> /\ Stored' = Stored
    BY <1>5, GameSave DEF Frame, IdleFrame, MenuFrame, Recording
  <2>2. CASE UNCHANGED request
    BY <2>1, <2>2 DEF Pending, At
  <2>3. CASE ~Pending /\ Pending' /\ request' \in Requests
    <3>1. request'.values \in Sections /\ request'.values # Missing
      BY <2>3, SectionAssumption DEF Requests
    <3>2. Register!Ask
      BY <2>1, <2>3, <3>1 DEF Register!Ask, At
    <3> QED BY <3>2
  <2> QED BY <1>5, <2>2, <2>3, GameSave
<1>6. CASE Reset \/ UNCHANGED vars
  BY <1>6 DEF Reset, vars, fileVars, blockVars, Stored, Pending, At
<1> QED BY <1>1, <1>2, <1>3, <1>4, <1>5, <1>6 DEF Next

\* The replacement of the configuration file is atomic: saving implements the
\* register for every fault and power cut.
THEOREM ReplacementIsAtomic ==
  ASSUME ~LauncherWrites
  PROVE  Spec => RegisterImplemented
<1>1. Init => Register!RegisterInit
  BY DEF Init, Register!RegisterInit, Pending, At, IdleWorker
<1>2. TypeInv /\ CardInv /\ [Next]_vars => [Register!RegisterNext]_(Register!vars)
  <2>1. CardInv => ~InLauncher
    BY DEF InLauncher, SaveSetup, WriteSetup, CardInv
  <2> QED BY <2>1, RegisterStep DEF CardInv
<1> QED BY <1>1, <1>2, TypeInvariant, SaveIsSafe, PTL
        DEF Spec, RegisterImplemented, Register!RegisterSpec

-----------------------------------------------------------------------------
(* What the player is told.                                                *)

\* A process that shows SAVED waits for nothing and holds what is stored.
Saved(g) == g.text = "SAVED" => g.initialized /\ ~g.pending /\ Stored = g.baseline

SavedInv == Saved(game)

LEMMA InitializedSaved ==
  ASSUME NEW g \in Games, NEW open \in BOOLEAN, Saved(g), g.pending => g.initialized
  PROVE  Saved(Initialized(g, open))
<1>1. CASE MayInitialize(g, open)
  <2>1. Adopted(g).text = "LOADED" /\ Unloaded(g).text \in {"NEW", "FAILED"}
    BY DEF Adopted, Unloaded, Games
  <2> QED BY <1>1, <2>1 DEF Initialized, Saved
<1>2. CASE ~MayInitialize(g, open)
  BY <1>2 DEF Initialized
<1> QED BY <1>1, <1>2

\* The answer to the save that is out says whether its values are stored.
LEMMA PolledSaved ==
  ASSUME NEW g \in Games, Saved(g), AnswerTrue, g.pending => g.initialized,
         g.initialized => reply.ready /\ request.seq = g.seq
  PROVE  Saved(Polled(g))
<1>1. CASE g.pending /\ reply.ack = g.seq /\ reply.status = "OK"
  <2>1. Stored = request.values
    BY <1>1 DEF AnswerTrue, Pending
  <2>2. Polled(g).baseline = request.values /\ ~Polled(g).pending /\ Polled(g).initialized
    BY <1>1 DEF Polled, Games
  <2> QED BY <2>1, <2>2 DEF Saved
<1>2. CASE g.pending /\ reply.ack = g.seq /\ reply.status # "OK"
  <2>1. Polled(g).text = "FAILED"
    BY <1>2 DEF Polled, Games
  <2> QED BY <2>1 DEF Saved
<1>3. CASE ~g.pending \/ reply.ack # g.seq
  BY <1>3 DEF Polled
<1> QED BY <1>1, <1>2, <1>3

LEMMA PublishSaved ==
  ASSUME NEW g \in Games, Saved(g), Publish(g), Stored' = Stored
  PROVE  SavedInv'
<1>1. CASE game' = Sent(g)
  <2>1. game'.text = "SAVING"
    BY <1>1 DEF Sent, Games
  <2> QED BY <2>1 DEF Saved, SavedInv
<1>2. CASE game' = Dropped(g)
  <2>1. game'.text \in {"FAILED", g.text} /\ game'.pending = g.pending
        /\ game'.baseline = g.baseline /\ game'.initialized = g.initialized
    BY <1>2 DEF Dropped, Games
  <2> QED BY <2>1 DEF Saved, SavedInv
<1>3. CASE game' = g
  BY <1>3 DEF Saved, SavedInv
<1> QED BY <1>1, <1>2, <1>3 DEF Publish

LEMMA TickSaved ==
  ASSUME TypeInv, AnswerTrue, Stored' = Stored,
         NEW open \in BOOLEAN, NEW g \in Games, Tick(open, g), Saved(g),
         g.pending = game.pending, g.pending => g.initialized,
         g.initialized => reply.ready /\ request.seq = g.seq
                          /\ (~g.pending => reply.ack = g.seq)
  PROVE  SavedInv'
<1> DEFINE begun == Initialized(g, open)
           polled == IF begun.initialized
                     THEN IF g.wasOpen /\ ~open THEN Queue(Polled(begun)) ELSE Polled(begun)
                     ELSE begun
           last == [polled EXCEPT !.wasOpen = open, !.captured = TRUE]
<1>1. request \in Requests /\ (g.pending => request.values \in Vectors)
  BY DEF TypeInv, TypeOK, BlockTypeOK, PendingShape
<1>2. begun \in Games /\ Saved(begun) /\ (begun.pending => request.values \in Vectors)
      /\ (begun.pending => begun.initialized)
      /\ (begun.initialized => reply.ready /\ request.seq = begun.seq)
  BY <1>1, InitializedType, InitializedPending, InitializedLine, InitializedSaved
<1>3. Polled(begun) \in Games /\ Saved(Polled(begun))
  BY <1>1, <1>2, PolledType, PolledSaved
<1>4. Queue(Polled(begun)) \in Games /\ Saved(Queue(Polled(begun)))
  BY <1>3, QueueType DEF Queue, Games, Saved
<1>5. polled \in Games /\ Saved(polled)
  BY <1>2, <1>3, <1>4
<1>6. last \in Games /\ Saved(last)
  <2> HIDE DEF polled
  <2> QED BY <1>5 DEF Games, Saved
<1>7. Publish(last)
  BY DEF Tick
<1> QED
  <2> HIDE DEF last
  <2> QED BY <1>6, <1>7, PublishSaved

LEMMA RecordSaved ==
  ASSUME TypeInv, SavedInv, Stored' = Stored, NEW k \in Keys, NEW v \in Vals,
         RecordReference(k, v)
  PROVE  SavedInv'
<1> DEFINE g == [game EXCEPT !.live[k] = v]
           begun == Initialized(g, menu)
<1>1. g \in Games /\ Saved(g) /\ menu \in BOOLEAN /\ request \in Requests
      /\ (g.pending => g.initialized)
  BY DEF TypeInv, TypeOK, GameTypeOK, BlockTypeOK, PendingShape, SavedInv, Saved, Games, Vectors
<1>2. begun \in Games /\ Saved(begun)
  <2> HIDE DEF g
  <2> QED BY <1>1, InitializedType, InitializedSaved
<1>3. Queue(begun) \in Games /\ Saved(Queue(begun))
  <2> HIDE DEF begun
  <2> QED BY <1>2, QueueType DEF Queue, Games, Saved
<1>4. CASE Publish(Queue(begun))
  <2> HIDE DEF begun
  <2> QED BY <1>3, <1>4, PublishSaved
<1>5. CASE game' = begun
  <2> HIDE DEF begun
  <2> QED BY <1>2, <1>5 DEF SavedInv, Saved
<1> QED BY <1>4, <1>5 DEF RecordReference

LEMMA SavedStep ==
  ASSUME TypeInv, LineOwned, SaveInv, SavedInv, [Next]_vars,
         InLauncher => Stored' = Stored, Restart => launcher.stage # "WRITING"
  PROVE  SavedInv'
<1>0. game \in Games /\ menu \in BOOLEAN /\ (game.pending => game.initialized)
      /\ (~Running => ~game.initialized) /\ AnswerTrue
  BY DEF TypeInv, TypeOK, GameTypeOK, PendingShape, OffShape, FreshGame, SaveInv
<1>1. CASE InLauncher
  BY <1>1 DEF InLauncher, gameVars, SavedInv, Saved
<1>2. CASE Boot
  <2>1. ~game.initialized /\ UNCHANGED game
    BY <1>0, <1>2 DEF Boot, LeaveLauncher, Running, gameVars
  <2> QED BY <2>1 DEF SavedInv, Saved
<1>3. CASE Kernel
  <2>1. Service /\ UNCHANGED game
    BY <1>3 DEF Kernel, gameVars
  <2>2. Pending
    BY <2>1 DEF Service, WriteDraft, UnlinkBackup, KeepOriginal, Promote, Rollback,
                Acknowledge, SaveInv, SaveShape, At
  <2> QED BY <2>1, <2>2 DEF SavedInv, Saved, LineOwned, Pending
<1>4. CASE Frame
  <2>1. PICK open \in BOOLEAN, g \in Games :
          /\ Tick(open, g) /\ g.pending = game.pending /\ Saved(g)
          /\ g.initialized = game.initialized /\ g.seq = game.seq
    <3>1. CASE Watch \/ ToggleMenu
      BY <1>0, <3>1 DEF Watch, ToggleMenu, SavedInv
    <3>2. ASSUME NEW k \in Keys, NEW v \in Vals, Edit(k, v)
          PROVE  LET g == [game EXCEPT !.live[k] = v]
                 IN /\ menu \in BOOLEAN /\ g \in Games /\ Tick(menu, g) /\ Saved(g)
                    /\ g.pending = game.pending
                    /\ g.initialized = game.initialized /\ g.seq = game.seq
      BY <1>0, <3>2 DEF Edit, Games, Vectors, SavedInv, Saved
    <3> QED BY <1>4, <3>1, <3>2 DEF Frame, IdleFrame, MenuFrame
  <2>2. Stored' = Stored
    BY <1>4, GameSave
  <2> QED BY <1>0, <2>1, <2>2, TickSaved DEF LineOwned
<1>5. CASE Recording
  <2>1. PICK k \in Keys, v \in Vals : RecordReference(k, v)
    BY <1>5 DEF Recording
  <2>2. Stored' = Stored
    BY <1>5, GameSave
  <2> QED BY <2>1, <2>2, RecordSaved
<1>6. CASE Reset \/ Restart
  BY <1>6 DEF Reset, Restart, Off, FreshGame, SavedInv, Saved
<1>7. CASE UNCHANGED vars
  BY <1>7 DEF vars, fileVars, gameVars, SavedInv, Saved, Stored
<1> QED BY <1>1, <1>2, <1>3, <1>4, <1>5, <1>6, <1>7 DEF Next

LEMMA SavedStart == Init => SavedInv
BY DEF Init, SavedInv, Saved, FreshGame

\* "SETTINGS: SAVED TO SD" is shown only while a boot would load those settings.
THEOREM SavedIsStored ==
  ASSUME ~LauncherWrites
  PROVE  Spec => []SavedMeansStored
<1>1. Init => SavedInv
  BY SavedStart
<1>2. TypeInv /\ LineOwned /\ CardInv /\ SavedInv /\ [Next]_vars => SavedInv'
  <2>1. CardInv => ~InLauncher
    BY DEF InLauncher, SaveSetup, WriteSetup, CardInv
  <2> QED BY <2>1, SavedStep DEF CardInv
<1>3. SavedInv => SavedMeansStored
  BY DEF SavedInv, Saved, SavedMeansStored
<1> QED BY <1>1, <1>2, <1>3, TypeInvariant, LineIsOwned, SaveIsSafe, PTL DEF Spec
-----------------------------------------------------------------------------
(* What a save leaves alone: the words the player never changed.  A file   *)
(* call that fails while loading makes the mod run on defaults, and the    *)
(* next change saves all of them, so that file calls succeed is assumed.   *)

\* No answer is a failure but at the start, and then nothing is stored.
FaultFree ==
  /\ ~At("ROLLBACK") /\ (At("ACK") => worker.status = "OK")
  /\ reply.ready /\ ~Pending /\ reply.status # "OK" => Stored \notin Sections

Holds(k) == Stored \in Sections /\ k \in DOMAIN Stored

\* What is asked for, and what a process holds, agrees in some words with
\* what is stored.
RequestAgrees(words) == \A k \in words : Pending /\ Holds(k) => request.values[k] = Stored[k]

WordsAgree(g, words) ==
  \A k \in words :
    /\ ~g.initialized => g.live[k] = g.baseline[k]
    /\ g.initialized =>
         /\ Holds(k) => g.live[k] = Stored[k]
         /\ Pending => request.values[k] = g.live[k]
         /\ g.queued => g.desired[k] = g.live[k]

WordsInv ==
  FaultFree /\ RequestAgrees(Keys \ touched) /\ WordsAgree(game, Keys \ touched)

LEMMA InitializedWords ==
  ASSUME NEW g \in Games, NEW open \in BOOLEAN, NEW words \in SUBSET Keys, FaultFree, AnswerTrue,
         request \in Requests, WordsAgree(g, words)
  PROVE  WordsAgree(Initialized(g, open), words)
<1>1. CASE MayInitialize(g, open) /\ reply.status = "OK"
  <2>1. ~g.initialized /\ ~Pending /\ Stored = request.values /\ Stored \in Sections
    BY <1>1 DEF MayInitialize, AnswerTrue, Pending, Requests
  <2>2. /\ Adopted(g).initialized /\ Adopted(g).live = Merged(request.values, g)
        /\ Adopted(g).queued => Adopted(g).desired = Adopted(g).live
    BY DEF Adopted, Games
  <2>3. ASSUME NEW k \in words, k \in DOMAIN Stored
        PROVE  Adopted(g).live[k] = Stored[k]
    <3>1. k \in Keys /\ k \notin Changed(g)
      BY <2>1 DEF WordsAgree, Changed
    <3> QED BY <2>1, <2>2, <2>3, <3>1 DEF Merged, Applied
  <2>4. WordsAgree(Adopted(g), words)
    BY <2>1, <2>2, <2>3 DEF WordsAgree, Holds
  <2> QED BY <1>1, <2>4 DEF Initialized
<1>2. CASE MayInitialize(g, open) /\ reply.status # "OK"
  <2>1. ~Pending /\ Stored \notin Sections
    BY <1>2 DEF MayInitialize, FaultFree, Pending
  <2>2. /\ Unloaded(g).initialized /\ Unloaded(g).live = g.live
        /\ Unloaded(g).queued => Unloaded(g).desired = g.live
    BY DEF Unloaded, Games
  <2>3. WordsAgree(Unloaded(g), words)
    BY <2>1, <2>2 DEF WordsAgree, Holds
  <2> QED BY <1>2, <2>3 DEF Initialized
<1>3. CASE ~MayInitialize(g, open)
  BY <1>3 DEF Initialized
<1> QED BY <1>1, <1>2, <1>3

LEMMA PolledWords ==
  ASSUME NEW g \in Games, NEW words, WordsAgree(g, words), g.pending => g.initialized
  PROVE  WordsAgree(Polled(g), words)
<1>1. /\ Polled(g).live = g.live /\ Polled(g).initialized = g.initialized
      /\ Polled(g).queued = g.queued /\ Polled(g).desired = g.desired
      /\ ~g.initialized => Polled(g).baseline = g.baseline
  BY DEF Polled, Games
<1> QED BY <1>1 DEF WordsAgree

LEMMA QueueWords ==
  ASSUME NEW g \in Games, NEW words, WordsAgree(g, words)
  PROVE  WordsAgree(Queue(g), words)
<1>1. /\ Queue(g).live = g.live /\ Queue(g).initialized = g.initialized
      /\ Queue(g).baseline = g.baseline /\ Queue(g).desired = g.live
  BY DEF Queue, Games
<1> QED BY <1>1 DEF WordsAgree

\* A save that is sent is of words that agree with those held.
LEMMA PublishWords ==
  ASSUME NEW g \in Games, NEW words, Publish(g), WordsAgree(g, words), RequestAgrees(words),
         FaultFree, UNCHANGED <<path, backup, reply, worker>>
  PROVE  FaultFree' /\ RequestAgrees(words)' /\ WordsAgree(game, words)'
<1>0. Stored' = Stored /\ (\A k : Holds(k)' <=> Holds(k))
  BY DEF Stored, Holds
<1>1. CASE MayPublish(g) /\ NeedsSave(g) /\ LineFree(g) /\ game' = Sent(g)
           /\ request' = [seq |-> NextSeq(g.seq), values |-> g.desired]
  <2>1. g.initialized /\ g.queued /\ request'.values = g.desired /\ ~Pending
    BY <1>1 DEF MayPublish, LineFree, Pending
  <2>2. Pending'
    BY <1>1, NextSeqIsNew DEF LineFree, Pending, Games
  <2>3. /\ game'.initialized /\ ~game'.queued
        /\ game'.live = g.live /\ game'.desired = g.desired
    BY <1>1, <2>1 DEF Sent, Games
  <2>4. RequestAgrees(words)' /\ WordsAgree(game, words)'
    BY <1>0, <2>1, <2>3 DEF RequestAgrees, WordsAgree
  <2> QED BY <1>0, <2>2, <2>4 DEF FaultFree, At
<1>2. CASE UNCHANGED request /\ (game' = Dropped(g) \/ game' = g)
  <2>1. /\ game'.live = g.live /\ game'.initialized = g.initialized
        /\ game'.baseline = g.baseline /\ game'.desired = g.desired
        /\ game'.queued => g.queued
    BY <1>2 DEF Dropped, Games
  <2>2. Pending' <=> Pending
    BY <1>2 DEF Pending
  <2>3. WordsAgree(game, words)'
    BY <1>0, <1>2, <2>1, <2>2 DEF WordsAgree
  <2> QED BY <1>0, <1>2, <2>2, <2>3 DEF FaultFree, RequestAgrees, At
<1> QED BY <1>1, <1>2 DEF Publish

LEMMA TickWords ==
  ASSUME TypeInv, LineOwned, FaultFree, AnswerTrue, NEW words \in SUBSET Keys, RequestAgrees(words),
         UNCHANGED <<path, backup, reply, worker>>,
         NEW open \in BOOLEAN, NEW g \in Games, Tick(open, g), WordsAgree(g, words),
         g.pending = game.pending, g.initialized = game.initialized
  PROVE  FaultFree' /\ RequestAgrees(words)' /\ WordsAgree(game, words)'
<1> DEFINE begun == Initialized(g, open)
           polled == IF begun.initialized
                     THEN IF g.wasOpen /\ ~open THEN Queue(Polled(begun)) ELSE Polled(begun)
                     ELSE begun
           last == [polled EXCEPT !.wasOpen = open, !.captured = TRUE]
<1>1. request \in Requests /\ (g.pending => g.initialized /\ request.values \in Vectors)
  BY DEF TypeInv, TypeOK, BlockTypeOK, PendingShape
<1>2. begun \in Games /\ WordsAgree(begun, words) /\ begun.pending = g.pending
      /\ (begun.pending => begun.initialized)
  BY <1>1, InitializedType, InitializedPending, InitializedWords
<1>3. Polled(begun) \in Games /\ WordsAgree(Polled(begun), words)
  <2> HIDE DEF begun
  <2> QED BY <1>1, <1>2, PolledType, PolledWords
<1>4. Queue(Polled(begun)) \in Games /\ WordsAgree(Queue(Polled(begun)), words)
  BY <1>3, QueueType, QueueWords
<1>5. polled \in Games /\ WordsAgree(polled, words)
  BY <1>2, <1>3, <1>4
<1>6. last \in Games /\ WordsAgree(last, words)
  <2> HIDE DEF polled
  <2>1. /\ last \in Games /\ last.live = polled.live /\ last.initialized = polled.initialized
        /\ last.baseline = polled.baseline /\ last.desired = polled.desired
        /\ last.queued = polled.queued
    BY <1>5 DEF Games
  <2> QED BY <1>5, <2>1 DEF WordsAgree
<1>7. Publish(last)
  BY DEF Tick
<1> QED
  <2> HIDE DEF last
  <2> QED BY <1>6, <1>7, PublishWords

LEMMA RecordWords ==
  ASSUME TypeInv, LineOwned, FaultFree, AnswerTrue, NEW words \in SUBSET Keys, RequestAgrees(words),
         UNCHANGED <<path, backup, reply, worker>>, NEW k \in Keys \ words, NEW v \in Vals,
         RecordReference(k, v), WordsAgree(game, words)
  PROVE  FaultFree' /\ RequestAgrees(words)' /\ WordsAgree(game, words)'
<1> DEFINE g == [game EXCEPT !.live[k] = v]
           begun == Initialized(g, menu)
<1>1. g \in Games /\ menu \in BOOLEAN /\ request \in Requests /\ WordsAgree(g, words)
  BY DEF TypeInv, TypeOK, GameTypeOK, BlockTypeOK, Games, Vectors, WordsAgree
<1>2. begun \in Games /\ WordsAgree(begun, words)
  <2> HIDE DEF g
  <2> QED BY <1>1, InitializedType, InitializedWords
<1>3. Queue(begun) \in Games /\ WordsAgree(Queue(begun), words)
  BY <1>2, QueueType, QueueWords
<1>4. CASE Publish(Queue(begun))
  <2> HIDE DEF begun
  <2> QED BY <1>3, <1>4, PublishWords
<1>5. CASE game' = begun /\ UNCHANGED request
  <2> HIDE DEF begun
  <2>1. Stored' = Stored /\ (Pending' <=> Pending) /\ (\A w : Holds(w)' <=> Holds(w))
    BY <1>5 DEF Stored, Pending, Holds
  <2>2. FaultFree' /\ RequestAgrees(words)'
    BY <1>5, <2>1 DEF FaultFree, RequestAgrees, At
  <2>3. WordsAgree(game, words)'
    BY <1>2, <1>5, <2>1 DEF WordsAgree
  <2> QED BY <2>2, <2>3
<1> QED BY <1>4, <1>5 DEF RecordReference

\* A step of the save fails nothing.
LEMMA FaultFreeService ==
  ASSUME TypeInv, SaveInv, FaultFree, Service, ~IoFaults
  PROVE  FaultFree'
<1>0. UNCHANGED request /\ worker \in Workers /\ reply \in Replies
  BY DEF Service, TypeInv, TypeOK, BlockTypeOK, KernelTypeOK
<1>1. CASE WriteDraft \/ UnlinkBackup \/ KeepOriginal \/ Promote
  <2>1. worker'.stage # "ROLLBACK" /\ (worker'.stage = "ACK" => worker'.status = "OK")
    <3>1. CASE WriteDraft
      BY <3>1 DEF WriteDraft
    <3>2. CASE UnlinkBackup \/ KeepOriginal \/ Promote
      BY <1>0, <3>2 DEF UnlinkBackup, KeepOriginal, Promote, Finish, Continue, Workers
    <3> QED BY <1>1, <3>1, <3>2
  <2>2. reply' = reply /\ Pending'
    BY <1>0, <1>1 DEF WriteDraft, UnlinkBackup, KeepOriginal, Promote, Pending, SaveInv, SaveShape, At
  <2> QED BY <2>1, <2>2 DEF FaultFree, At
<1>2. CASE Acknowledge
  BY <1>0, <1>2 DEF Acknowledge, FaultFree, At, IdleWorker, Replies
<1> QED BY <1>1, <1>2 DEF Service, FaultFree, Rollback

LEMMA KernelWords ==
  ASSUME TypeInv, SaveInv, LineOwned, WordsInv, Kernel, ~IoFaults
  PROVE  /\ WordsInv'
         /\ \A k \in Keys \ touched : Holds(k) /\ Holds(k)' => Stored'[k] = Stored[k]
<1>0. Service /\ UNCHANGED <<request, game, touched>> /\ reply \in Replies /\ request \in Requests
  BY DEF Kernel, Service, gameVars, TypeInv, TypeOK, BlockTypeOK
<1>1. FaultFree' /\ Pending
  BY <1>0, FaultFreeService
     DEF WordsInv, Service, WriteDraft, UnlinkBackup, KeepOriginal, Promote, Rollback,
         Acknowledge, SaveInv, SaveShape, At
<1>2. Pending' => Pending
  BY <1>1
<1>3. CASE Stored' = Stored
  <2>1. \A k : Holds(k)' <=> Holds(k)
    BY <1>3 DEF Holds
  <2>2. RequestAgrees(Keys \ touched)' /\ WordsAgree(game, Keys \ touched)'
    BY <1>0, <1>1, <1>3, <2>1 DEF WordsInv, RequestAgrees, WordsAgree
  <2> QED BY <1>1, <1>3, <2>2 DEF WordsInv
<1>4. CASE Stored' = request.values
  <2>1. ASSUME NEW k \in Keys \ touched, game.initialized PROVE game.live[k] = Stored'[k]
    BY <1>1, <1>4, <2>1 DEF WordsInv, WordsAgree
  <2>2. RequestAgrees(Keys \ touched)' /\ WordsAgree(game, Keys \ touched)'
    BY <1>0, <1>1, <1>4, <2>1 DEF WordsInv, RequestAgrees, WordsAgree
  <2>3. ASSUME NEW k \in Keys \ touched, Holds(k) PROVE Stored'[k] = Stored[k]
    BY <1>1, <1>4, <2>3 DEF WordsInv, RequestAgrees
  <2> QED BY <1>1, <2>2, <2>3 DEF WordsInv
<1> QED BY <1>0, <1>3, <1>4, Replaced

LEMMA GameWords ==
  ASSUME TypeInv, SaveInv, LineOwned, WordsInv, Frame \/ Recording
  PROVE  WordsInv'
<1>0. /\ game \in Games /\ menu \in BOOLEAN /\ UNCHANGED <<path, backup, reply, worker>> /\ AnswerTrue
      /\ Keys \ touched \in SUBSET Keys
  BY DEF TypeInv, TypeOK, GameTypeOK, Frame, IdleFrame, MenuFrame, Recording, fileVars, SaveInv
<1>1. ASSUME NEW open \in BOOLEAN, Tick(open, game), UNCHANGED touched
      PROVE  WordsInv'
  BY <1>0, <1>1, TickWords DEF WordsInv
<1>2. ASSUME NEW k \in Keys, NEW v \in Vals, Edit(k, v), Touch(k)
      PROVE  WordsInv'
  <2> DEFINE g == [game EXCEPT !.live[k] = v]
             words == (Keys \ touched) \ {k}
  <2>1. /\ g \in Games /\ Tick(menu, g) /\ g.pending = game.pending
        /\ g.initialized = game.initialized
    BY <1>0, <1>2 DEF Edit, Games, Vectors
  <2>2. WordsAgree(g, words) /\ RequestAgrees(words) /\ FaultFree
    BY <1>0 DEF WordsInv, WordsAgree, RequestAgrees, Games, Vectors
  <2>3. words = Keys \ touched' /\ words \in SUBSET Keys
    BY <1>2 DEF Touch
  <2> HIDE DEF g
  <2>4. FaultFree' /\ RequestAgrees(words)' /\ WordsAgree(game, words)'
    BY <1>0, <2>1, <2>2, <2>3, TickWords
  <2> QED BY <2>3, <2>4 DEF WordsInv
<1>3. ASSUME NEW k \in Keys, NEW v \in Vals, RecordReference(k, v), Touch(k)
      PROVE  WordsInv'
  <2> DEFINE words == (Keys \ touched) \ {k}
  <2>1. WordsAgree(game, words) /\ RequestAgrees(words) /\ FaultFree
    BY DEF WordsInv, WordsAgree, RequestAgrees
  <2>2. words = Keys \ touched' /\ words \in SUBSET Keys /\ k \in Keys \ words
    BY <1>3 DEF Touch
  <2>3. FaultFree' /\ RequestAgrees(words)' /\ WordsAgree(game, words)'
    BY <1>0, <1>3, <2>1, <2>2, RecordWords
  <2> QED BY <2>2, <2>3 DEF WordsInv
<1>4. CASE IdleFrame \/ (MenuFrame /\ ToggleMenu /\ UNCHANGED touched)
  BY <1>0, <1>1, <1>4 DEF IdleFrame, Watch, ToggleMenu
<1> QED BY <1>2, <1>3, <1>4 DEF Frame, MenuFrame, Recording

\* The launcher, a start, a reset and a power cut change no stored word here.
LEMMA WordsStep ==
  ASSUME TypeInv, SaveInv, LineOwned, WordsInv, [Next]_vars, ~IoFaults,
         InLauncher => Stored' = Stored, Restart => launcher.stage # "WRITING"
  PROVE  /\ WordsInv'
         /\ \A k \in Keys \ touched : Holds(k) /\ Holds(k)' => Stored'[k] = Stored[k]
<1> USE DEF WordsInv
<1>1. CASE Kernel
  BY <1>1, KernelWords
<1>2. CASE Frame \/ Recording
  BY <1>2, GameWords, GameSave DEF Holds
<1>3. CASE InLauncher
  <2>1. UNCHANGED <<request, reply, worker, game, touched>> /\ Stored' = Stored
    BY <1>3 DEF InLauncher, blockVars, gameVars
  <2> QED BY <2>1 DEF FaultFree, RequestAgrees, WordsAgree, Holds, Pending, At
<1>4. CASE Boot
  <2>1. Stored' = Stored /\ ~Pending' /\ At("IDLE")' /\ UNCHANGED <<game, touched>>
    BY <1>4, BootSave DEF Boot, gameVars
  <2>2. ~game.initialized
    BY <1>4 DEF Boot, LeaveLauncher, Running, TypeInv, OffShape, FreshGame
  <2>3. reply'.ready /\ reply'.status # "OK" => Stored \notin Sections
    <3>1. Stored \in Sections \cup {Missing, Damaged}
      BY SectionParts DEF TypeInv, TypeOK, KernelTypeOK, FileTypeOK, Stored, StoredIn
    <3>2. reply'.status = StatusOf(Stored)
      BY <1>4 DEF Boot, PreferencesInit, Loaded
    <3> QED BY <3>1, <3>2, StatusType
  <2> QED BY <2>1, <2>2, <2>3 DEF FaultFree, RequestAgrees, WordsAgree, Holds, At
<1>5. CASE Restart
  <2>1. /\ Stored' = Stored /\ ~Pending' /\ At("IDLE")' /\ ~reply'.ready
        /\ game' = FreshGame /\ UNCHANGED touched
    BY <1>5, RestartSave DEF Restart, Off
  <2> QED BY <2>1 DEF FaultFree, RequestAgrees, WordsAgree, Holds, At, FreshGame
<1>6. CASE Reset
  <2>1. /\ Stored' = Stored /\ (Pending' <=> Pending) /\ game' = FreshGame
        /\ UNCHANGED <<request, reply, worker, touched>>
    BY <1>6 DEF Reset, fileVars, blockVars, Stored, Pending
  <2> QED BY <2>1 DEF FaultFree, RequestAgrees, WordsAgree, Holds, At, FreshGame
<1>7. CASE UNCHANGED vars
  <2>1. /\ Stored' = Stored /\ (Pending' <=> Pending)
        /\ UNCHANGED <<request, reply, worker, game, touched>>
    BY <1>7 DEF vars, fileVars, blockVars, gameVars, Stored, Pending
  <2> QED BY <2>1 DEF FaultFree, RequestAgrees, WordsAgree, Holds, At
<1> QED BY <1>1, <1>2, <1>3, <1>4, <1>5, <1>6, <1>7 DEF Next

LEMMA WordsStart == Init => WordsInv
BY DEF Init, WordsInv, FaultFree, RequestAgrees, WordsAgree, Pending, At, IdleWorker, FreshGame

\* What WordsStep says of the stored words is what the property says.
LEMMA WordsKept ==
  ASSUME TypeInv, \A k \in Keys \ touched : Holds(k) /\ Holds(k)' => Stored'[k] = Stored[k]
  PROVE  {Stored, Stored'} \subseteq Sections =>
           \A k \in DOMAIN Stored \cap DOMAIN Stored' : k \notin touched => Stored'[k] = Stored[k]
<1> SUFFICES ASSUME Stored \in Sections, Stored' \in Sections,
                    NEW k \in DOMAIN Stored \cap DOMAIN Stored', k \notin touched
             PROVE  Stored'[k] = Stored[k]
  OBVIOUS
<1>1. k \in Keys
  BY DEF Sections
<1> QED BY <1>1 DEF Holds

\* No save changes a stored word the player never changed, whatever power cuts
\* and resets come between, while file calls succeed and the launcher does not
\* rewrite the file.
THEOREM UntouchedIsKept ==
  ASSUME ~IoFaults, ~LauncherWrites
  PROVE  Spec => UntouchedKept
<1>1. Init => WordsInv
  BY WordsStart
<1>2. TypeInv /\ LineOwned /\ CardInv /\ WordsInv /\ [Next]_vars =>
        WordsInv' /\ \A k \in Keys \ touched : Holds(k) /\ Holds(k)' => Stored'[k] = Stored[k]
  <2>1. CardInv => ~InLauncher
    BY DEF InLauncher, SaveSetup, WriteSetup, CardInv
  <2> QED BY <2>1, WordsStep DEF CardInv
<1>3. TypeInv /\ LineOwned /\ CardInv /\ WordsInv /\ [Next]_vars =>
        [{Stored, Stored'} \subseteq Sections =>
           \A k \in DOMAIN Stored \cap DOMAIN Stored' :
             k \notin touched => Stored'[k] = Stored[k]]_vars
  BY <1>2, WordsKept
<1> QED BY <1>1, <1>2, <1>3, TypeInvariant, LineIsOwned, SaveIsSafe, PTL DEF Spec, UntouchedKept

-----------------------------------------------------------------------------
(* The launcher's side, with the launcher at work, while nothing fails.    *)

\* The backup is never alone but between the two renames of a save, and the
\* settings the launcher was left with are in the file, or in the draft that
\* becomes the file.
NeverAlone == path = Missing /\ ~At("PROMOTE") => backup = Missing

SetupsAgree ==
  /\ launcher.stage # "WRITING" /\ ~At("PROMOTE") => LoadedSetup(path) = launcher.setup
  /\ worker.stage \in {"UNLINK", "KEEP", "PROMOTE"} =>
       LoadedSetup(worker.draft) = launcher.setup

CalmInv == SaveInv /\ WordsInv /\ NeverAlone /\ SetupsAgree

\* What the cards of the theorems are: none keeps a backup without its file.
NoLoneBackups == \A card \in InitialCards : card.path = Missing => card.backup = Missing

LEMMA DraftSetup ==
  ASSUME NEW file \in Files
  PROVE  LoadedSetup(file) = IF file.setup = Missing THEN DefaultSetup ELSE file.setup
BY FileAssumption DEF LoadedSetup, SetupOf

LEMMA CalmService ==
  ASSUME TypeInv, CalmInv, Running, Service, ~IoFaults
  PROVE  NeverAlone' /\ SetupsAgree'
<1>0. /\ UNCHANGED launcher /\ worker \in Workers /\ path \in Files \cup {Missing}
      /\ launcher.stage = "LEFT" /\ ~Rollback
  BY DEF Service, TypeInv, TypeOK, KernelTypeOK, FileTypeOK, Running, CalmInv, WordsInv, FaultFree, Rollback, At
<1> USE DEF CalmInv, NeverAlone, SetupsAgree, SaveInv, SaveShape, At
<1>1. CASE WriteDraft
  <2>1. /\ worker'.stage = IF path # Missing THEN "UNLINK" ELSE "PROMOTE"
        /\ worker'.draft = Draft /\ UNCHANGED <<path, backup>>
    BY <1>1 DEF WriteDraft
  <2>2. Draft \in Files
    BY SectionParts DEF Draft, Files, TypeInv, TypeOK, KernelTypeOK, FileTypeOK, BlockTypeOK, Requests
  <2>3. Draft.setup = SetupOf(path)
    BY <1>1 DEF Draft, WriteDraft, SetupOf
  <2>4. LoadedSetup(Draft) = LoadedSetup(path) /\ LoadedSetup(path) = launcher.setup
    BY <1>0, <1>1, <2>2, <2>3, DraftSetup DEF LoadedSetup, WriteDraft
  <2> QED BY <1>0, <1>1, <2>1, <2>4 DEF WriteDraft
<1>2. CASE UnlinkBackup
  <2>1. worker'.stage = "KEEP" /\ worker'.draft = worker.draft /\ UNCHANGED path
    BY <1>0, <1>2 DEF UnlinkBackup, Continue, Workers
  <2> QED BY <1>0, <1>2, <2>1 DEF UnlinkBackup
<1>3. CASE KeepOriginal
  <2>1. worker'.stage = "PROMOTE" /\ worker'.draft = worker.draft
    BY <1>0, <1>3 DEF KeepOriginal, Continue, Workers
  <2> QED BY <1>0, <1>3, <2>1 DEF KeepOriginal
<1>4. CASE Promote
  <2>1. worker'.stage = "ACK" /\ path' = worker.draft /\ path' # Missing
    BY <1>0, <1>4, FileAssumption DEF Promote, Finish, Workers
  <2> QED BY <1>0, <1>4, <2>1 DEF Promote
<1>5. CASE Acknowledge
  <2>1. worker'.stage = "IDLE" /\ UNCHANGED <<path, backup>>
    BY <1>5 DEF Acknowledge, IdleWorker, fileVars
  <2> QED BY <1>0, <1>5, <2>1 DEF Acknowledge
<1> QED BY <1>0, <1>1, <1>2, <1>3, <1>4, <1>5 DEF Service

\* The launcher rewrites its own section and copies the other through.
LEMMA CalmLauncher ==
  ASSUME TypeInv, CalmInv, InLauncher
  PROVE  SaveInv' /\ NeverAlone' /\ SetupsAgree' /\ Stored' = Stored
<1> USE DEF CalmInv, NeverAlone, SetupsAgree, SaveInv, At
<1>0. /\ UNCHANGED <<backup, request, reply, worker>> /\ ~Running
      /\ worker.stage = "IDLE" /\ worker.status # "OK" /\ ~reply.ready
  BY DEF InLauncher, SaveSetup, WriteSetup, fileVars, blockVars, TypeInv, OffShape, Running, IdleWorker
<1>1. ASSUME NEW setup \in Setups, SaveSetup(setup)
      PROVE  SaveInv' /\ NeverAlone' /\ SetupsAgree' /\ Stored' = Stored
  <2>1. UNCHANGED path /\ launcher'.stage = "WRITING"
    BY <1>1 DEF SaveSetup, fileVars
  <2> QED BY <1>0, <2>1 DEF SaveShape, AnswerTrue, Stored, Settled, Pending
<1>2. CASE WriteSetup
  <2>1. /\ path' = [setup |-> launcher.setup, section |-> SectionOf(path)]
        /\ launcher'.setup = launcher.setup /\ launcher.setup \in Setups
    BY <1>2 DEF WriteSetup, TypeInv, TypeOK, KernelTypeOK, FileTypeOK, Launcher
  <2>2. path' \in Files
    BY <2>1, SectionParts DEF Files, TypeInv, TypeOK, KernelTypeOK, FileTypeOK
  <2>3. path' # Missing /\ SectionOf(path') = SectionOf(path) /\ SetupOf(path') = launcher.setup
    BY <2>1, <2>2, FileAssumption DEF SectionOf, SetupOf
  <2>4. LoadedSetup(path') = launcher'.setup
    BY <2>1, <2>3, SetupAssumption DEF LoadedSetup
  <2>5. Stored' = Stored /\ Settled(path, backup)'
    <3>1. path = Missing => SectionOf(path) = Missing /\ SectionOf(backup) = Missing
      BY <1>0 DEF SectionOf
    <3> QED BY <1>0, <2>3, <3>1 DEF Stored, StoredIn, Settled
  <2> QED BY <1>0, <2>3, <2>4, <2>5 DEF SaveShape, AnswerTrue, Pending
<1> QED BY <1>1, <1>2 DEF InLauncher

LEMMA CalmStep ==
  ASSUME TypeInv, LineOwned, CalmInv, [Next]_vars, ~IoFaults, ~PowerFails
  PROVE  /\ CalmInv'
         /\ \A k \in Keys \ touched : Holds(k) /\ Holds(k)' => Stored'[k] = Stored[k]
         /\ Running /\ launcher'.stage = "MENU" => launcher'.setup = launcher.setup
<1>0. launcher \in Launcher /\ SaveInv /\ NeverAlone /\ SetupsAgree
  BY DEF TypeInv, TypeOK, KernelTypeOK, FileTypeOK, CalmInv
<1>1. Restart => launcher.stage # "WRITING" /\ At("IDLE")
  BY DEF Restart
<1>2. /\ WordsInv'
      /\ \A k \in Keys \ touched : Holds(k) /\ Holds(k)' => Stored'[k] = Stored[k]
  BY <1>1, CalmLauncher, WordsStep DEF CalmInv
<1>3. SaveInv' /\ NeverAlone' /\ SetupsAgree'
      /\ (Running /\ launcher'.stage = "MENU" => launcher'.setup = launcher.setup)
  <2>1. CASE InLauncher
    BY <2>1, CalmLauncher DEF InLauncher, SaveSetup, WriteSetup, Running
  <2>2. CASE Boot
    <3>1. /\ UNCHANGED <<path, backup>> /\ At("IDLE")' /\ worker'.stage = "IDLE"
          /\ launcher'.setup = launcher.setup /\ launcher.stage = "MENU" /\ At("IDLE")
      BY <1>0, <2>2 DEF Boot, LeaveLauncher, PreferencesInit, IdleWorker, At, fileVars, Launcher,
                        TypeInv, OffShape, Running
    <3> QED BY <1>0, <2>2, <3>1, BootSave DEF Running, NeverAlone, SetupsAgree, At
  <2>3. CASE Kernel
    <3>1. Running /\ Service /\ UNCHANGED launcher
      BY <2>3 DEF Kernel, Service
    <3> QED BY <1>0, <3>1, CalmService, Replaced DEF Running
  <2>4. CASE Frame \/ Recording
    <3>1. UNCHANGED <<path, backup, worker, launcher>>
      BY <2>4 DEF Frame, IdleFrame, MenuFrame, Recording, fileVars
    <3> QED BY <1>0, <2>4, <3>1, GameSave DEF NeverAlone, SetupsAgree, At
  <2>5. CASE Restart
    <3>1. /\ UNCHANGED <<path, backup>> /\ worker' = IdleWorker
          /\ launcher' = [stage |-> "MENU", setup |-> LoadedSetup(path)]
      BY <1>1, <2>5 DEF Restart, PowerOn, Torn, Off
    <3>2. LoadedSetup(path) = launcher.setup
      BY <1>0, <1>1, <2>5 DEF SetupsAgree, At
    <3> QED BY <1>0, <1>1, <2>5, <3>1, <3>2, RestartSave
            DEF NeverAlone, SetupsAgree, At, IdleWorker
  <2>6. CASE Reset \/ UNCHANGED vars
    BY <1>0, <2>6 DEF Reset, vars, fileVars, blockVars, SaveInv, SaveShape, AnswerTrue, Pending, At,
                Stored, Settled, NeverAlone, SetupsAgree
  <2> QED BY <2>1, <2>2, <2>3, <2>4, <2>5, <2>6 DEF Next
<1> QED BY <1>2, <1>3 DEF CalmInv

LEMMA CalmStart ==
  ASSUME Init, NoLoneBackups
  PROVE  CalmInv
<1>1. NeverAlone /\ SetupsAgree
  BY DEF Init, NoLoneBackups, NeverAlone, SetupsAgree, At, IdleWorker
<1> QED BY <1>1, InitSave, WordsStart DEF CalmInv

LEMMA StaysCalm ==
  ASSUME ~IoFaults, ~PowerFails, NoLoneBackups
  PROVE  Spec => []CalmInv
<1>1. Init => CalmInv
  BY CalmStart
<1>2. TypeInv /\ LineOwned /\ CalmInv /\ [Next]_vars => CalmInv'
  BY CalmStep
<1> QED BY <1>1, <1>2, TypeInvariant, LineIsOwned, PTL DEF Spec

\* The same for the words with the launcher at work, while the power holds.
THEOREM UntouchedIsShared ==
  ASSUME ~IoFaults, ~PowerFails, NoLoneBackups
  PROVE  Spec => UntouchedKept
<1>1. TypeInv /\ LineOwned /\ CalmInv /\ [Next]_vars =>
        [{Stored, Stored'} \subseteq Sections =>
           \A k \in DOMAIN Stored \cap DOMAIN Stored' :
             k \notin touched => Stored'[k] = Stored[k]]_vars
  BY CalmStep, WordsKept
<1> QED BY <1>1, TypeInvariant, LineIsOwned, StaysCalm, PTL DEF Spec, UntouchedKept

\* The launcher starts with the settings it was left with, however often the
\* game saves in between, while file calls succeed and the power holds.
THEOREM SettingsAreKept ==
  ASSUME ~IoFaults, ~PowerFails, NoLoneBackups
  PROVE  Spec => LauncherSettingsKept
<1>1. TypeInv /\ LineOwned /\ CalmInv /\ [Next]_vars =>
        [Running /\ launcher'.stage = "MENU" => launcher'.setup = launcher.setup]_vars
  BY CalmStep
<1> QED BY <1>1, TypeInvariant, LineIsOwned, StaysCalm, PTL DEF Spec, LauncherSettingsKept

LEMMA CalmPremises ==
  ASSUME CalmInv, TypeInv, ~PowerFails
  PROVE  /\ SaveInv /\ (InLauncher => Stored' = Stored)
         /\ (Restart => launcher.stage # "WRITING")
BY CalmLauncher DEF CalmInv, Restart

\* Saving implements the register also with the launcher at work, while
\* nothing fails.
THEOREM ReplacementIsShared ==
  ASSUME ~IoFaults, ~PowerFails, NoLoneBackups
  PROVE  Spec => RegisterImplemented
<1>1. Init => Register!RegisterInit
  BY DEF Init, Register!RegisterInit, Pending, At, IdleWorker
<1>2. TypeInv /\ CalmInv /\ [Next]_vars => [Register!RegisterNext]_(Register!vars)
  BY CalmPremises, RegisterStep
<1> QED BY <1>1, <1>2, TypeInvariant, StaysCalm, PTL
        DEF Spec, RegisterImplemented, Register!RegisterSpec

\* SAVED is true also with the launcher at work, while nothing fails.
THEOREM SavedIsShared ==
  ASSUME ~IoFaults, ~PowerFails, NoLoneBackups
  PROVE  Spec => []SavedMeansStored
<1>1. Init => SavedInv
  BY SavedStart
<1>2. TypeInv /\ LineOwned /\ CalmInv /\ SavedInv /\ [Next]_vars => SavedInv'
  BY CalmPremises, SavedStep
<1>3. SavedInv => SavedMeansStored
  BY DEF SavedInv, Saved, SavedMeansStored
<1> QED BY <1>1, <1>2, <1>3, TypeInvariant, LineIsOwned, StaysCalm, PTL DEF Spec

=============================================================================
