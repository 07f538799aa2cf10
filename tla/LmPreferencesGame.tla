-------------------------- MODULE LmPreferencesGame --------------------------
(***************************************************************************)
(* The game's half of the preferences (lm_diag/src/lm_preferences.cpp):    *)
(* adopt what the kernel loaded, notice what the player changed, and keep  *)
(* at most one save under way, queueing the next.                          *)
(*                                                                         *)
(* A frame is LMPractice::tick, where the player works the menu, and then  *)
(* LMPreferences::tick.  Each call is a single action: a reset is taken by *)
(* the game between two frames, and the kernel reads the values only once  *)
(* the request line, written last, asks it to.                             *)
(***************************************************************************)
EXTENDS LmPreferencesBlock

CONSTANT Defaults   \* the values compiled into the mod

ASSUME DefaultsAssumption == Defaults \in Vectors

VARIABLES
  game,   \* the statics of lm_preferences.cpp, and live: what capture() reads
  menu    \* LMPractice::isOpen()

gameVars == <<game, menu>>

Texts == {"WAITING", "LOADED", "NEW", "SAVING", "SAVED", "FAILED"}

Games ==
  [captured : BOOLEAN, initialized : BOOLEAN, pending : BOOLEAN, queued : BOOLEAN,
   needsDefaults : BOOLEAN, wasOpen : BOOLEAN, seq : Seqs, live : Vectors, baseline : Vectors,
   desired : Vectors, text : Texts]

GameTypeOK == game \in Games /\ menu \in BOOLEAN

\* The values that the first tick captures are the defaults.
FreshGame ==
  [captured |-> FALSE, initialized |-> FALSE, pending |-> FALSE, queued |-> FALSE,
   needsDefaults |-> FALSE, wasOpen |-> FALSE, seq |-> 0, live |-> Defaults, baseline |-> Defaults,
   desired |-> Defaults, text |-> "WAITING"]

ChangedAny(g) == IF g.live = g.baseline THEN {} ELSE Keys   \* variant: one flag for all words

\* Loaded words replace the live ones, except those the player already changed.
Changed(g) == {k \in Keys : g.live[k] # g.baseline[k]}
Applied(values, g) == [k \in Keys |-> IF k \in DOMAIN values THEN values[k] ELSE g.live[k]]
Merged(values, g) ==
  [k \in Keys |-> IF k \in Changed(g) THEN g.live[k] ELSE Applied(values, g)[k]]

\* Variant: an answer that is still due is not waited for.
MayInitializeEager(g, open) == ~g.initialized /\ reply.ready /\ ~open

MayInitialize(g, open) ==
  ~g.initialized /\ reply.ready /\ reply.ack = request.seq /\ ~open

\* Variant: what the player changed before counts as loaded.
AdoptedForgetting(g) ==
  [g EXCEPT !.initialized = TRUE, !.seq = request.seq, !.text = "LOADED",
            !.live = Merged(request.values, g), !.baseline = Merged(request.values, g)]

\* initialize(): the kernel loaded a valid section ...
Adopted(g) ==
  LET merged == Merged(request.values, g)
      queued == Changed(g) # {}
  IN [g EXCEPT !.initialized = TRUE, !.seq = request.seq, !.text = "LOADED",
               !.live = merged, !.baseline = Applied(request.values, g),
               !.queued = queued, !.desired = IF queued THEN merged ELSE g.desired]

\* ... or there is none, or it cannot be read.
Unloaded(g) ==
  LET needs == reply.status = "NO_FILE"
      queued == needs \/ Changed(g) # {}
  IN [g EXCEPT !.initialized = TRUE, !.seq = request.seq,
               !.text = IF needs THEN "NEW" ELSE "FAILED",
               !.needsDefaults = needs,
               !.queued = queued, !.desired = IF queued THEN g.live ELSE g.desired]

Initialized(g, open) ==
  IF ~MayInitialize(g, open) THEN g
  ELSE IF reply.status = "OK" THEN Adopted(g) ELSE Unloaded(g)

\* Variant: an answer is taken without looking whose it is.
PolledAny(g) ==
  IF ~g.pending THEN g
  ELSE IF reply.status = "OK"
       THEN [g EXCEPT !.pending = FALSE, !.baseline = request.values,
                      !.needsDefaults = FALSE, !.text = "SAVED"]
       ELSE [g EXCEPT !.pending = FALSE, !.text = "FAILED"]

\* poll()
Polled(g) ==
  IF ~g.pending \/ reply.ack # g.seq THEN g
  ELSE IF reply.status = "OK"
       THEN [g EXCEPT !.pending = FALSE, !.baseline = request.values,
                      !.needsDefaults = FALSE, !.text = "SAVED"]
       ELSE [g EXCEPT !.pending = FALSE, !.text = "FAILED"]

Queue(g) == [g EXCEPT !.desired = g.live, !.queued = TRUE]

\* publish()
MayPublish(g) == g.queued /\ ~g.pending /\ g.initialized
NeedsSave(g) == g.needsDefaults \/ g.desired # g.baseline
LineFree(g) == reply.ready /\ reply.ack = g.seq /\ request.seq = g.seq

Sent(g) == [g EXCEPT !.queued = FALSE, !.pending = TRUE, !.seq = NextSeq(g.seq),
                     !.text = "SAVING"]
Dropped(g) ==
  [g EXCEPT !.queued = FALSE, !.text = IF NeedsSave(g) THEN "FAILED" ELSE g.text]

Publish(g) ==
  \/ /\ MayPublish(g) /\ NeedsSave(g) /\ LineFree(g)
     /\ request' = [seq |-> NextSeq(g.seq), values |-> g.desired]
     /\ game' = Sent(g)
  \/ /\ MayPublish(g) /\ ~(NeedsSave(g) /\ LineFree(g))
     /\ game' = Dropped(g)
     /\ UNCHANGED request
  \/ /\ ~MayPublish(g)
     /\ game' = g
     /\ UNCHANGED request

\* tick(), with the menu and the words as LMPractice::tick has left them.
Tick(open, g) ==
  LET begun  == Initialized(g, open)
      closed == g.wasOpen /\ ~open
      polled == IF begun.initialized
                THEN IF closed THEN Queue(Polled(begun)) ELSE Polled(begun)
                ELSE begun
  IN Publish([polled EXCEPT !.wasOpen = open, !.captured = TRUE]) /\ menu' = open

\* A frame: nothing, or the player opens or closes the menu, or changes a word.
\* The first frame of a process is over before he can do so.
Watch == Tick(menu, game)
ToggleMenu == game.captured /\ Tick(~menu, game)
Edit(k, v) == menu /\ Tick(menu, [game EXCEPT !.live[k] = v])

\* requestSave(): a timing reference has just been recorded.
RecordReference(k, v) ==
  /\ game.captured
  /\ LET begun == Initialized([game EXCEPT !.live[k] = v], menu)
     IN IF begun.initialized THEN Publish(Queue(begun))
        ELSE game' = begun /\ UNCHANGED request
  /\ UNCHANGED menu
=============================================================================
