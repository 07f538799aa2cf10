------------------------ MODULE LmPreferencesSystem ------------------------
(***************************************************************************)
(* Preferences as a whole: the launcher, then the kernel and the game on   *)
(* the same card, with resets of the game and the power switched off, or   *)
(* failing, at any step.                                                   *)
(***************************************************************************)
EXTENDS LmPreferencesKernel, LmPreferencesGame

CONSTANTS
  InitialCards,   \* [path, backup]: what is on the card at first
  PowerFails,     \* whether the power may fail while a file is being replaced
  MaxRuns         \* bound: resets and restarts of the console

ASSUME SystemAssumption ==
  /\ InitialCards \subseteq [path : Files \cup {Missing}, backup : Files \cup {Missing}]
  /\ \A card \in InitialCards : Settled(card.path, card.backup)
  /\ PowerFails \in BOOLEAN
  /\ MaxRuns \in Nat

VARIABLES
  runs,      \* resets and restarts so far
  touched    \* history: the words the player has changed since the card was put in

vars == <<fileVars, launcher, blockVars, worker, gameVars, runs, touched>>

Off ==
  /\ request' = [seq |-> 0, values |-> NoValues]
  /\ reply' = [ack |-> 0, status |-> "UNAVAILABLE", ready |-> FALSE]
  /\ worker' = IdleWorker
  /\ game' = FreshGame /\ menu' = FALSE

Init ==
  /\ \E card \in InitialCards : path = card.path /\ backup = card.backup
  /\ launcher = [stage |-> "MENU", setup |-> LoadedSetup(path)]
  /\ request = [seq |-> 0, values |-> NoValues]
  /\ reply = [ack |-> 0, status |-> "UNAVAILABLE", ready |-> FALSE]
  /\ worker = IdleWorker
  /\ game = FreshGame /\ menu = FALSE
  /\ runs = 0 /\ touched = {}

InLauncher ==
  /\ (\E setup \in Setups : SaveSetup(setup)) \/ WriteSetup
  /\ UNCHANGED <<blockVars, worker, gameVars, runs, touched>>

\* The kernel loads the preferences, then starts the game.
Boot ==
  /\ LeaveLauncher
  /\ PreferencesInit
  /\ UNCHANGED <<fileVars, gameVars, runs, touched>>

Running == launcher.stage = "LEFT"

Kernel == Running /\ Service /\ UNCHANGED <<gameVars, runs, touched>>

Touch(k) == touched' = touched \cup {k}

\* A frame in which the player only watches, or works the menu.
IdleFrame ==
  /\ Running
  /\ Watch
  /\ UNCHANGED <<fileVars, launcher, reply, worker, runs, touched>>

MenuFrame ==
  /\ Running
  /\ \/ ToggleMenu /\ UNCHANGED touched
     \/ \E k \in Keys, v \in Vals : Edit(k, v) /\ Touch(k)
  /\ UNCHANGED <<fileVars, launcher, reply, worker, runs>>

Frame == IdleFrame \/ MenuFrame

Recording ==
  /\ Running
  /\ \E k \in Keys, v \in Vals : RecordReference(k, v) /\ Touch(k)
  /\ UNCHANGED <<fileVars, launcher, reply, worker, runs>>

\* A soft reset starts the payload afresh; the kernel and the block carry on.
Reset ==
  /\ Running
  /\ runs < MaxRuns /\ runs' = runs + 1
  /\ game' = FreshGame /\ menu' = FALSE
  /\ UNCHANGED <<fileVars, launcher, blockVars, worker, touched>>

\* The console is switched off and on.
Restart ==
  /\ PowerFails \/ (At("IDLE") /\ ~Pending /\ launcher.stage # "WRITING")
  /\ runs < MaxRuns /\ runs' = runs + 1
  /\ PowerOn /\ Off
  /\ UNCHANGED touched

Next == InLauncher \/ Boot \/ Kernel \/ Frame \/ Recording \/ Reset \/ Restart

Spec == Init /\ [][Next]_vars

\* The kernel's main loop comes round to the service; the game ticks every
\* frame.  Nothing makes the player work the menu.
Fairness == WF_vars(Kernel) /\ WF_vars(IdleFrame)
FairSpec == Spec /\ Fairness

TypeOK == BlockTypeOK /\ KernelTypeOK /\ GameTypeOK /\ runs \in 0 .. MaxRuns /\ touched \subseteq Keys

-----------------------------------------------------------------------------
(* The inductive strengthening of the proofs, by what it is about.         *)

\* A save is under way only for a request, and the original is where its
\* stage says.
SaveShape ==
  /\ ~At("IDLE") => Pending
  /\ worker.stage \in {"UNLINK", "KEEP"} => path # Missing
  /\ At("KEEP") => backup = Missing
  /\ worker.stage \in {"PROMOTE", "ROLLBACK"} => path = Missing
  /\ worker.stage \in {"UNLINK", "KEEP", "PROMOTE"} => worker.draft.section = request.values

\* What an answer says, about to be given or given, is so.
AnswerTrue ==
  /\ At("ACK") /\ worker.status = "OK" => Stored = request.values
  /\ reply.ready /\ ~Pending /\ reply.status = "OK" => Stored = request.values

SaveInv == Settled(path, backup) /\ SaveShape /\ AnswerTrue

-----------------------------------------------------------------------------
(* What can go wrong only over several steps.                              *)

\* "SETTINGS: SAVED TO SD" stays true for as long as it is shown: a boot would
\* load exactly the values the game holds as its baseline.
SavedMeansStored ==
  game.text = "SAVED" => Stored = game.baseline

\* What is between a process and the kernel: a process that has adopted the
\* block numbers its saves as the block does, and never finds the line taken.
LineOwned ==
  game.initialized =>
    /\ reply.ready /\ request.seq = game.seq
    /\ ~game.pending => reply.ack = game.seq

\* Saving implements the register, whatever step a power cut or a failing file
\* call strikes: the three-step replacement of the file is atomic.
Register == INSTANCE PreferenceRegister WITH
  Contents <- Sections, Nothing <- Missing,
  stored <- Stored,
  asked <- IF Pending THEN request.values ELSE Missing,
  done <- At("ACK") /\ worker.status = "OK",
  told <- IF ~Pending /\ reply.status = "OK" THEN request.values ELSE Missing

RegisterImplemented == Register!RegisterSpec

\* A save changes no stored word that the player never changed: neither an
\* interrupted start, nor a save queued behind another, nor values adopted late.
UntouchedKept ==
  [][{Stored, Stored'} \subseteq Sections =>
       \A k \in DOMAIN Stored \cap DOMAIN Stored' :
         k \notin touched => Stored'[k] = Stored[k]
    ]_vars

\* The launcher starts with the settings it was left with
\* (doc/lm-testing-0.3.42.md: "without dropping the launcher settings").
LauncherSettingsKept ==
  [][Running /\ launcher'.stage = "MENU" => launcher'.setup = launcher.setup]_vars

Wanted(values) == Running /\ reply.ready /\ ~menu /\ game.live = values

\* What a boot would give the player: words no section holds are the defaults.
NextBoot ==
  [k \in Keys |-> IF Stored \in Sections /\ k \in DOMAIN Stored THEN Stored[k]
                 ELSE Defaults[k]]

\* Once the menu is closed, what the player set is what the next boot brings
\* back, or a failure is reported.
EditsReachCard ==
  \A values \in Vectors :
    Wanted(values) ~> (NextBoot = values \/ ~Wanted(values) \/ game.text = "FAILED")
=============================================================================
