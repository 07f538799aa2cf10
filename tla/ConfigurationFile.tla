-------------------------- MODULE ConfigurationFile --------------------------
(***************************************************************************)
(* The launcher's configuration file on the card, /moonshine_lm.ini, its   *)
(* companion .lm.bak, and the launcher that reads and rewrites the file    *)
(* before a game runs (SusamuneIni.c).  A file is two parts: the           *)
(* launcher's own section and [lm_preferences].                            *)
(***************************************************************************)
EXTENDS LmPreferencesBlock

CONSTANTS
  Setups,         \* what the launcher's section can say
  DefaultSetup,   \* kIniDefaults
  LauncherWrites  \* whether the launcher ever rewrites the file

ASSUME SetupAssumption ==
  DefaultSetup \in Setups /\ Missing \notin Setups /\ LauncherWrites \in BOOLEAN

Files == [setup : Setups \cup {Missing}, section : Sections \cup {Missing, Damaged}]

ASSUME FileAssumption == Missing \notin Files

EmptyFile == [setup |-> Missing, section |-> Missing]

VARIABLES
  path,      \* moonshine_lm.ini, or Missing
  backup,    \* moonshine_lm.ini.lm.bak, or Missing
  launcher   \* [stage, setup]: what the launcher is doing, and gIni

fileVars == <<path, backup>>
Launcher == [stage : {"MENU", "WRITING", "LEFT"}, setup : Setups]

FileTypeOK ==
  /\ path \in Files \cup {Missing}
  /\ backup \in Files \cup {Missing}
  /\ launcher \in Launcher

SectionOf(file) == IF file = Missing THEN Missing ELSE file.section
SetupOf(file) == IF file = Missing THEN Missing ELSE file.setup

\* SusamuneIniLoad: only the file itself is looked at, never the backup.
LoadedSetup(file) == IF SetupOf(file) = Missing THEN DefaultSetup ELSE SetupOf(file)

\* SusamuneIniNeedsWrite: the file says nothing about the launcher.
NeedsWrite == SetupOf(path) = Missing

\* SusamuneIniSave rewrites the file in place: first it is truncated ...
SaveSetup(setup) ==
  /\ LauncherWrites
  /\ launcher.stage = "MENU"
  /\ setup = launcher.setup => NeedsWrite
  /\ launcher' = [stage |-> "WRITING", setup |-> setup]
  /\ UNCHANGED fileVars

\* ... and then written, with every other section copied through.
WriteSetup ==
  /\ launcher.stage = "WRITING"
  /\ path' = [setup |-> launcher.setup, section |-> SectionOf(path)]
  /\ launcher' = [launcher EXCEPT !.stage = "MENU"]
  /\ UNCHANGED backup

\* What a power cut may leave of the file: any beginning of the new one.
Torn ==
  IF launcher.stage = "WRITING"
  THEN [setup : {Missing, launcher.setup},
        section : {Missing, SectionOf(path)} \cup
                  IF SectionOf(path) = Missing THEN {} ELSE {Damaged}]
  ELSE {path}

\* The console starts: the launcher reads its settings.
PowerOn ==
  \E file \in Torn :
    /\ path' = file
    /\ launcher' = [stage |-> "MENU", setup |-> LoadedSetup(file)]
    /\ UNCHANGED backup

\* The player, or autoboot, leaves the launcher for the game.
LeaveLauncher ==
  /\ launcher.stage = "MENU"
  /\ launcher' = [launcher EXCEPT !.stage = "LEFT"]
=============================================================================
