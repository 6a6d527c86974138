---------------------------- MODULE SpotispyDlg ----------------------------
(***************************************************************************)
(* The dialog's settings and its update check, over several runs of the    *)
(* program (SpotispyDlg.cpp): start, the handlers that change a setting,   *)
(* timer 3 with the modal update dialog, the destructors' order at the     *)
(* end, crashes.  The other timers are the modules SpotifyAnalyzer and     *)
(* StreamFile.  All handlers run on the GUI thread, so none starts while   *)
(* another one saves; the query thread and a crash may come in between.    *)
(***************************************************************************)
EXTENDS JSONSaveFile, UpdateNotifier, Naturals

CONSTANTS
  Default,    \* the settings' default values
  Declined,   \* the value of showUpdateInformation that stands for false
  MaxDialogs  \* bound: how many update dialogs may be open at once

\* Not saved at once, chosen in a file dialog, changed by the update dialog; the
\* others are saved by their own handlers.
Named == {"adVolume", "streamFilePath", "showUpdateInformation"}

ASSUME KeysAssumption ==
  /\ Named \subseteq Keys
  /\ Default \in [Keys -> Values] /\ Declined \in Values
  /\ Default["showUpdateInformation"] # Declined
  /\ MaxDialogs \in Nat \ {0}

VARIABLES
  phase,    \* "off", "crashed", "starting", "running", "closing", "ending"
  dialogs,  \* how many update dialogs are open, one on top of the other
  chosen    \* history: what the user was shown or has set last, by setting

vars == <<saveFile, updateNotifier, phase, dialogs, chosen>>

Over == {"off", "crashed"}
Idle == phase = "running" /\ saving = "no"

\* What the user finds when the program starts.
Stored == [k \in Keys |-> OrDefault(file[k], Default[k])]

Init ==
  /\ SaveFileInit /\ NotifierInit
  /\ phase = "off" /\ dialogs = 0
  /\ chosen = Stored

-----------------------------------------------------------------------------
\* OnInitDialog: the settings are loaded and, with their defaults, saved.
OnInitDialog ==
  /\ phase \in Over /\ phase' = "starting"
  /\ elsewhere' = FALSE
  /\ data' = WithDefaults(file, Keys \ {"showUpdateInformation"}, Default)
  /\ chosen' = Stored
  /\ BeginSave
  /\ UNCHANGED <<file, updateNotifier, dialogs>>

\* Then the notifier and the timers are created.
Started ==
  /\ phase = "starting" /\ saving = "no"
  /\ phase' = "running"
  /\ QueryResult
  /\ UNCHANGED <<saveFile, dialogs, chosen>>

\* OnBnClickedRadioMuteAds and LowVolAds, CheckSaveTwitchInfo, the two "Save" buttons.
ChangeSetting ==
  /\ Idle /\ dialogs = 0
  /\ \E k \in Keys \ Named, v \in Values :
       data' = Insert(data, k, v) /\ chosen' = [chosen EXCEPT ![k] = v]
  /\ BeginSave
  /\ UNCHANGED <<file, elsewhere, updateNotifier, phase, dialogs>>

\* Saved later: it would be called a hundred times.
OnNMCustomdrawSlider1 ==
  /\ Idle /\ dialogs = 0
  /\ \E v \in Values :
       data' = Insert(data, "adVolume", v) /\ chosen' = [chosen EXCEPT !["adVolume"] = v]
  /\ UNCHANGED <<file, elsewhere, saving, lastSave, updateNotifier, phase, dialogs>>

\* The file dialog leaves the chosen file's directory as the current one
\* (without OFN_NOCHANGEDIR it does), also if the file cannot be opened.
OnBnClickedButtonSaveStreamInfo ==
  /\ Idle /\ dialogs = 0
  /\ elsewhere' \in BOOLEAN
  /\ \/ /\ \E v \in Values :
             /\ data' = Insert(data, "streamFilePath", v)
             /\ chosen' = [chosen EXCEPT !["streamFilePath"] = v]
        /\ BeginSave
     \/ UNCHANGED <<data, chosen, saving, lastSave>>
  /\ UNCHANGED <<file, updateNotifier, phase, dialogs>>

\* OnTimer(3).  The timer goes on while the update dialog is open.
CheckUpdate ==
  /\ Idle /\ FetchData
  /\ data' = WithDefaults(data, {"showUpdateInformation"}, Default)
  /\ \/ /\ VersionDiffers /\ data'["showUpdateInformation"] # Declined
        /\ dialogs < MaxDialogs /\ dialogs' = dialogs + 1
        /\ UNCHANGED <<saving, lastSave>>
     \/ /\ ~VersionDiffers \/ data'["showUpdateInformation"] = Declined
        /\ BeginSave /\ UNCHANGED dialogs
  /\ UNCHANGED <<file, elsewhere, phase, chosen>>

\* The rest of OnTimer(3), when the update dialog is answered.
Answer ==
  /\ Idle /\ dialogs > 0 /\ dialogs' = dialogs - 1
  /\ \/ UNCHANGED <<data, chosen>>                                  \* "Ok"
     \/ /\ data' = Insert(data, "showUpdateInformation", Declined)  \* "Don't remind me again"
        /\ chosen' = [chosen EXCEPT !["showUpdateInformation"] = Declined]
  /\ BeginSave
  /\ UNCHANGED <<file, elsewhere, updateNotifier, phase>>

\* Mutant of Close: the settings are destroyed without being saved.
CloseWithoutSave ==
  /\ Idle /\ dialogs = 0 /\ phase' = "closing"
  /\ UNCHANGED <<saveFile, updateNotifier, dialogs, chosen>>

\* However the dialog ends, its destructor destroys the settings first, ...
Close ==
  /\ Idle /\ dialogs = 0 /\ phase' = "closing"
  /\ BeginSave
  /\ UNCHANGED <<data, file, elsewhere, updateNotifier, dialogs, chosen>>

\* ... then the notifier, ...
DestroyNotifier ==
  /\ phase = "closing" /\ saving = "no" /\ phase' = "ending"
  /\ UNCHANGED <<saveFile, updateNotifier, dialogs, chosen>>

\* ... and while the analyzer's threads are joined, the query thread may still
\* write to the notifier, with any effect.
UseAfterFree ==
  /\ phase = "ending" /\ query \in {"asking", "stored"}
  /\ phase' \in {"ending", "crashed"}
  /\ query' = "none"
  /\ UNCHANGED <<saveFile, hasData, result, released, dialogs, chosen>>

Exit ==
  /\ phase = "ending" /\ phase' = "off"
  /\ query' = "none"
  /\ UNCHANGED <<saveFile, hasData, result, released, dialogs, chosen>>

Crash ==
  /\ phase \notin Over /\ phase' = "crashed"
  /\ saving' = "no" /\ query' = "none" /\ dialogs' = 0
  /\ UNCHANGED <<data, file, elsewhere, lastSave, hasData, result, released, chosen>>

-----------------------------------------------------------------------------
Save == SaveToFile /\ UNCHANGED <<updateNotifier, phase, dialogs, chosen>>

Query ==
  /\ phase \notin {"ending"} \cup Over
  /\ Answered \/ QueryThrows \/ Announce
  /\ UNCHANGED <<saveFile, phase, dialogs, chosen>>

Environment == Release /\ UNCHANGED <<saveFile, phase, dialogs, chosen>>

User ==
  \/ OnInitDialog \/ ChangeSetting \/ OnNMCustomdrawSlider1
  \/ OnBnClickedButtonSaveStreamInfo \/ Answer \/ Close

Next ==
  \/ User \/ Save \/ Started \/ CheckUpdate \/ Query
  \/ DestroyNotifier \/ UseAfterFree \/ Exit \/ Crash \/ Environment

\* The GUI thread's calls end and the query's session times out.  A user who
\* keeps clicking delays WM_TIMER but does not prevent it: SF.
Spec ==
  /\ Init /\ [][Next]_vars
  /\ WF_vars(Save) /\ SF_vars(CheckUpdate) /\ WF_vars(Query)

-----------------------------------------------------------------------------
TypeOK ==
  /\ data \in Contents /\ file \in Contents /\ chosen \in [Keys -> Values]
  /\ elsewhere \in BOOLEAN /\ lastSave \in {"here", "elsewhere", "nowhere"}
  /\ saving \in {"no", "open", "write"}
  /\ query \in {"none", "asking", "stored", "done"}
  /\ hasData \in BOOLEAN /\ result \in Results /\ released \in Versions
  /\ phase \in Over \cup {"starting", "running", "closing", "ending"}
  /\ dialogs \in 0..MaxDialogs

\* The next run finds what the user has set, whatever he did in which order and
\* however the program ended, but for a slider moved before a crash, and if the
\* last save failed, was cut off or went into another directory.
SettingsSurvive ==
  phase \in Over /\ lastSave = "here"
    => \A k \in Keys : Stored[k] = chosen[k] \/ (k = "adVolume" /\ phase = "crashed")

\* The timer never opens a second dialog on top of the first, however often it
\* comes while that one is open.
OneDialog == dialogs <= 1

\* What a dialog shows is the end of a query, not the notifier's empty
\* information, and not the program's own version.
DialogHasAnswer == dialogs > 0 => result \notin {"NotInitiated", "AlreadyRecent"}

\* "Don't remind me again": once the user has said so, no update dialog comes up,
\* in this run or a later one that finds his choice.
DeclinedIsRespected ==
  [][dialogs' > dialogs => chosen["showUpdateInformation"] # Declined]_vars

Kept == INSTANCE Settings WITH open <- phase \notin Over, stored <- Stored

\* Refinement: the file is never a mixture.  Each save stores all that the user
\* has chosen or loses all of it, and only while the program runs.
ImplementsSettings == Kept!SettingsSpec

\* A version that differs, once stored, is brought to the user's attention,
\* whatever else goes on, unless he has declined that or the program ends.
UpdateIsAnnounced ==
  query = "stored" /\ result = "UpdateAvailable"
      /\ chosen["showUpdateInformation"] # Declined
    ~> dialogs > 0 \/ phase # "running"

-----------------------------------------------------------------------------
(* What the documentation promises and the code does not guarantee. *)

\* "save program properties to restore it the previous session" (README.md):
\* after an ordinary end and a complete save, the settings are found again.
SettingsRestored == phase = "off" /\ lastSave # "nowhere" => Stored = chosen

\* "A new version of Spotispy is avaialable" (Spotispy.rc:121), it says in the
\* update dialog.
OnlyNewVersionsAnnounced ==
  [][CheckUpdate /\ dialogs' > dialogs => released = "newer"]_vars
=============================================================================
