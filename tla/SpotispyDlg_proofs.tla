------------------------- MODULE SpotispyDlg_proofs -------------------------
(* Theorems about SpotispyDlg, for any settings, values and defaults.      *)
EXTENDS SpotispyDlg, TLAPS

USE AbsentAssumption, KeysAssumption

SaveFileType ==
  /\ data \in Contents /\ file \in Contents
  /\ elsewhere \in BOOLEAN /\ lastSave \in {"here", "elsewhere", "nowhere"}
  /\ saving \in {"no", "open", "write"}

NotifierType ==
  /\ query \in {"none", "asking", "stored", "done"}
  /\ hasData \in BOOLEAN /\ result \in Results /\ released \in Versions

DialogType ==
  /\ chosen \in [Keys -> Values]
  /\ phase \in Over \cup {"starting", "running", "closing", "ending"}
  /\ dialogs \in 0..MaxDialogs

-----------------------------------------------------------------------------
(* What reading and inserting make of settings. *)

\* Reading with a default gives a value, and reading it again the same one.
LEMMA OrDefaultType ==
  ASSUME NEW v \in Values \cup {Absent}, NEW d \in Values
  PROVE  /\ OrDefault(v, d) \in Values /\ OrDefault(OrDefault(v, d), d) = OrDefault(v, d)
  BY DEF OrDefault

\* Every setting has a default.
LEMMA DefaultsAreValues == \A k \in Keys : Default[k] \in Values
  OBVIOUS

\* What the user finds at the start is a value for every setting.
LEMMA StoredType == SaveFileType => Stored \in [Keys -> Values]
  BY OrDefaultType, DefaultsAreValues DEF SaveFileType, Stored, Contents

\* GetOrSaveDefault returns what it leaves in the settings.
LEMMA WithDefaultsLemma ==
  ASSUME NEW contents \in Contents, NEW keys \in SUBSET Keys
  PROVE  /\ WithDefaults(contents, keys, Default) \in Contents
         /\ \A k \in Keys : OrDefault(WithDefaults(contents, keys, Default)[k], Default[k])
                              = OrDefault(contents[k], Default[k])
<1>1. \A k \in Keys : contents[k] \in Values \cup {Absent}
  BY DEF Contents
<1>2. \A k \in Keys : WithDefaults(contents, keys, Default)[k]
                        = IF k \in keys THEN OrDefault(contents[k], Default[k]) ELSE contents[k]
  BY DEF WithDefaults
<1>3. WithDefaults(contents, keys, Default) \in Contents
  BY <1>1, OrDefaultType, DefaultsAreValues DEF WithDefaults, Contents
<1> QED
  BY <1>1, <1>2, <1>3, OrDefaultType, DefaultsAreValues

\* Insert sets its key and leaves the others alone.
LEMMA InsertLemma ==
  ASSUME NEW contents \in Contents, NEW key \in Keys, NEW v \in Values
  PROVE  /\ Insert(contents, key, v) \in Contents
         /\ Insert(contents, key, v)[key] = v
         /\ \A k \in Keys \ {key} : Insert(contents, key, v)[k] = contents[k]
  BY DEF Insert, Contents

-----------------------------------------------------------------------------
(* Settings.  While the program runs, its data are what the user has chosen *)
(* (DataAreChosen); from the last complete save on, so is the file, but for *)
(* a slider moved since.                                                    *)

DataAreChosen == phase \notin Over => \A k \in Keys : OrDefault(data[k], Default[k]) = chosen[k]

FileIsChosen ==
  lastSave = "here" =>
    \A k \in Keys : Stored[k] = chosen[k] \/ (k = "adVolume" /\ phase \in {"running", "crashed"})

SaveControl ==
  /\ saving # "no" => lastSave = "nowhere" /\ phase \notin Over
  /\ phase = "ending" => saving = "no"

SettingsInv == SaveFileType /\ DialogType /\ DataAreChosen /\ FileIsChosen /\ SaveControl

\* The handlers that insert a value: data and chosen change alike.
LEMMA SettingStep ==
  ASSUME SettingsInv, phase = "running", phase' = phase, dialogs' \in 0..MaxDialogs,
         file' = file, elsewhere' \in BOOLEAN,
         NEW key \in Keys, NEW v \in Values,
         data' = Insert(data, key, v), chosen' = [chosen EXCEPT ![key] = v],
         \/ BeginSave
         \/ key = "adVolume" /\ UNCHANGED <<saving, lastSave>>
  PROVE  SettingsInv'
<1> USE DEF SettingsInv
<1>1. data' \in Contents /\ chosen' \in [Keys -> Values]
  BY InsertLemma DEF SaveFileType, DialogType
<1>2. SaveFileType' /\ DialogType'
  BY <1>1 DEF SaveFileType, DialogType, BeginSave
<1>3. DataAreChosen'
  <2>1. \A k \in Keys \ {key} : data'[k] = data[k] /\ chosen'[k] = chosen[k]
    <3>1. data \in Contents
      BY DEF SaveFileType
    <3>2. \A k \in Keys \ {key} : data'[k] = data[k]
      BY <3>1 DEF Insert, Contents
    <3>3. chosen \in [Keys -> Values]
      BY DEF DialogType
    <3>4. \A k \in Keys \ {key} : chosen'[k] = chosen[k]
      BY <3>3
    <3> QED
      BY <3>2, <3>4
  <2>2. OrDefault(data'[key], Default[key]) = chosen'[key]
    BY InsertLemma DEF SaveFileType, DialogType, OrDefault
  <2> QED
    BY <2>1, <2>2 DEF DataAreChosen, Over
<1>4. FileIsChosen'
  BY DEF FileIsChosen, Stored, BeginSave, DialogType
<1>5. SaveControl'
  BY DEF SaveControl, BeginSave, Over
<1> QED
  BY <1>2, <1>3, <1>4, <1>5

\* Whatever file the program starts with.
LEMMA SettingsInit == Init => SettingsInv
<1> SUFFICES ASSUME Init PROVE SettingsInv
  OBVIOUS
<1>1. SaveFileType
  BY DEF Init, SaveFileInit, SaveFileType, Nothing, Contents
<1> QED
  BY <1>1, StoredType DEF Init, SaveFileInit, SettingsInv, DialogType, DataAreChosen,
    FileIsChosen, SaveControl, Over

\* SaveToFile: what a complete save leaves in the file is what the user has chosen.
LEMMA SaveStep ==
  ASSUME SettingsInv, Save
  PROVE  SettingsInv'
<1> USE DEF SettingsInv
<1>1. UNCHANGED <<phase, dialogs, chosen>>
  BY DEF Save
<1>2. CASE Truncate \/ CannotOpen \/ CannotWrite
  <2>1. saving # "no" /\ UNCHANGED <<data, elsewhere, lastSave>>
    BY <1>2 DEF Truncate, CannotOpen, CannotWrite
  <2>2. file' \in Contents /\ saving' \in {"no", "write"}
    BY <1>2 DEF Truncate, CannotOpen, CannotWrite, SaveFileType, Nothing, Contents
  <2> QED
    BY <1>1, <2>1, <2>2 DEF SaveFileType, DialogType, DataAreChosen, FileIsChosen, SaveControl, Over
<1>3. CASE WriteOut
  <2>1. /\ saving = "write" /\ saving' = "no"
        /\ file' = IF elsewhere THEN file ELSE data
        /\ lastSave' = IF elsewhere THEN "elsewhere" ELSE "here"
        /\ UNCHANGED <<data, elsewhere>>
    BY <1>3 DEF WriteOut
  <2>2. phase \notin Over
    BY <2>1 DEF SaveControl
  <2>3. SaveFileType' /\ DialogType' /\ DataAreChosen' /\ SaveControl'
    BY <1>1, <2>1 DEF SaveFileType, DialogType, DataAreChosen, SaveControl, Over
  <2>4. FileIsChosen'
    BY <1>1, <2>1, <2>2 DEF FileIsChosen, Stored, DataAreChosen
  <2> QED
    BY <2>3, <2>4
<1> QED
  BY <1>2, <1>3 DEF Save, SaveToFile

\* Every step keeps the settings, the file and what the user has chosen in line.
LEMMA SettingsNext == SettingsInv /\ [Next]_vars => SettingsInv'
<1> SUFFICES ASSUME SettingsInv, [Next]_vars PROVE SettingsInv'
  OBVIOUS
<1> USE DEF SettingsInv
<1>0. ASSUME UNCHANGED <<saveFile, phase, chosen>>, dialogs' \in 0..MaxDialogs PROVE SettingsInv'
  BY <1>0 DEF saveFile, SaveFileType, DialogType, DataAreChosen, FileIsChosen, Stored, SaveControl
<1>1. CASE OnInitDialog
  <2>1. /\ phase \in Over /\ phase' = "starting" /\ elsewhere' = FALSE /\ file' = file
        /\ data' = WithDefaults(file, Keys \ {"showUpdateInformation"}, Default)
        /\ chosen' = Stored /\ saving' = "open" /\ lastSave' = "nowhere" /\ dialogs' = dialogs
    BY <1>1 DEF OnInitDialog, BeginSave
  <2>2. chosen' \in [Keys -> Values]
    BY <2>1, StoredType
  <2>3. file \in Contents
    BY DEF SaveFileType
  <2>4. /\ data' \in Contents
        /\ \A k \in Keys : OrDefault(data'[k], Default[k]) = OrDefault(file[k], Default[k])
    BY <2>1, <2>3, WithDefaultsLemma
  <2>5. DataAreChosen'
    BY <2>1, <2>4 DEF DataAreChosen, Stored
  <2> QED
    BY <2>1, <2>2, <2>4, <2>5 DEF SaveFileType, DialogType, FileIsChosen, SaveControl, Over
<1>2. CASE ChangeSetting
  <2>1. PICK k \in Keys \ Named, v \in Values :
          data' = Insert(data, k, v) /\ chosen' = [chosen EXCEPT ![k] = v]
    BY <1>2 DEF ChangeSetting
  <2>2. BeginSave /\ phase = "running" /\ UNCHANGED <<file, elsewhere, phase, dialogs>>
    BY <1>2 DEF ChangeSetting, Idle
  <2> QED
    BY <2>1, <2>2, SettingStep DEF SaveFileType, DialogType
<1>3. CASE OnNMCustomdrawSlider1
  <2>1. PICK v \in Values :
          data' = Insert(data, "adVolume", v) /\ chosen' = [chosen EXCEPT !["adVolume"] = v]
    BY <1>3 DEF OnNMCustomdrawSlider1
  <2>2. phase = "running" /\ UNCHANGED <<file, elsewhere, saving, lastSave, phase, dialogs>>
    BY <1>3 DEF OnNMCustomdrawSlider1, Idle
  <2>3. "adVolume" \in Keys
    BY DEF Named
  <2> QED
    BY <2>1, <2>2, <2>3, SettingStep DEF SaveFileType, DialogType
<1>4. CASE OnBnClickedButtonSaveStreamInfo
  <2>1. phase = "running" /\ elsewhere' \in BOOLEAN /\ UNCHANGED <<file, phase, dialogs>>
    BY <1>4 DEF OnBnClickedButtonSaveStreamInfo, Idle
  <2>2. CASE UNCHANGED <<data, chosen, saving, lastSave>>
    BY <2>1, <2>2 DEF SaveFileType, DialogType, DataAreChosen, FileIsChosen, Stored, SaveControl
  <2>3. CASE /\ BeginSave
             /\ \E v \in Values : /\ data' = Insert(data, "streamFilePath", v)
                                  /\ chosen' = [chosen EXCEPT !["streamFilePath"] = v]
    BY <2>1, <2>3, SettingStep DEF DialogType, Named
  <2> QED
    BY <1>4, <2>2, <2>3 DEF OnBnClickedButtonSaveStreamInfo
<1>5. CASE CheckUpdate
  <2>1. /\ phase = "running" /\ saving = "no" /\ UNCHANGED <<file, elsewhere, phase, chosen>>
        /\ data' = WithDefaults(data, {"showUpdateInformation"}, Default)
    BY <1>5 DEF CheckUpdate, Idle
  <2>2. BeginSave \/ UNCHANGED <<saving, lastSave>>
    BY <1>5 DEF CheckUpdate
  <2>3. dialogs' \in 0..MaxDialogs
    BY <1>5 DEF CheckUpdate, DialogType
  <2>4. /\ data' \in Contents
        /\ \A k \in Keys : OrDefault(data'[k], Default[k]) = OrDefault(data[k], Default[k])
    BY <2>1, WithDefaultsLemma DEF SaveFileType, Named
  <2>5. DataAreChosen'
    BY <2>1, <2>4 DEF DataAreChosen
  <2>6. FileIsChosen' /\ SaveControl'
    BY <2>1, <2>2 DEF FileIsChosen, Stored, SaveControl, BeginSave, Over
  <2> QED
    BY <2>1, <2>2, <2>3, <2>4, <2>5, <2>6 DEF SaveFileType, DialogType, BeginSave
<1>6. CASE Answer
  <2>1. /\ BeginSave /\ phase = "running" /\ UNCHANGED <<file, elsewhere, phase>>
    BY <1>6 DEF Answer, Idle
  <2>2. dialogs' \in 0..MaxDialogs
    BY <1>6 DEF Answer, DialogType
  <2>3. CASE UNCHANGED <<data, chosen>>
    BY <2>1, <2>2, <2>3 DEF BeginSave, SaveFileType, DialogType, DataAreChosen, FileIsChosen, SaveControl, Over
  <2>4. CASE /\ data' = Insert(data, "showUpdateInformation", Declined)
             /\ chosen' = [chosen EXCEPT !["showUpdateInformation"] = Declined]
    <3>1. "showUpdateInformation" \in Keys /\ Declined \in Values
      BY DEF Named
    <3> QED
      BY <2>1, <2>2, <2>4, <3>1, SettingStep DEF SaveFileType
  <2> QED
    BY <1>6, <2>3, <2>4 DEF Answer
<1>7. CASE Close
  BY <1>7 DEF Close, Idle, BeginSave, SaveFileType, DialogType, DataAreChosen, FileIsChosen,
    SaveControl, Over
<1>8. CASE Save
  BY <1>8, SaveStep
<1>9. CASE Started
  <2>1. phase = "starting" /\ phase' = "running" /\ UNCHANGED <<saveFile, dialogs, chosen>>
    BY <1>9 DEF Started
  <2> QED
    BY <2>1 DEF saveFile, SaveFileType, DialogType, DataAreChosen, FileIsChosen, Stored,
      SaveControl, Over
<1>10. CASE DestroyNotifier
  <2>1. /\ phase = "closing" /\ saving = "no" /\ phase' = "ending"
        /\ UNCHANGED <<saveFile, dialogs, chosen>>
    BY <1>10 DEF DestroyNotifier
  <2> QED
    BY <2>1 DEF saveFile, SaveFileType, DialogType, DataAreChosen, FileIsChosen, Stored,
      SaveControl, Over
<1>11. CASE UseAfterFree \/ Exit
  <2>1. /\ phase = "ending" /\ phase' \in {"ending", "off", "crashed"}
        /\ UNCHANGED <<saveFile, dialogs, chosen>>
    BY <1>11 DEF UseAfterFree, Exit
  <2> QED
    BY <2>1 DEF saveFile, SaveFileType, DialogType, DataAreChosen, FileIsChosen, Stored,
      SaveControl, Over
<1>12. CASE Crash
  BY <1>12 DEF Crash, SaveFileType, DialogType, DataAreChosen, FileIsChosen, Stored,
    SaveControl, Over
<1>13. CASE Query \/ Environment \/ UNCHANGED vars
  <2>1. UNCHANGED <<saveFile, phase, dialogs, chosen>>
    BY <1>13 DEF Query, Environment, vars
  <2> QED
    BY <1>0, <2>1 DEF DialogType
<1> QED
  BY <1>1, <1>2, <1>3, <1>4, <1>5, <1>6, <1>7, <1>8, <1>9, <1>10, <1>11, <1>12, <1>13
    DEF Next, User

\* However runs, saves and crashes follow each other, the next start finds what
\* the user has set, with the exceptions SettingsSurvive names.
THEOREM SettingsTheorem == Spec => []SettingsSurvive
<1>1. SettingsInv => SettingsSurvive
  BY DEF SettingsInv, SettingsSurvive, FileIsChosen, Over
<1> QED
  BY <1>1, SettingsInit, SettingsNext, PTL DEF Spec

\* "Don't remind me again" holds from then on: what the check reads is what the
\* user has chosen.
THEOREM DeclinedTheorem == Spec => DeclinedIsRespected
<1>1. SettingsInv /\ [Next]_vars
        => [dialogs' > dialogs => chosen["showUpdateInformation"] # Declined]_vars
  <2> SUFFICES ASSUME SettingsInv, Next, dialogs' > dialogs
               PROVE  chosen["showUpdateInformation"] # Declined
    OBVIOUS
  <2>1. dialogs \in Nat /\ dialogs' # dialogs
    BY DEF SettingsInv, DialogType
  <2>2. CheckUpdate
    BY <2>1 DEF Next, User, OnInitDialog, ChangeSetting, OnNMCustomdrawSlider1,
      OnBnClickedButtonSaveStreamInfo, Answer, Close, Save, Started, Query, DestroyNotifier,
      UseAfterFree, Exit, Crash, Environment
  <2>3. phase = "running" /\ data' = WithDefaults(data, {"showUpdateInformation"}, Default)
    BY <2>2 DEF CheckUpdate, Idle
  <2>4. data'["showUpdateInformation"] # Declined
    BY <2>1, <2>2 DEF CheckUpdate
  <2>5. data'["showUpdateInformation"]
          = OrDefault(data["showUpdateInformation"], Default["showUpdateInformation"])
    BY <2>3 DEF WithDefaults, Named
  <2> QED
    BY <2>3, <2>4, <2>5 DEF SettingsInv, DataAreChosen, Over, Named
<1> QED
  BY <1>1, SettingsInit, SettingsNext, PTL DEF Spec, DeclinedIsRespected

-----------------------------------------------------------------------------
(* Refinement: the settings, their file and its saves implement Settings.   *)

\* A file that nothing can be read from stands for the defaults.
LEMMA NothingStored == ASSUME file' = Nothing PROVE Stored' = Default
<1>1. Stored' = [k \in Keys |-> Default[k]]
  BY DEF Stored, Nothing, OrDefault
<1>2. Default \in [Keys -> Values]
  OBVIOUS
<1> QED
  BY <1>1, <1>2

\* Each step starts a run, ends it, chooses a setting, stores all of them, loses
\* all of them, or leaves them alone.
LEMMA KeptStep ==
  ASSUME SettingsInv, [Next]_vars
  PROVE  [Kept!SettingsNext]_<<phase \notin Over, chosen, Stored>>
<1> DEFINE Open == phase \notin Over
           Goal == [Kept!SettingsNext]_<<phase \notin Over, chosen, Stored>>
<1> USE DEF SettingsInv
<1>0. ASSUME UNCHANGED <<file, chosen>>, Open' <=> Open PROVE Goal
  BY <1>0, Zenon DEF Stored
<1>1. ASSUME Open, ~Open', UNCHANGED <<file, chosen>> PROVE Goal
  <2>1. Stored' = Stored
    BY <1>1 DEF Stored
  <2> QED
    BY <1>1, <2>1, Zenon DEF Kept!SettingsNext, Kept!EndRun
<1>2. ASSUME Open, Open', UNCHANGED file,
             \E k \in Keys, v \in Values : chosen' = [chosen EXCEPT ![k] = v]
      PROVE  Goal
  <2>1. Stored' = Stored
    BY <1>2 DEF Stored
  <2> QED
    BY <1>2, <2>1, Zenon DEF Kept!SettingsNext, Kept!Choose
<1>3. ASSUME Open, Open', UNCHANGED chosen, Stored' = chosen \/ Stored' = Default PROVE Goal
  BY <1>3, Zenon DEF Kept!SettingsNext, Kept!StoreAll, Kept!LoseAll
<1>4. ASSUME OnInitDialog PROVE Goal
  <2>1. ~Open /\ Open' /\ chosen' = Stored /\ file' = file
    BY <1>4 DEF OnInitDialog, Over
  <2>2. Stored' = Stored
    BY <2>1 DEF Stored
  <2> QED
    BY <2>1, <2>2, Zenon DEF Kept!SettingsNext, Kept!StartRun
<1> HIDE DEF Goal
<1>5. ASSUME ChangeSetting PROVE Goal
  <2>1. UNCHANGED <<file, phase>> /\ Open
    BY <1>5 DEF ChangeSetting, Idle, Over
  <2>2. \E k \in Keys, v \in Values : chosen' = [chosen EXCEPT ![k] = v]
    BY <1>5 DEF ChangeSetting
  <2> QED
    BY <1>2, <2>1, <2>2
<1>6. ASSUME OnNMCustomdrawSlider1 PROVE Goal
  <2>1. UNCHANGED <<file, phase>> /\ Open
    BY <1>6 DEF OnNMCustomdrawSlider1, Idle, Over
  <2>2. \E k \in Keys, v \in Values : chosen' = [chosen EXCEPT ![k] = v]
    BY <1>6 DEF OnNMCustomdrawSlider1, Named
  <2> QED
    BY <1>2, <2>1, <2>2
<1>7. ASSUME OnBnClickedButtonSaveStreamInfo PROVE Goal
  <2>1. UNCHANGED <<file, phase>> /\ Open
    BY <1>7 DEF OnBnClickedButtonSaveStreamInfo, Idle, Over
  <2>2. \/ UNCHANGED chosen
        \/ \E k \in Keys, v \in Values : chosen' = [chosen EXCEPT ![k] = v]
    BY <1>7 DEF OnBnClickedButtonSaveStreamInfo, Named
  <2> QED
    BY <1>0, <1>2, <2>1, <2>2
<1>8. ASSUME Answer PROVE Goal
  <2>1. UNCHANGED <<file, phase>> /\ Open
    BY <1>8 DEF Answer, Idle, Over
  <2>2. \/ UNCHANGED chosen
        \/ \E k \in Keys, v \in Values : chosen' = [chosen EXCEPT ![k] = v]
    BY <1>8 DEF Answer, Named
  <2> QED
    BY <1>0, <1>2, <2>1, <2>2
<1>9. ASSUME Save PROVE Goal
  <2>1. UNCHANGED <<phase, chosen>> /\ Open
    BY <1>9 DEF Save, SaveToFile, Truncate, CannotOpen, WriteOut, CannotWrite, SaveControl
  <2>2. CASE UNCHANGED file
    BY <1>0, <2>1, <2>2
  <2>3. CASE file' = Nothing
    BY <1>3, <2>1, <2>3, NothingStored
  <2>4. CASE file' = data
    <3>1. Stored' = [k \in Keys |-> OrDefault(data[k], Default[k])]
      BY <2>4 DEF Stored
    <3>2. Stored' = chosen
      BY <2>1, <3>1 DEF DataAreChosen, DialogType
    <3> QED
      BY <1>3, <2>1, <3>2
  <2> QED
    BY <1>9, <2>2, <2>3, <2>4 DEF Save, SaveToFile, Truncate, CannotOpen, WriteOut, CannotWrite
<1>10. ASSUME Started \/ CheckUpdate \/ Close \/ DestroyNotifier PROVE Goal
  <2>1. UNCHANGED <<file, chosen>> /\ Open /\ Open'
    BY <1>10 DEF Started, CheckUpdate, Close, DestroyNotifier, Idle, saveFile, Over
  <2> QED
    BY <1>0, <2>1
<1>11. ASSUME UseAfterFree \/ Exit \/ Crash PROVE Goal
  <2>1. UNCHANGED <<file, chosen>> /\ Open
    BY <1>11 DEF UseAfterFree, Exit, Crash, saveFile, Over
  <2> QED
    BY <1>0, <1>1, <2>1
<1>12. ASSUME Query \/ Environment \/ UNCHANGED vars PROVE Goal
  <2>1. UNCHANGED <<file, chosen, phase>>
    BY <1>12 DEF Query, Environment, vars, saveFile
  <2> QED
    BY <1>0, <2>1
<1> QED
  BY <1>4, <1>5, <1>6, <1>7, <1>8, <1>9, <1>10, <1>11, <1>12 DEF Next, User, Goal

\* The settings' file is never a mixture, whatever fails, whenever it crashes.
THEOREM KeptTheorem == Spec => ImplementsSettings
<1>1. Init => Kept!SettingsInit
  <2> SUFFICES ASSUME Init PROVE Kept!SettingsInit
    OBVIOUS
  <2>1. Stored \in [Keys -> Values]
    BY StoredType, SettingsInit DEF SettingsInv
  <2>2. (phase \notin Over) = FALSE /\ chosen = Stored
    BY DEF Init, Over
  <2> QED
    BY <2>1, <2>2 DEF Kept!SettingsInit
<1> QED
  BY <1>1, SettingsInit, SettingsNext, KeptStep, PTL
    DEF Spec, ImplementsSettings, Kept!SettingsSpec, Kept!settings

-----------------------------------------------------------------------------
(* The update check.  There is one query a run, and while it lasts, or its  *)
(* data wait for the timer, no dialog is open.                              *)

DialogInv ==
  /\ dialogs \in {0, 1}
  /\ phase # "running" => dialogs = 0
  /\ query = "stored" => result # "NotInitiated"
  /\ phase = "running" =>
       /\ query \in {"asking", "stored"} => ~hasData /\ dialogs = 0
       /\ hasData => dialogs = 0 /\ result # "NotInitiated"
  /\ dialogs > 0 => result \notin {"NotInitiated", "AlreadyRecent"}

QueryInv == NotifierType /\ DialogInv

\* No query has been made.
LEMMA QueryInit == Init => QueryInv
<1> SUFFICES ASSUME Init PROVE QueryInv
  OBVIOUS
<1>1. query = "none" /\ ~hasData /\ result = "NotInitiated" /\ phase = "off" /\ dialogs = 0
  BY DEF Init, NotifierInit
<1>2. hasData \in BOOLEAN /\ released \in Versions
  BY Zenon DEF Init, NotifierInit
<1> QED
  BY <1>1, <1>2 DEF QueryInv, NotifierType, DialogInv, Results

\* Every step keeps the query's order and its one dialog.
LEMMA QueryNext == QueryInv /\ [Next]_vars => QueryInv'
<1> SUFFICES ASSUME QueryInv, [Next]_vars PROVE QueryInv'
  OBVIOUS
<1> USE DEF QueryInv, NotifierType, DialogInv
<1>0. ASSUME UNCHANGED <<updateNotifier, phase, dialogs>> PROVE QueryInv'
  BY <1>0 DEF updateNotifier
<1>1. CASE OnInitDialog \/ Close \/ DestroyNotifier
  <2>1. dialogs = 0 /\ dialogs' = 0 /\ phase' # "running" /\ UNCHANGED updateNotifier
    BY <1>1 DEF OnInitDialog, Close, DestroyNotifier, Over
  <2> QED
    BY <2>1 DEF updateNotifier
<1>2. CASE Started
  <2>1. /\ phase = "starting" /\ phase' = "running" /\ dialogs' = dialogs
        /\ query' = "asking" /\ ~hasData' /\ result' = "NotInitiated" /\ released' = released
    BY <1>2 DEF Started, QueryResult
  <2>2. hasData' \in BOOLEAN
    BY <1>2, Zenon DEF Started, QueryResult
  <2> QED
    BY <2>1, <2>2 DEF Results
<1>3. CASE ChangeSetting \/ OnNMCustomdrawSlider1 \/ OnBnClickedButtonSaveStreamInfo \/ Save
             \/ UNCHANGED vars
  <2>1. UNCHANGED <<updateNotifier, phase, dialogs>>
    BY <1>3 DEF ChangeSetting, OnNMCustomdrawSlider1, OnBnClickedButtonSaveStreamInfo, Save, vars
  <2> QED
    BY <1>0, <2>1
<1>4. CASE CheckUpdate
  <2>1. /\ phase = "running" /\ phase' = phase /\ hasData /\ hasData' = FALSE
        /\ UNCHANGED <<query, result, released>>
    BY <1>4 DEF CheckUpdate, Idle, FetchData
  <2>2. dialogs = 0 /\ query \notin {"asking", "stored"} /\ result # "NotInitiated"
    BY <2>1
  <2>3. dialogs' = 0 \/ (dialogs' = 1 /\ result # "AlreadyRecent")
    BY <1>4, <2>2 DEF CheckUpdate, VersionDiffers
  <2> QED
    BY <2>1, <2>2, <2>3
<1>5. CASE Answer
  <2>1. dialogs = 1 /\ dialogs' = 0 /\ UNCHANGED <<updateNotifier, phase>>
    BY <1>5 DEF Answer
  <2> QED
    BY <2>1 DEF updateNotifier
<1>6. CASE Query
  <2>1. UNCHANGED <<phase, dialogs>>
    BY <1>6 DEF Query
  <2>2. CASE Answered
    BY <2>1, <2>2 DEF Answered, Results
  <2>3. CASE QueryThrows
    BY <2>1, <2>3 DEF QueryThrows
  <2>4. CASE Announce
    BY <2>1, <2>4 DEF Announce
  <2> QED
    BY <1>6, <2>2, <2>3, <2>4 DEF Query
<1>7. CASE UseAfterFree \/ Exit
  BY <1>7 DEF UseAfterFree, Exit
<1>8. CASE Crash
  BY <1>8 DEF Crash
<1>9. CASE Environment
  BY <1>9 DEF Environment, Release
<1> QED
  BY <1>1, <1>2, <1>3, <1>4, <1>5, <1>6, <1>7, <1>8, <1>9 DEF Next, User

\* Timer 3, which goes on while the update dialog is open, never opens another.
THEOREM OneDialogTheorem == Spec => []OneDialog
<1>1. QueryInv => OneDialog
  BY DEF QueryInv, DialogInv, OneDialog
<1> QED
  BY <1>1, QueryInit, QueryNext, PTL DEF Spec

\* Between the query thread's two critical sections nothing can be fetched.
THEOREM AnswerTheorem == Spec => []DialogHasAnswer
<1>1. QueryInv => DialogHasAnswer
  BY DEF QueryInv, DialogInv, DialogHasAnswer
<1> QED
  BY <1>1, QueryInit, QueryNext, PTL DEF Spec

\* Settings, notifier and dialog keep their types; a setting that is shown always
\* has a value.
THEOREM TypeTheorem == Spec => []TypeOK
<1>1. SettingsInv /\ QueryInv => TypeOK
  BY DEF SettingsInv, QueryInv, SaveFileType, NotifierType, DialogType, TypeOK
<1> QED
  BY <1>1, SettingsInit, SettingsNext, QueryInit, QueryNext, PTL DEF Spec
=============================================================================
