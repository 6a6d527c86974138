---------------------------- MODULE JSONSaveFile ----------------------------
(***************************************************************************)
(* The settings, in memory and in dlgPrefs.json (JSONSaveFile.cpp).  The   *)
(* file's name is relative, so it is the one in the process's current      *)
(* directory.  A file that is missing, cut off or no JSON is read as one   *)
(* without any setting, and a setting of another type than expected as no  *)
(* setting; data and file stand for what can be read.                      *)
(***************************************************************************)

CONSTANTS
  Keys,     \* the names of the settings
  Values,
  Absent    \* what a key without a value has

ASSUME AbsentAssumption == Absent \notin Values

VARIABLES
  data,       \* m_data
  file,       \* environment: the dlgPrefs.json that Spotispy starts with
  elsewhere,  \* environment: the current directory is another one than at the start
  saving,     \* SaveToFile: "no", "open", "write"
  lastSave    \* history: went "here" or "elsewhere", or "nowhere": it failed or was cut off

saveFile == <<data, file, elsewhere, saving, lastSave>>

Contents == [Keys -> Values \cup {Absent}]
Nothing == [k \in Keys |-> Absent]

SaveFileInit ==
  /\ data = Nothing /\ file \in Contents
  /\ elsewhere = FALSE /\ saving = "no" /\ lastSave = "here"

\* Mutant of OrDefault: the default is not returned.
OrNothing(value, default) == value

OrDefault(value, default) == IF value = Absent THEN default ELSE value

\* Mutant of WithDefaults: what was there is overwritten by the default.
DefaultsOnly(contents, keys, default) ==
  [k \in Keys |-> IF k \in keys THEN default[k] ELSE contents[k]]

\* What LoadFromFile and a GetOrSaveDefault for each of the keys make of contents.
WithDefaults(contents, keys, default) ==
  [k \in Keys |-> IF k \in keys THEN OrDefault(contents[k], default[k]) ELSE contents[k]]

\* Mutant of Insert: a value that is there stays.
InsertOnlyNew(contents, key, value) ==
  [contents EXCEPT ![key] = IF @ = Absent THEN value ELSE @]

Insert(contents, key, value) == [contents EXCEPT ![key] = value]

\* SaveToFile is called.
BeginSave == saving' = "open" /\ lastSave' = "nowhere"

\* Opening the file empties it, or fails without a word to the caller.
Truncate ==
  /\ saving = "open" /\ saving' = "write"
  /\ file' = IF elsewhere THEN file ELSE Nothing
  /\ UNCHANGED <<data, elsewhere, lastSave>>

CannotOpen ==
  /\ saving = "open" /\ saving' = "no"
  /\ UNCHANGED <<data, file, elsewhere, lastSave>>

WriteOut ==
  /\ saving = "write" /\ saving' = "no"
  /\ file' = IF elsewhere THEN file ELSE data
  /\ lastSave' = IF elsewhere THEN "elsewhere" ELSE "here"
  /\ UNCHANGED <<data, elsewhere>>

\* The disk is full: nothing readable is in the file, and the result is true.
CannotWrite ==
  /\ saving = "write" /\ saving' = "no"
  /\ UNCHANGED <<data, file, elsewhere, lastSave>>

SaveToFile == Truncate \/ CannotOpen \/ WriteOut \/ CannotWrite
=============================================================================
