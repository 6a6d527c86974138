----------------------------- MODULE StreamFile -----------------------------
(***************************************************************************)
(* The text file for the streaming software: what the dialog's second      *)
(* timer writes to it every 100 ms (SpotispyDlg.cpp), and the handlers     *)
(* that change how.  The last play string is kept so that it is written    *)
(* only when it changes.  Writing opens the file anew each time, and fails *)
(* without a word while another program keeps it locked.                   *)
(***************************************************************************)
EXTENDS PlayString

CONSTANTS
  Songs,    \* records as PlayString describes them
  Formats,  \* sets of placeholders
  AdTexts   \* texts for the time of an ad

ASSUME FormatsAssumption == Formats \subseteq SUBSET Placeholders

VARIABLES
  saveTwitchInfo,      \* m_saveTwitchInfo
  twitchFormat,        \* m_twitchFormat
  adText,              \* m_adText
  bufferedPlayString,  \* m_bufferedPlayString
  playing,             \* the analyzer's m_metaData: "null", "ad" or "song"
  song,                \* the song in it
  running,             \* environment: spotify.exe is running
  file,                \* environment: the text in the file named by m_twitchFilePath
  locked,              \* environment: that file cannot be opened
  refused,             \* history: bufferedPlayString did not get into the file
  covered              \* history: and something else has been written since

settings == <<saveTwitchInfo, twitchFormat, adText>>
analyzer == <<playing, song, running>>
vars == <<settings, bufferedPlayString, analyzer, file, locked, refused, covered>>

AdLine(text) == [kind |-> "ad", text |-> text]
Foreign == [kind |-> "foreign"]  \* what the file held before

Init ==
  /\ saveTwitchInfo \in BOOLEAN /\ twitchFormat \in Formats /\ adText \in AdTexts
  /\ bufferedPlayString = Empty
  /\ playing = "null" /\ song \in Songs /\ running \in BOOLEAN
  /\ file \in {Empty, Foreign} /\ locked \in BOOLEAN
  /\ refused = FALSE /\ covered = FALSE

-----------------------------------------------------------------------------
(* OnTimer(2). *)

\* Mutant of Write: the file is opened to append to it.
WriteAppends(text) ==
  file' = IF locked THEN file ELSE [kind |-> "appended", before |-> file, text |-> text]

\* WritePlayString.  If the file cannot be opened, nobody is told.
Write(text) == file' = IF locked THEN file ELSE text

SongIsPlaying == saveTwitchInfo /\ running /\ playing = "song"
playString == FormatPlayString(twitchFormat, song)

\* Mutant of WriteSong: the play string is compared with the empty one.
WriteFirstSong ==
  /\ SongIsPlaying
  /\ \/ /\ bufferedPlayString = Empty
        /\ Write(playString)
        /\ bufferedPlayString' = playString
        /\ refused' = locked /\ covered' = FALSE
     \/ /\ bufferedPlayString # Empty
        /\ UNCHANGED <<file, bufferedPlayString, refused, covered>>
  /\ UNCHANGED <<settings, analyzer, locked>>

\* Mutant of WriteSong: what is written is the last play string.
WriteSongLate ==
  /\ SongIsPlaying
  /\ \/ /\ playString # bufferedPlayString
        /\ Write(bufferedPlayString)
        /\ bufferedPlayString' = playString
        /\ refused' = locked /\ covered' = FALSE
     \/ /\ playString = bufferedPlayString
        /\ UNCHANGED <<file, bufferedPlayString, refused, covered>>
  /\ UNCHANGED <<settings, analyzer, locked>>

WriteSong ==
  /\ SongIsPlaying
  /\ \/ /\ playString # bufferedPlayString
        /\ Write(playString)
        /\ bufferedPlayString' = playString
        /\ refused' = locked /\ covered' = FALSE
     \/ /\ playString = bufferedPlayString
        /\ UNCHANGED <<file, bufferedPlayString, refused, covered>>
  /\ UNCHANGED <<settings, analyzer, locked>>

\* Mutant of WriteOther: the ad's text is written once, as the play string is.
WriteOtherOnce ==
  /\ saveTwitchInfo
  /\ \/ running /\ playing = "ad" /\ bufferedPlayString # AdLine(adText) /\ Write(AdLine(adText))
     \/ ~running /\ bufferedPlayString # Empty /\ Write(Empty)
  /\ bufferedPlayString' = IF running THEN AdLine(adText) ELSE Empty
  /\ covered' = (covered \/ ~locked)
  /\ UNCHANGED <<settings, analyzer, locked, refused>>

\* The ad's text, or nothing when Spotify is gone, over and over again.
WriteOther ==
  /\ saveTwitchInfo
  /\ \/ running /\ playing = "ad" /\ Write(AdLine(adText))
     \/ ~running /\ Write(Empty)
  /\ covered' = (covered \/ ~locked)
  /\ UNCHANGED <<settings, bufferedPlayString, analyzer, locked, refused>>

OnTimer == WriteSong \/ WriteOther

-----------------------------------------------------------------------------
(* The other handlers of the dialog, and its restart. *)

OnBnClickedCheckSaveTwitchInfo ==
  /\ saveTwitchInfo' = ~saveTwitchInfo
  /\ UNCHANGED <<twitchFormat, adText, bufferedPlayString, analyzer, file, locked, refused, covered>>

OnBnClickedButtonSaveTwitchFormat ==
  /\ twitchFormat' \in Formats
  /\ UNCHANGED <<saveTwitchInfo, adText, bufferedPlayString, analyzer, file, locked, refused, covered>>

OnBnClickedButtonSaveAdText ==
  /\ adText' \in AdTexts
  /\ UNCHANGED <<saveTwitchInfo, twitchFormat, bufferedPlayString, analyzer, file, locked, refused, covered>>

\* Another path is taken only if its file can be opened, which empties it.
OnBnClickedButtonSaveStreamInfo ==
  /\ file' = Empty /\ locked' = FALSE /\ covered' = TRUE
  /\ UNCHANGED <<settings, bufferedPlayString, analyzer, refused>>

\* Spotispy ends, between the opening of the file and the writing at worst, and
\* starts again: the settings survive (module SpotispyDlg), the last play string
\* does not.
Restart ==
  /\ bufferedPlayString' = Empty /\ playing' = "null"
  /\ file' \in {file} \cup IF saveTwitchInfo /\ ~locked THEN {Empty} ELSE {}
  /\ refused' = FALSE /\ covered' = FALSE
  /\ UNCHANGED <<settings, song, running, locked>>

\* OnTimer(1) gives the analyzer other meta data (module SpotifyAnalyzer).
Analyze ==
  /\ playing' \in {"null", "ad", "song"} /\ song' \in Songs
  /\ UNCHANGED <<settings, bufferedPlayString, running, file, locked, refused, covered>>

\* external
SpotifyStartsOrQuits ==
  /\ running' = ~running
  /\ UNCHANGED <<settings, bufferedPlayString, playing, song, file, locked, refused, covered>>

\* external: the program that shows the file, or an editor.
FileIsLockedOrReleased ==
  /\ locked' = ~locked
  /\ UNCHANGED <<settings, bufferedPlayString, analyzer, file, refused, covered>>

-----------------------------------------------------------------------------
Dialog ==
  \/ OnBnClickedCheckSaveTwitchInfo \/ OnBnClickedButtonSaveTwitchFormat
  \/ OnBnClickedButtonSaveAdText \/ OnBnClickedButtonSaveStreamInfo \/ Restart

Outside == Analyze \/ SpotifyStartsOrQuits \/ FileIsLockedOrReleased

Next == OnTimer \/ Dialog \/ Outside

\* Windows keeps delivering WM_TIMER.
Spec == Init /\ [][Next]_vars /\ WF_vars(OnTimer)

-----------------------------------------------------------------------------
PlayStrings == {FormatPlayString(f, s) : f \in Formats, s \in Songs}

TypeOK ==
  /\ saveTwitchInfo \in BOOLEAN /\ running \in BOOLEAN
  /\ locked \in BOOLEAN /\ refused \in BOOLEAN /\ covered \in BOOLEAN
  /\ twitchFormat \in Formats /\ adText \in AdTexts
  /\ playing \in {"null", "ad", "song"} /\ song \in Songs
  /\ bufferedPlayString \in PlayStrings \cup {Empty}
  /\ file \in PlayStrings \cup {Empty, Foreign} \cup {AdLine(t) : t \in AdTexts}

\* When a tick skips its write, the file holds the play string, and no other
\* song, no old position and no old format; or, once something else has been
\* written over it, the ad's text or nothing.  Except if the file was locked when
\* it should have been written, and with an empty format, which is taken for
\* already written.
NoOtherSong ==
  bufferedPlayString # Empty /\ ~refused
    => IF covered THEN file.kind \in {"ad", "empty"} ELSE file = bufferedPlayString

\* So the file ends up with the play string of a lasting song, with these
\* exceptions and a third: a play string that has been written over is not
\* written again.
SongSettles ==
  \A text \in PlayStrings \ {Empty} :
    <>[](SongIsPlaying /\ ~locked /\ ~refused /\ ~covered /\ playString = text)
      => <>[](file = text)

\* "Output a .txt file that can be used with OBS or similar streaming programs to
\* show the currently playing song" (README.md:3): then the third exception must
\* not be.
SongComesBack ==
  \A text \in PlayStrings \ {Empty} :
    <>[](SongIsPlaying /\ ~locked /\ ~refused /\ playString = text)
      => <>[](file = text)

\* What is not buffered is written until it gets through: a lasting ad comes up
\* in the file, after a new path again, and the song of a Spotify that is gone
\* disappears from it.
OtherTextsSettle ==
  /\ <>[](saveTwitchInfo /\ ~locked /\ ~running) => <>[](file = Empty)
  /\ \A t \in AdTexts :
       <>[](saveTwitchInfo /\ ~locked /\ running /\ playing = "ad" /\ adText = t)
         => []<>(file = AdLine(t))
=============================================================================
