-------------------------- MODULE SpotifyAnalyzer --------------------------
(***************************************************************************)
(* The GUI thread's half: SpotifyAnalyzer::Analyze(), which a timer calls  *)
(* every 50 ms to mute Spotify or lower its volume during ads, and the     *)
(* dialog's handlers that reach the analyzer (radio buttons, slider, OK,   *)
(* close, Esc).  Analyze() is cut wherever another thread or process can   *)
(* tell: between its calls of the hook, which is any MetaDataFeed, and     *)
(* between reading and writing Spotify's entry in the volume mixer, which  *)
(* the user can move at any time.                                          *)
(*                                                                         *)
(* m_spotifyAudioInitialized is handle # "none": the code sets, and        *)
(* clears, it together with m_spotifyAudio.                                *)
(***************************************************************************)
EXTENDS MetaDataFeed

CONSTANTS
  UserVolumes,  \* volumes a user may choose in the mixer
  AdVolumes,    \* positions of the dialog's slider, told apart from those
  Garbage       \* what an uninitialised float holds

ASSUME VolumesAssumption ==
  /\ UserVolumes # {} /\ AdVolumes # {} /\ UserVolumes \cap AdVolumes = {}
  /\ Garbage \notin UserVolumes \cup AdVolumes

Volumes == UserVolumes \cup AdVolumes \cup {Garbage}

VARIABLES
  pc,           \* where Analyze() is; "closed" or "cancelled" once the dialog has ended
  handle,       \* m_spotifyAudio: "none", "live", or "dead" if its session has ended
  savedVolume,  \* m_savedVolume
  adsBehavior,  \* m_adsBehavior
  metaData,     \* m_metaData: "null" or what it says is playing
  retrieved,    \* metaDataRetrievalSuccess
  slider,       \* IDC_SLIDER1
  running,      \* environment: spotify.exe is running
  session,      \* environment: Spotify has an audio session on the default device
  volume,       \* environment: Spotify's volume in the mixer, which outlives its sessions
  muted,        \* environment: Spotify is muted there
  userVolume,   \* history: the last volume the user chose
  userMuted,    \* history: whether the user last muted Spotify, rather than unmuted it
  unsaved,      \* history: the user has chosen a volume that is not saved yet
  upset         \* history: what stands between the user and his choices, see below

mixer == <<volume, muted>>
analyzer == <<handle, savedVolume, adsBehavior, metaData, retrieved>>
outside == <<running, session>>
history == <<userVolume, userMuted, unsaved, upset>>
vars == <<feed, pc, analyzer, slider, outside, mixer, history>>

Ended == {"closed", "cancelled"}

\* What is left of an ad's treatment: the mixer is not as the user had it.
LeftBehind == (muted /\ ~userMuted) \/ volume \in AdVolumes

(* "overruled": the user's last change of the volume was written over.      *)
(* "cutOff": a treatment was left behind, when the ad's session or its data *)
(* went away; then nothing else that may have happened is told apart.       *)
(* "inherited": an earlier run, ended by Esc or a crash, had left one.      *)
Upsets == {"nothing", "overruled", "cutOff", "inherited"}

\* No treatment was ever left behind, by this run or the one before.
NothingLeft == upset \notin {"cutOff", "inherited"}

\* The constructor takes the handle if it can.
Init ==
  /\ FeedInit
  /\ pc = "idle"
  /\ running \in BOOLEAN /\ session \in (IF running THEN BOOLEAN ELSE {FALSE})
  /\ userVolume \in UserVolumes /\ volume \in {userVolume} \cup AdVolumes
  /\ userMuted \in BOOLEAN /\ muted \in {userMuted, TRUE}
  /\ handle = IF session THEN "live" ELSE "none"
  /\ savedVolume \in IF session THEN {volume} ELSE UserVolumes
  /\ adsBehavior \in {"Mute", "LowerVolume"} /\ slider \in AdVolumes
  /\ metaData = "null" /\ retrieved = FALSE
  /\ unsaved = FALSE
  /\ upset = IF LeftBehind THEN "inherited" ELSE "nothing"

-----------------------------------------------------------------------------
(* What the analyzer does to the mixer.  A handle whose session has ended  *)
(* changes nothing.                                                        *)

IsAdPlaying == metaData = "ad"

\* Mutant of InitSpotifyAudioContext: the volume found is not saved.
TakeHandleBlindly == session /\ handle' = "live" /\ UNCHANGED savedVolume

\* Succeeds if one of the device's sessions is Spotify's, and saves its volume.
InitSpotifyAudioContext == session /\ handle' = "live" /\ savedVolume' = volume

\* The program sets the mute, whatever the user had set it to.
WriteMute(newMuted) == muted' = newMuted /\ UNCHANGED <<volume, history>>

\* So it does with the volume, and with a change of it that it may not have saved.
Write(newVolume, newMuted) ==
  /\ volume' = newVolume /\ muted' = newMuted
  /\ unsaved' = FALSE
  /\ upset' = IF unsaved /\ NothingLeft THEN "overruled" ELSE upset
  /\ UNCHANGED <<userVolume, userMuted>>

AdjustVolume(wasMuted) == Write(IF IsAdPlaying THEN slider ELSE savedVolume, wasMuted)

\* Mutant of Adjust: what was muted during an ad stays muted.
AdjustNeverUnmutes(behavior, wasMuted) ==
  \/ behavior = "Mute" /\ WriteMute(wasMuted \/ IsAdPlaying)
  \/ behavior = "LowerVolume" /\ AdjustVolume(wasMuted)

\* OnAdStatusChanged through a live handle.  In mode Mute a song is unmuted, even
\* if it was the user who had muted it.
Adjust(behavior, wasMuted) ==
  \/ behavior = "Mute" /\ WriteMute(IsAdPlaying)
  \/ behavior = "LowerVolume" /\ AdjustVolume(wasMuted)

\* Mutant of RestoreDefaults: the volume is restored and the mute is not.
RestoreVolumeOnly ==
  \/ handle = "live" /\ Write(savedVolume, muted)
  \/ handle # "live" /\ UNCHANGED <<mixer, history>>

RestoreDefaults ==
  \/ handle = "live" /\ Write(savedVolume, FALSE)
  \/ handle # "live" /\ UNCHANGED <<mixer, history>>

-----------------------------------------------------------------------------
(* Analyze(). *)

\* Mutant of Begin: a handle the constructor did not get is never taken.
BeginNeverTakes ==
  /\ pc = "idle" /\ pc' = "save"
  /\ handle' = IF running THEN handle ELSE "none"
  /\ UNCHANGED <<feed, savedVolume, adsBehavior, metaData, retrieved, slider, outside, mixer, history>>

\* Take or drop the handle.  While Spotify runs without an audio session
\* Analyze() returns at once, and nothing has changed.
Begin ==
  /\ pc = "idle" /\ pc' = "save"
  /\ \/ handle = "none" /\ InitSpotifyAudioContext
     \/ handle # "none" /\ ~running /\ handle' = "none" /\ UNCHANGED savedVolume
     \/ (handle # "none" <=> running) /\ UNCHANGED <<handle, savedVolume>>
  /\ UNCHANGED <<feed, adsBehavior, metaData, retrieved, slider, outside, mixer, history>>

\* Mutant of Save: the volume is saved during ads too.
SaveAlways ==
  /\ pc = "save" /\ pc' = "ask"
  /\ \/ handle = "live" /\ savedVolume' = volume /\ unsaved' = FALSE
     \/ handle = "dead" /\ savedVolume' \in Volumes /\ UNCHANGED unsaved
     \/ handle = "none" /\ UNCHANGED <<savedVolume, unsaved>>
  /\ UNCHANGED <<feed, handle, adsBehavior, metaData, retrieved, slider, outside, mixer,
                 userVolume, userMuted, upset>>

\* GetMasterVolume of a session that has ended may leave audioVolume as it is.
Save ==
  /\ pc = "save" /\ pc' = "ask"
  /\ \/ handle = "live" /\ ~IsAdPlaying /\ savedVolume' = volume /\ unsaved' = FALSE
     \/ handle = "dead" /\ ~IsAdPlaying /\ savedVolume' \in Volumes /\ UNCHANGED unsaved
     \/ (handle = "none" \/ IsAdPlaying) /\ UNCHANGED <<savedVolume, unsaved>>
  /\ UNCHANGED <<feed, handle, adsBehavior, metaData, retrieved, slider, outside, mixer,
                 userVolume, userMuted, upset>>

\* m_webHook->IsInitialized(): if not, m_metaData is kept.
Ask ==
  /\ pc = "ask" /\ pc' = IF hookInitialized THEN "get" ELSE "judge"
  /\ retrieved' = FALSE
  /\ UNCHANGED <<feed, handle, savedVolume, adsBehavior, metaData, slider, outside, mixer, history>>

\* Mutant of Get: the success half of GetMetaData's answer is ignored.
GetIgnoresSuccess ==
  /\ pc = "get" /\ pc' = "judge"
  /\ retrieved' = TRUE
  /\ metaData' = IF metaDataInitialized THEN buffered ELSE "null"
  /\ UNCHANGED <<feed, handle, savedVolume, adsBehavior, slider, outside, mixer, history>>

\* m_webHook->GetMetaData()
Get ==
  /\ pc = "get" /\ pc' = "judge"
  /\ retrieved' = metaDataInitialized
  /\ metaData' = IF metaDataInitialized THEN buffered ELSE "null"
  /\ UNCHANGED <<feed, handle, savedVolume, adsBehavior, slider, outside, mixer, history>>

\* m_webHook->DoesSpotfiyNeedARestart(), then the branch.  upset: an ad's
\* treatment is cut off when its data are gone and the mixer is left as it is.
Judge ==
  /\ pc = "judge" /\ pc' = IF retrieved /\ ~needsRestart THEN "adjust" ELSE "idle"
  /\ upset' = IF pc' = "idle" /\ ~IsAdPlaying /\ LeftBehind /\ NothingLeft THEN "cutOff" ELSE upset
  /\ UNCHANGED <<feed, analyzer, slider, outside, mixer, userVolume, userMuted, unsaved>>

OnAdStatusChanged ==
  /\ pc = "adjust" /\ pc' = "idle"
  /\ \/ handle = "live" /\ Adjust(adsBehavior, muted)
     \/ handle # "live" /\ UNCHANGED <<mixer, history>>
  /\ UNCHANGED <<feed, analyzer, slider, outside>>

Analyze == Begin \/ Save \/ Ask \/ Get \/ Judge \/ OnAdStatusChanged

-----------------------------------------------------------------------------
(* The dialog's handlers, which run on the same thread between two calls   *)
(* of Analyze().                                                           *)

\* Mutant of SetAdsBehavior: the old mode is not reset.
SwitchAdsBehavior(behavior) ==
  /\ pc = "idle"
  /\ adsBehavior' = behavior
  /\ \/ handle = "live" /\ Adjust(behavior, muted)
     \/ handle # "live" /\ UNCHANGED <<mixer, history>>
  /\ UNCHANGED <<feed, pc, handle, savedVolume, metaData, retrieved, slider, outside>>

\* RestoreDefaults and OnAdStatusChanged.  In mode LowerVolume both write the
\* volume, and the second one is what stays.
SetAdsBehavior(behavior) ==
  /\ pc = "idle"
  /\ adsBehavior' = behavior
  /\ \/ handle = "live" /\ behavior = "Mute" /\ Write(savedVolume, IsAdPlaying)
     \/ handle = "live" /\ behavior = "LowerVolume" /\ Adjust(behavior, FALSE)
     \/ handle # "live" /\ UNCHANGED <<mixer, history>>
  /\ UNCHANGED <<feed, pc, handle, savedVolume, metaData, retrieved, slider, outside>>

\* The slider is enabled only in mode LowerVolume.
MoveSlider ==
  /\ pc = "idle" /\ adsBehavior = "LowerVolume"
  /\ slider' \in AdVolumes
  /\ UNCHANGED <<feed, pc, analyzer, outside, mixer, history>>

\* OnClose and OnBnClickedOk
Close ==
  /\ pc = "idle" /\ pc' = "closed"
  /\ RestoreDefaults
  /\ UNCHANGED <<feed, analyzer, slider, outside>>

\* Esc: the message map has no entry for IDCANCEL.
Cancel ==
  /\ pc = "idle" /\ pc' = "cancelled"
  /\ UNCHANGED <<feed, analyzer, slider, outside, mixer, history>>

-----------------------------------------------------------------------------
(* external: Spotify, the mixer and its user. *)

SpotifyStarts ==
  /\ ~running /\ running' = TRUE
  /\ UNCHANGED <<feed, pc, analyzer, slider, session, mixer, history>>

\* Spotify begins to play on the default device.
SessionStarts ==
  /\ running /\ ~session /\ session' = TRUE
  /\ UNCHANGED <<feed, pc, analyzer, slider, running, mixer, history>>

\* Spotify quits, or the default device is another one.  upset: the mixer
\* remembers the ad's treatment, and nobody else does.
SessionEnds ==
  /\ running /\ session' = FALSE
  /\ \/ running' = FALSE
     \/ session /\ running' = TRUE
  /\ handle' = IF handle = "live" THEN "dead" ELSE handle
  /\ upset' = IF LeftBehind /\ NothingLeft THEN "cutOff" ELSE upset
  /\ UNCHANGED <<feed, pc, savedVolume, adsBehavior, metaData, retrieved, slider, mixer,
                 userVolume, userMuted, unsaved>>

UserSetsVolume ==
  /\ session
  /\ \E v \in UserVolumes \ {volume} : volume' = v /\ userVolume' = v
  /\ unsaved' = TRUE
  /\ upset' = IF upset = "overruled" THEN "nothing" ELSE upset
  /\ UNCHANGED <<feed, pc, analyzer, slider, outside, muted, userMuted>>

UserSetsMute ==
  /\ session
  /\ muted' = ~muted /\ userMuted' = ~muted
  /\ UNCHANGED <<feed, pc, analyzer, slider, outside, volume, userVolume, unsaved, upset>>

-----------------------------------------------------------------------------
Dialog == (\E b \in {"Mute", "LowerVolume"} : SetAdsBehavior(b)) \/ MoveSlider \/ Close \/ Cancel
Outside == SpotifyStarts \/ SessionStarts \/ SessionEnds \/ UserSetsVolume \/ UserSetsMute
Hook == FeedNext /\ UNCHANGED <<pc, analyzer, slider, outside, mixer, history>>

Next == Analyze \/ Dialog \/ Outside \/ Hook

SafetySpec == Init /\ [][Next]_vars

\* Windows keeps delivering WM_TIMER, and a call of Analyze() ends.
Spec == SafetySpec /\ WF_vars(Analyze)

-----------------------------------------------------------------------------
\* Line 81 and OnAdStatusChanged rely on the third conjunct, the mixer on the
\* second.
TypeOK ==
  /\ pc \in {"idle", "save", "ask", "get", "judge", "adjust"} \cup Ended
  /\ handle \in {"none", "live", "dead"} /\ (handle = "live" => session)
  /\ metaData \in {"null"} \cup Kinds /\ (retrieved => metaData # "null")
  /\ savedVolume \in Volumes /\ volume \in Volumes
  /\ adsBehavior \in {"Mute", "LowerVolume"} /\ slider \in AdVolumes
  /\ {retrieved, running, session, muted, userMuted, unsaved} \subseteq BOOLEAN
  /\ userVolume \in UserVolumes /\ upset \in Upsets

\* Whatever a session that has ended leaves in m_savedVolume (lines 61-64), the
\* mixer never gets to see it.
MixerNeverGarbage == volume # Garbage

\* As long as no treatment was left behind, what is kept for after the ad is a
\* volume of the user's: never the ad's, never an uninitialised float.
SavedVolumeIsUsers == handle = "live" /\ NothingLeft => savedVolume \in UserVolumes

\* The volume is the user's last, unless it was a change during an ad, or between
\* the read and the write of one tick, that was overruled; and what is muted was
\* muted by the user.  (Not the converse: the user's own mute is undone by any
\* tick that sees a song in mode Mute (216-220), by a change of the mode and by
\* closing (100).)
AsTheUserHadIt ==
  NothingLeft => (upset # "overruled" => volume = userVolume) /\ (muted => userMuted)

\* Between two ticks, with a song playing, Spotify is as loud as the user had it.
SongsUntouched == pc = "idle" /\ metaData = "song" /\ handle = "live" => AsTheUserHadIt

\* And so it does after the dialog was closed, in the midst of an ad too.
ClosingRestores == pc = "closed" /\ handle = "live" => AsTheUserHadIt

FeedSays(kind) == hookInitialized /\ metaDataInitialized /\ ~needsRestart /\ buffered = kind
Listening == running /\ session /\ handle # "dead" /\ pc \notin Ended

\* An ad that lasts is muted or lowered again and again, even if the user turns
\* the volume up meanwhile.
AdsAreTreated ==
  <>[](FeedSays("ad") /\ Listening) => []<>(muted \/ volume \in AdVolumes)

\* In mode Mute nothing that happened before keeps songs muted, and a user who
\* wants them muted has to say so again and again.
MuteEnds ==
  <>[](FeedSays("song") /\ Listening /\ adsBehavior = "Mute") =>
    <>[]~muted \/ []<><<UserSetsMute>>_vars

-----------------------------------------------------------------------------
(* What the documentation promises and the code does not guarantee. *)

\* "lower the volume or mute the sound when an Ad is playing" (README.md:3): a
\* tick that has seen a song through does not leave it at the ad's volume, if no
\* earlier run did.
LoweredOnlyDuringAds ==
  [][pc = "adjust" /\ pc' = "idle" /\ metaData = "song" /\ handle = "live"
       /\ upset # "inherited" => volume' \notin AdVolumes]_vars
=============================================================================
