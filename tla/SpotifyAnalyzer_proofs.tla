----------------------- MODULE SpotifyAnalyzer_proofs -----------------------
(***************************************************************************)
(* What Analyze() and the dialog's handlers do to the user's volume,       *)
(* proved for any set of volumes and for any hook that is a MetaDataFeed.  *)
(***************************************************************************)
EXTENDS SpotifyAnalyzer, TLAPS

USE DEF mixer, analyzer, outside, history, feed, Ended, Volumes, IsAdPlaying

\* Where a handle can be live, and what the mixer is then written with.
HandleInv ==
  /\ handle = "live" => session
  /\ session => running
  /\ slider \in AdVolumes
  /\ volume # Garbage
  /\ handle = "live" => savedVolume # Garbage

\* A handle is taken only while there is a session, and it takes the volume of
\* the mixer with it; that volume is Garbage only if it was written.
LEMMA HandleStep ==
  ASSUME HandleInv, [Next]_vars
  PROVE  HandleInv'
<1> USE VolumesAssumption DEF HandleInv
<1>1. CASE Begin
  BY <1>1 DEF Begin, InitSpotifyAudioContext
<1>2. CASE Save
  BY <1>2 DEF Save
<1>3. CASE Ask
  BY <1>3 DEF Ask
<1>4. CASE Get
  BY <1>4 DEF Get
<1>5. CASE Judge
  BY <1>5 DEF Judge
<1>6. CASE OnAdStatusChanged
  BY <1>6 DEF OnAdStatusChanged, Adjust, AdjustVolume, WriteMute, Write
<1>7. ASSUME NEW b \in {"Mute", "LowerVolume"}, SetAdsBehavior(b) PROVE HandleInv'
  BY <1>7 DEF SetAdsBehavior, Adjust, AdjustVolume, WriteMute, Write
<1>8. CASE MoveSlider
  BY <1>8 DEF MoveSlider
<1>9. CASE Close
  BY <1>9 DEF Close, RestoreDefaults, Write
<1>10. CASE Cancel
  BY <1>10 DEF Cancel
<1>11. CASE SpotifyStarts
  BY <1>11 DEF SpotifyStarts
<1>12. CASE SessionStarts
  BY <1>12 DEF SessionStarts
<1>13. CASE SessionEnds
  BY <1>13 DEF SessionEnds
<1>14. CASE UserSetsVolume \/ UserSetsMute
  BY <1>14 DEF UserSetsVolume, UserSetsMute
<1>15. CASE Hook
  BY <1>15 DEF Hook
<1>16. CASE UNCHANGED vars
  BY <1>16 DEF vars
<1> QED BY <1>1, <1>2, <1>3, <1>4, <1>5, <1>6, <1>7, <1>8, <1>9, <1>10, <1>11, <1>12, <1>13, <1>14,
           <1>15, <1>16 DEF Next, Analyze, Dialog, Outside

\* HandleInv holds in every run.
LEMMA HandleInvariant == SafetySpec => []HandleInv
<1>1. Init => HandleInv
  BY VolumesAssumption DEF Init, HandleInv
<1> QED BY <1>1, HandleStep, PTL DEF SafetySpec

\* The mixer never gets to see what a dead session leaves in m_savedVolume.
THEOREM GarbageTheorem == Spec => []MixerNeverGarbage
<1>1. HandleInv => MixerNeverGarbage
  BY DEF HandleInv, MixerNeverGarbage
<1> QED BY <1>1, HandleInvariant, PTL DEF Spec
-----------------------------------------------------------------------------
(* Types.                                                                  *)

DataType ==
  /\ pc \in {"idle", "save", "ask", "get", "judge", "adjust"} \cup Ended
  /\ handle \in {"none", "live", "dead"}
  /\ metaData \in {"null"} \cup Kinds /\ buffered \in Kinds
  /\ savedVolume \in Volumes /\ volume \in Volumes
  /\ adsBehavior \in {"Mute", "LowerVolume"} /\ slider \in AdVolumes
  /\ userVolume \in UserVolumes /\ upset \in Upsets

\* Every step keeps the types of all that is not Boolean.
LEMMA DataStep ==
  ASSUME DataType, [Next]_vars
  PROVE  DataType'
<1> USE VolumesAssumption DEF DataType, Kinds, Upsets
<1>1. CASE Begin
  BY <1>1 DEF Begin, InitSpotifyAudioContext
<1>2. CASE Save
  BY <1>2 DEF Save
<1>3. CASE Ask
  BY <1>3 DEF Ask
<1>4. CASE Get
  BY <1>4 DEF Get
<1>5. CASE Judge
  BY <1>5 DEF Judge
<1>6. CASE OnAdStatusChanged
  BY <1>6 DEF OnAdStatusChanged, Adjust, AdjustVolume, WriteMute, Write
<1>7. ASSUME NEW b \in {"Mute", "LowerVolume"}, SetAdsBehavior(b) PROVE DataType'
  BY <1>7 DEF SetAdsBehavior, Adjust, AdjustVolume, WriteMute, Write
<1>8. CASE MoveSlider
  BY <1>8 DEF MoveSlider
<1>9. CASE Close
  BY <1>9 DEF Close, RestoreDefaults, Write
<1>10. CASE Cancel
  BY <1>10 DEF Cancel
<1>11. CASE SpotifyStarts
  BY <1>11 DEF SpotifyStarts
<1>12. CASE SessionStarts
  BY <1>12 DEF SessionStarts
<1>13. CASE SessionEnds
  BY <1>13 DEF SessionEnds
<1>14. CASE UserSetsVolume \/ UserSetsMute
  BY <1>14 DEF UserSetsVolume, UserSetsMute
<1>15. CASE Hook
  BY <1>15 DEF Hook, FeedNext, Initialize, Deinitialize, Assess, Publish, Withdraw
<1>16. CASE UNCHANGED vars
  BY <1>16 DEF vars
<1> QED BY <1>1, <1>2, <1>3, <1>4, <1>5, <1>6, <1>7, <1>8, <1>9, <1>10, <1>11, <1>12, <1>13, <1>14,
           <1>15, <1>16 DEF Next, Analyze, Dialog, Outside

\* retrieved says that there are meta data to be looked at.
FlagType ==
  /\ metaDataInitialized \in BOOLEAN /\ retrieved \in BOOLEAN
  /\ running \in BOOLEAN /\ session \in BOOLEAN
  /\ muted \in BOOLEAN /\ userMuted \in BOOLEAN /\ unsaved \in BOOLEAN
  /\ retrieved => metaData # "null"

\* Every step keeps the flags Boolean.
LEMMA FlagStep ==
  ASSUME DataType, FlagType, [Next]_vars
  PROVE  FlagType'
<1> USE DEF FlagType, DataType, Kinds
<1>1. CASE Begin
  BY <1>1 DEF Begin, InitSpotifyAudioContext
<1>2. CASE Save
  BY <1>2 DEF Save
<1>3. CASE Ask
  BY <1>3 DEF Ask
<1>4. CASE Get
  BY <1>4 DEF Get
<1>5. CASE Judge
  BY <1>5 DEF Judge
<1>6. CASE OnAdStatusChanged
  BY <1>6 DEF OnAdStatusChanged, Adjust, AdjustVolume, WriteMute, Write
<1>7. ASSUME NEW b \in {"Mute", "LowerVolume"}, SetAdsBehavior(b) PROVE FlagType'
  BY <1>7 DEF SetAdsBehavior, Adjust, AdjustVolume, WriteMute, Write
<1>8. CASE MoveSlider
  BY <1>8 DEF MoveSlider
<1>9. CASE Close
  BY <1>9 DEF Close, RestoreDefaults, Write
<1>10. CASE Cancel
  BY <1>10 DEF Cancel
<1>11. CASE SpotifyStarts
  BY <1>11 DEF SpotifyStarts
<1>12. CASE SessionStarts
  BY <1>12 DEF SessionStarts
<1>13. CASE SessionEnds
  BY <1>13 DEF SessionEnds
<1>14. CASE UserSetsVolume \/ UserSetsMute
  <2>1. unsaved' \in BOOLEAN
    BY <1>14 DEF UserSetsVolume, UserSetsMute
  <2>2. muted' \in BOOLEAN /\ userMuted' \in BOOLEAN
    BY <1>14, Zenon DEF UserSetsVolume, UserSetsMute
  <2>3. UNCHANGED <<metaDataInitialized, retrieved, running, session, metaData>>
    BY <1>14 DEF UserSetsVolume, UserSetsMute
  <2> QED BY <2>1, <2>2, <2>3
<1>15. CASE Hook
  BY <1>15 DEF Hook, FeedNext, Initialize, Deinitialize, Assess, Publish, Withdraw
<1>16. CASE UNCHANGED vars
  BY <1>16 DEF vars
<1> QED BY <1>1, <1>2, <1>3, <1>4, <1>5, <1>6, <1>7, <1>8, <1>9, <1>10, <1>11, <1>12, <1>13, <1>14,
           <1>15, <1>16 DEF Next, Analyze, Dialog, Outside

\* DataType and FlagType hold in every run.
LEMMA TypeInvariant == SafetySpec => [](DataType /\ FlagType)
<1>1. Init => DataType /\ FlagType
  BY VolumesAssumption DEF Init, FeedInit, DataType, FlagType, Kinds, Upsets
<1> QED BY <1>1, DataStep, FlagStep, PTL DEF SafetySpec

\* Every variable keeps its type, and a live handle has a session.
THEOREM TypeTheorem == Spec => []TypeOK
<1>1. HandleInv /\ DataType /\ FlagType => TypeOK
  BY DEF HandleInv, DataType, FlagType, TypeOK
<1> QED BY <1>1, HandleInvariant, TypeInvariant, PTL DEF Spec
-----------------------------------------------------------------------------
(* An ad's treatment that was not left behind.                             *)

\* While nothing was left behind, only a live handle's ad is treated, in the way
\* of the present mode; until the data that end the ad have been acted upon; and
\* what is kept for afterwards is the user's.
TreatmentInv ==
  NothingLeft =>
    /\ handle # "live" => ~LeftBehind
    /\ handle = "live" => savedVolume \in UserVolumes
    /\ handle = "live" /\ adsBehavior = "Mute" => volume \notin AdVolumes
    /\ handle = "live" /\ adsBehavior = "LowerVolume" => (muted => userMuted)
    /\ LeftBehind => metaData = "ad" \/ pc \in {"judge", "adjust"}
    /\ pc = "closed" => ~LeftBehind

VolumeType ==
  /\ volume \in UserVolumes \cup AdVolumes
  /\ adsBehavior \in {"Mute", "LowerVolume"}
  /\ muted \in BOOLEAN /\ userMuted \in BOOLEAN /\ unsaved \in BOOLEAN

\* No step but SessionEnds and Judge leaves a treatment behind, and those two
\* say so.
LEMMA TreatmentStep ==
  ASSUME HandleInv, VolumeType, TreatmentInv, [Next]_vars
  PROVE  TreatmentInv'
<1> USE VolumesAssumption DEF HandleInv, VolumeType, TreatmentInv, LeftBehind, NothingLeft
<1>1. CASE Begin
  BY <1>1 DEF Begin, InitSpotifyAudioContext
<1>2. CASE Save
  BY <1>2 DEF Save
<1>3. CASE Ask
  BY <1>3 DEF Ask
<1>4. CASE Get
  BY <1>4 DEF Get
<1>5. CASE Judge
  BY <1>5 DEF Judge
<1>6. CASE OnAdStatusChanged
  BY <1>6 DEF OnAdStatusChanged, Adjust, AdjustVolume, WriteMute, Write
<1>7. ASSUME NEW b \in {"Mute", "LowerVolume"}, SetAdsBehavior(b) PROVE TreatmentInv'
  BY <1>7 DEF SetAdsBehavior, Adjust, AdjustVolume, WriteMute, Write
<1>8. CASE MoveSlider
  BY <1>8 DEF MoveSlider
<1>9. CASE Close
  BY <1>9 DEF Close, RestoreDefaults, Write
<1>10. CASE Cancel
  BY <1>10 DEF Cancel
<1>11. CASE SpotifyStarts
  BY <1>11 DEF SpotifyStarts
<1>12. CASE SessionStarts
  BY <1>12 DEF SessionStarts
<1>13. CASE SessionEnds
  BY <1>13 DEF SessionEnds
<1>14. CASE UserSetsVolume \/ UserSetsMute
  BY <1>14 DEF UserSetsVolume, UserSetsMute
<1>15. CASE Hook
  BY <1>15 DEF Hook
<1>16. CASE UNCHANGED vars
  BY <1>16 DEF vars
<1> QED BY <1>1, <1>2, <1>3, <1>4, <1>5, <1>6, <1>7, <1>8, <1>9, <1>10, <1>11, <1>12, <1>13, <1>14,
           <1>15, <1>16 DEF Next, Analyze, Dialog, Outside

\* Whose volume the mixer has, and whose is kept.
VolumesInv ==
  upset = "nothing" =>
    /\ volume = userVolume \/ volume \in AdVolumes
    /\ handle = "live" /\ ~unsaved => savedVolume = userVolume

\* A write that upsets nothing had no change of the user's to lose.
LEMMA WriteStep ==
  ASSUME VolumeType, NEW v, NEW m, Write(v, m), upset' = "nothing"
  PROVE  upset = "nothing" /\ ~unsaved /\ ~unsaved' /\ volume' = v /\ userVolume' = userVolume
BY DEF VolumeType, Write, NothingLeft

\* While nothing is upset, what is not the ad's is the user's latest volume:
\* Save has read it, or the program has not written since.
LEMMA VolumesStep ==
  ASSUME HandleInv, VolumeType, TreatmentInv, VolumesInv, [Next]_vars
  PROVE  VolumesInv'
<1> USE VolumesAssumption DEF HandleInv, VolumeType, TreatmentInv, LeftBehind, NothingLeft, VolumesInv
<1>1. CASE Begin
  BY <1>1 DEF Begin, InitSpotifyAudioContext
<1>2. CASE Save
  BY <1>2 DEF Save
<1>3. CASE Ask
  BY <1>3 DEF Ask
<1>4. CASE Get
  BY <1>4 DEF Get
<1>5. CASE Judge
  BY <1>5 DEF Judge
<1>6. CASE OnAdStatusChanged
  BY <1>6, WriteStep DEF OnAdStatusChanged, Adjust, AdjustVolume, WriteMute
<1>7. ASSUME NEW b \in {"Mute", "LowerVolume"}, SetAdsBehavior(b) PROVE VolumesInv'
  <2>1. UNCHANGED <<handle, savedVolume>>
    BY <1>7 DEF SetAdsBehavior
  <2>2. CASE handle = "live"
    <3>1. /\ volume' \in {savedVolume, slider} /\ userVolume' = userVolume /\ unsaved' = FALSE
          /\ upset' = IF unsaved /\ NothingLeft THEN "overruled" ELSE upset
      BY <1>7, <2>2, Zenon DEF SetAdsBehavior, Adjust, AdjustVolume, WriteMute, Write
    <3> QED BY <2>1, <2>2, <3>1
  <2>3. CASE handle # "live"
    <3>1. UNCHANGED <<volume, userVolume, unsaved, upset>>
      BY <1>7, <2>3 DEF SetAdsBehavior
    <3> QED BY <2>1, <2>3, <3>1
  <2> QED BY <2>2, <2>3
<1>8. CASE MoveSlider
  BY <1>8 DEF MoveSlider
<1>9. CASE Close
  BY <1>9, WriteStep DEF Close, RestoreDefaults
<1>10. CASE Cancel
  BY <1>10 DEF Cancel
<1>11. CASE SpotifyStarts
  BY <1>11 DEF SpotifyStarts
<1>12. CASE SessionStarts
  BY <1>12 DEF SessionStarts
<1>13. CASE SessionEnds
  BY <1>13 DEF SessionEnds
<1>14. CASE UserSetsVolume \/ UserSetsMute
  BY <1>14 DEF UserSetsVolume, UserSetsMute
<1>15. CASE Hook
  BY <1>15 DEF Hook
<1>16. CASE UNCHANGED vars
  BY <1>16 DEF vars
<1> QED BY <1>1, <1>2, <1>3, <1>4, <1>5, <1>6, <1>7, <1>8, <1>9, <1>10, <1>11, <1>12, <1>13, <1>14,
           <1>15, <1>16 DEF Next, Analyze, Dialog, Outside

\* Both hold in every run.
LEMMA TreatmentInvariant == SafetySpec => [](TreatmentInv /\ VolumesInv)
<1>1. Init => TreatmentInv /\ VolumesInv
  BY VolumesAssumption DEF Init, TreatmentInv, VolumesInv, LeftBehind, NothingLeft
<1>2. HandleInv /\ DataType /\ FlagType => VolumeType
  BY DEF HandleInv, DataType, FlagType, VolumeType
<1> QED BY <1>1, <1>2, TreatmentStep, VolumesStep, HandleInvariant, TypeInvariant, PTL
        DEF SafetySpec

\* As long as no treatment was left behind, a live handle keeps a volume of the
\* user's for after the ad.
THEOREM SavedVolumeTheorem == Spec => []SavedVolumeIsUsers
<1>1. TreatmentInv => SavedVolumeIsUsers
  BY DEF TreatmentInv, SavedVolumeIsUsers
<1> QED BY <1>1, TreatmentInvariant, PTL DEF Spec

\* What is not the ad's in the mixer is the user's, if nothing was left behind.
LEMMA UsersMixer ==
  ASSUME HandleInv, DataType, VolumesInv, ~LeftBehind
  PROVE  AsTheUserHadIt
BY VolumesAssumption DEF HandleInv, DataType, VolumesInv, LeftBehind, AsTheUserHadIt, NothingLeft,
   Upsets

\* So it is between two ticks with a song, and after closing.
LEMMA UserSoundInvariant == SafetySpec => [](SongsUntouched /\ ClosingRestores)
<1>1. HandleInv /\ DataType /\ TreatmentInv /\ VolumesInv => SongsUntouched /\ ClosingRestores
  <2>1. TreatmentInv /\ NothingLeft /\ pc = "idle" /\ metaData = "song" => ~LeftBehind
    BY DEF TreatmentInv
  <2>2. TreatmentInv /\ NothingLeft /\ pc = "closed" => ~LeftBehind
    BY DEF TreatmentInv
  <2>3. ~NothingLeft => AsTheUserHadIt
    BY DEF AsTheUserHadIt
  <2> QED BY <2>1, <2>2, <2>3, UsersMixer DEF SongsUntouched, ClosingRestores
<1> QED BY <1>1, HandleInvariant, TypeInvariant, TreatmentInvariant, PTL

\* Between two ticks songs are as loud as the user had them: whatever he did in the
\* mixer, they are muted only if he muted them.
THEOREM SongsTheorem == Spec => []SongsUntouched
  BY UserSoundInvariant, PTL DEF Spec

\* And so they are once the dialog was closed, even if an ad was playing.
THEOREM ClosingTheorem == Spec => []ClosingRestores
  BY UserSoundInvariant, PTL DEF Spec
=============================================================================
