-------------------------- MODULE StreamFile_proofs --------------------------
(* Theorems about PlayString and StreamFile, for any songs, formats and ad *)
(* texts.                                                                  *)
EXTENDS StreamFile, TLAPS

-----------------------------------------------------------------------------
(* PlayString. *)

\* Of a song with a length, %p says something from 0 to 100 if the position is
\* within the song; never the Indefinite of a song without one (Helper.cpp:211).
THEOREM PercentageTheorem ==
  ASSUME NEW length \in Nat \ {0}, NEW position \in 0..(1000 * length)
  PROVE  Percentage(position, length) \in 0..100
<1> DEFINE p == position + 5 * length
           d == 10 * length
           q == p \div d
<1>1. p \in Nat /\ d \in Nat \ {0} /\ p < 101 * d
  OBVIOUS
<1> HIDE DEF p, d
<1>2. q \in Int /\ q * d <= p /\ p < (q + 1) * d
  BY <1>1
<1> HIDE DEF q
<1>3. q >= 0
  BY <1>1, <1>2
<1>4. q < 101
  BY <1>1, <1>2
<1> QED
  BY <1>2, <1>3, <1>4 DEF Percentage, p, d, q

-----------------------------------------------------------------------------
(* StreamFile. *)

\* The types hold at the start.
LEMMA TypeInit == Init => TypeOK
  BY DEF Init, TypeOK

\* A tick writes only what the type of the file allows.
LEMMA TypeOnTimer == TypeOK /\ OnTimer => TypeOK'
<1> SUFFICES ASSUME TypeOK, OnTimer PROVE TypeOK'
  OBVIOUS
<1> USE DEF TypeOK, Write
<1>1. playString \in PlayStrings
  BY DEF playString, PlayStrings
<1>2. CASE WriteSong
  <2>1. UNCHANGED <<settings, analyzer, locked>>
    BY <1>2 DEF WriteSong
  <2>2. refused' \in BOOLEAN /\ covered' \in BOOLEAN
    BY <1>2 DEF WriteSong
  <2>3. bufferedPlayString' \in PlayStrings \cup {Empty}
    BY <1>1, <1>2 DEF WriteSong
  <2>4. file' \in {file, playString}
    BY <1>2, Zenon DEF WriteSong
  <2> QED
    BY <1>1, <2>1, <2>2, <2>3, <2>4 DEF settings, analyzer
<1>3. CASE WriteOther
  <2>1. UNCHANGED <<settings, bufferedPlayString, analyzer, locked, refused>>
        /\ covered' \in BOOLEAN
    BY <1>3 DEF WriteOther
  <2>2. file' \in {file, Empty, AdLine(adText)}
    BY <1>3, Zenon DEF WriteOther
  <2> QED
    BY <2>1, <2>2 DEF settings, analyzer
<1> QED
  BY <1>2, <1>3 DEF OnTimer

\* Every step keeps the types.
LEMMA TypeNext == TypeOK /\ [Next]_vars => TypeOK'
<1> SUFFICES ASSUME TypeOK, [Next]_vars PROVE TypeOK'
  OBVIOUS
<1> USE DEF TypeOK, settings, analyzer
<1>1. CASE OnTimer
  BY <1>1, TypeOnTimer
<1>2. CASE OnBnClickedCheckSaveTwitchInfo
  BY <1>2 DEF OnBnClickedCheckSaveTwitchInfo
<1>3. CASE OnBnClickedButtonSaveTwitchFormat
  BY <1>3 DEF OnBnClickedButtonSaveTwitchFormat
<1>4. CASE OnBnClickedButtonSaveAdText
  BY <1>4 DEF OnBnClickedButtonSaveAdText
<1>5. CASE OnBnClickedButtonSaveStreamInfo
  BY <1>5 DEF OnBnClickedButtonSaveStreamInfo
<1>6. CASE Restart
  BY <1>6 DEF Restart
<1>7. CASE Analyze
  BY <1>7 DEF Analyze
<1>8. CASE SpotifyStartsOrQuits
  BY <1>8 DEF SpotifyStartsOrQuits
<1>9. CASE FileIsLockedOrReleased
  BY <1>9 DEF FileIsLockedOrReleased
<1>10. CASE UNCHANGED vars
  BY <1>10 DEF vars
<1> QED
  BY <1>1, <1>2, <1>3, <1>4, <1>5, <1>6, <1>7, <1>8, <1>9, <1>10 DEF Next, Dialog, Outside

\* What is in the file, and what the program takes for it, are texts it can write.
THEOREM TypeTheorem == Spec => []TypeOK
  BY TypeInit, TypeNext, PTL DEF Spec

\* When a tick skips its write the file holds no other song: NoOtherSong is
\* inductive as it stands.
THEOREM NoOtherSongTheorem == Spec => []NoOtherSong
<1>1. Init => NoOtherSong
  BY DEF Init, NoOtherSong
<1>2. NoOtherSong /\ [Next]_vars => NoOtherSong'
  <2> SUFFICES ASSUME NoOtherSong, [Next]_vars PROVE NoOtherSong'
    OBVIOUS
  <2> USE DEF NoOtherSong, Write
  <2>1. ASSUME UNCHANGED <<bufferedPlayString, file, refused, covered>> PROVE NoOtherSong'
    BY <2>1
  <2>2. CASE WriteSong
    <3>1. CASE playString # bufferedPlayString
      <4>1. bufferedPlayString' = playString /\ refused' = locked /\ covered' = FALSE
        BY <2>2, <3>1 DEF WriteSong
      <4>2. ~locked => file' = playString
        BY <2>2, <3>1 DEF WriteSong
      <4> QED
        BY <4>1, <4>2
    <3>2. CASE playString = bufferedPlayString
      BY <2>1, <2>2, <3>2 DEF WriteSong
    <3> QED
      BY <3>1, <3>2
  <2>3. CASE WriteOther
    <3>1. UNCHANGED <<bufferedPlayString, refused>> /\ covered' = (covered \/ ~locked)
      BY <2>3 DEF WriteOther
    <3>2. IF locked THEN file' = file ELSE file' \in {Empty, AdLine(adText)}
      BY <2>3, Zenon DEF WriteOther
    <3>3. Empty.kind = "empty" /\ AdLine(adText).kind = "ad"
      BY DEF Empty, AdLine
    <3> QED
      BY <3>1, <3>2, <3>3
  <2>4. CASE OnBnClickedButtonSaveStreamInfo
    BY <2>4 DEF OnBnClickedButtonSaveStreamInfo, Empty
  <2>5. CASE Restart
    BY <2>5 DEF Restart
  <2>6. CASE OnBnClickedCheckSaveTwitchInfo \/ OnBnClickedButtonSaveTwitchFormat
               \/ OnBnClickedButtonSaveAdText
    BY <2>1, <2>6 DEF OnBnClickedCheckSaveTwitchInfo, OnBnClickedButtonSaveTwitchFormat,
      OnBnClickedButtonSaveAdText
  <2>7. CASE Outside
    BY <2>1, <2>7 DEF Outside, Analyze, SpotifyStartsOrQuits, FileIsLockedOrReleased
  <2>8. CASE UNCHANGED vars
    BY <2>1, <2>8 DEF vars
  <2> QED
    BY <2>2, <2>3, <2>4, <2>5, <2>6, <2>7, <2>8 DEF Next, OnTimer, Dialog
<1> QED
  BY <1>1, <1>2, PTL DEF Spec
=============================================================================
