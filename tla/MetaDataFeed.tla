---------------------------- MODULE MetaDataFeed ----------------------------
(***************************************************************************)
(* What a SpotifyWebHook promises to the GUI thread: the answers of        *)
(* IsInitialized, GetMetaData and DoesSpotfiyNeedARestart, and in which    *)
(* order they may change, whatever the network and Spotify do.  Module     *)
(* SpotifyWebHook implements it; SpotifyAnalyzer is written against it.    *)
(***************************************************************************)
VARIABLES
  hookInitialized,      \* IsInitialized()
  metaDataInitialized,  \* the success half of GetMetaData()
  buffered,             \* what the buffered meta data say is playing
  needsRestart          \* DoesSpotfiyNeedARestart()

feed == <<hookInitialized, metaDataInitialized, buffered, needsRestart>>

Kinds == {"song", "ad"}  \* all that SpotifyMetaData is to the ad logic: m_isAd

\* m_bufferedMetaData is value-initialised, so it starts with m_isAd = false.
FeedInit ==
  /\ hookInitialized = FALSE /\ metaDataInitialized = FALSE /\ needsRestart = FALSE
  /\ buffered = "song"

\* Tokens that Spotify rejected are replaced only after the data got with them
\* are gone.
Initialize ==
  /\ ~hookInitialized /\ (needsRestart => ~metaDataInitialized)
  /\ hookInitialized' = TRUE
  /\ UNCHANGED <<metaDataInitialized, buffered, needsRestart>>

Deinitialize ==
  /\ hookInitialized /\ hookInitialized' = FALSE
  /\ UNCHANGED <<metaDataInitialized, buffered, needsRestart>>

\* An answer of Spotify's decides whether a restart is needed, and an answer
\* comes only while the hook is initialised.
Assess ==
  /\ hookInitialized
  /\ needsRestart' \in BOOLEAN
  /\ UNCHANGED <<hookInitialized, metaDataInitialized, buffered>>

Publish ==
  /\ hookInitialized /\ ~needsRestart
  /\ buffered' \in Kinds /\ metaDataInitialized' = TRUE
  /\ UNCHANGED <<hookInitialized, needsRestart>>

Withdraw ==
  /\ metaDataInitialized /\ metaDataInitialized' = FALSE
  /\ UNCHANGED <<hookInitialized, buffered, needsRestart>>

FeedNext == Initialize \/ Deinitialize \/ Assess \/ Publish \/ Withdraw

FeedSpec == FeedInit /\ [][FeedNext]_feed
=============================================================================
