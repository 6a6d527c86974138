----------------------- MODULE SpotifyWebHook_proofs -----------------------
(***************************************************************************)
(* What the hook guarantees however Spotify and the network behave, proved *)
(* for any set of tokens and any length of the message queue.              *)
(***************************************************************************)
EXTENDS SpotifyWebHook, TLAPS

(* Where the worker can be, and what it has done by then. *)

AfterInit == {"connect", "request", "deInit", "publish"}
Failing == {"deInit", "push", "withdraw"}

\* The hook is initialised exactly while its tokens may be used; a session
\* exists from Connect until a failure; what is about to be published was
\* answered; and data go before tokens that were rejected are replaced.
ControlInv ==
  /\ pc \in Locations
  /\ pc \in AfterInit => hookInitialized
  /\ pc \in InitSteps \cup {"initialized"} => ~hookInitialized
  /\ pc \in RefreshSteps \cup {"withdraw"} => pc = "connect" \/ session # "none"
  /\ pc = "publish" => ~needsRestart
  /\ pc \notin Failing => (needsRestart => ~metaDataInitialized)
  /\ session = "none" => ~metaDataInitialized

\* The steps of Init() and of Connect keep ControlInv, the environment too.
LEMMA InitKeepsControl ==
  ASSUME ControlInv,
         Poll \/ InitStepFails \/ GetWorkingPort \/ SetupOAuth \/ SetupCSRF \/ HookInitialized
         \/ Connect \/ FetchStatusMessages \/ Spotify
  PROVE  ControlInv'
<1> USE DEF ControlInv, AfterInit, Failing, InitSteps, RefreshSteps, Locations
<1>1. CASE Poll
  BY <1>1 DEF Poll, Go, connection
<1>2. CASE InitStepFails
  BY <1>2 DEF InitStepFails, connection, feed
<1>3. CASE GetWorkingPort \/ SetupOAuth \/ SetupCSRF
  <2>1. /\ UNCHANGED <<feed, session>>
        /\ pc \in InitSteps /\ pc' \in InitSteps \cup {"initialized"}
    BY <1>3 DEF GetWorkingPort, SetupOAuth, SetupCSRF, Go, connection, feed
  <2> QED BY <2>1 DEF feed
<1>4. CASE HookInitialized
  BY <1>4 DEF HookInitialized, Go, connection
<1>5. CASE Connect
  BY <1>5 DEF Connect, Go, feed
<1>6. CASE FetchStatusMessages
  BY <1>6 DEF FetchStatusMessages, connection, feed
<1>7. CASE Spotify
  <2>1. UNCHANGED <<pc, feed>> /\ (session' = "none" <=> session = "none")
    BY <1>7 DEF Spotify, SpotifyStarts, SpotifyQuits, SpotifySickens, SpotifyRecovers, connection
  <2> QED BY <2>1 DEF feed
<1> QED BY <1>1, <1>2, <1>3, <1>4, <1>5, <1>6, <1>7

\* So do the answers of Spotify and what follows them.
LEMMA RefreshKeepsControl ==
  ASSUME ControlInv, Refresh
  PROVE  ControlInv'
<1> USE DEF ControlInv, AfterInit, Failing, InitSteps, RefreshSteps, Locations
<1>1. CASE Connect
  BY <1>1, InitKeepsControl
<1>2. CASE RequestFails
  BY <1>2 DEF RequestFails, Go, connection, feed
<1>3. CASE RequestRejected
  BY <1>3 DEF RequestRejected, Go, connection
<1>4. CASE RequestAnswered
  BY <1>4 DEF RequestAnswered, Go, connection
<1>5. CASE DeInit
  BY <1>5 DEF DeInit, Go, connection
<1>6. CASE PublishMetaData
  BY <1>6 DEF PublishMetaData, Go, connection
<1>7. CASE PushFailure
  BY <1>7 DEF PushFailure, Go, connection, feed
<1>8. CASE WithdrawMetaData
  BY <1>8 DEF WithdrawMetaData, Go
<1> QED BY <1>1, <1>2, <1>3, <1>4, <1>5, <1>6, <1>7, <1>8 DEF Refresh

\* The worker is always where ControlInv says, in every run of the hook.
LEMMA ControlInvariant == SafetySpec => []ControlInv
<1>1. Init => ControlInv
  BY DEF Init, ControlInv, AfterInit, Failing, InitSteps, RefreshSteps, Locations
<1>2. ControlInv /\ [Next]_vars => ControlInv'
  <2>1. ASSUME ControlInv, UNCHANGED vars PROVE ControlInv'
    BY <2>1 DEF vars, connection, feed, ControlInv
  <2> QED BY <2>1, InitKeepsControl, RefreshKeepsControl DEF Next, WorkerStep
<1> QED BY <1>1, <1>2, PTL DEF SafetySpec

\* When the worker is done, data and the advice to restart exclude each other,
\* and data come with the session they were read through.
THEOREM AdviceTheorem == Spec => []RestartAdviceExcludesData
<1>1. ControlInv => RestartAdviceExcludesData
  BY DEF ControlInv, RestartAdviceExcludesData, Failing
<1> QED BY <1>1, ControlInvariant, PTL DEF Spec
-----------------------------------------------------------------------------
(* Rejected tokens: neither the hook's, while it may build a session with  *)
(* them, nor those of a session that may be used again.                    *)

TokenInv ==
  /\ ControlInv
  /\ (hookInitialized /\ pc # "deInit") \/ pc = "initialized" => tokens \notin rejected
  /\ session # "none" /\ pc \notin Failing => path \notin rejected

\* TokenInv holds in every run: a rejection leads to DeInit before the tokens
\* are used again, and to a new session before the path is.
LEMMA TokenInvariant == SafetySpec => []TokenInv
<1>1. Init => TokenInv
  BY ControlInvariant
     DEF Init, TokenInv, ControlInv, AfterInit, Failing, InitSteps, RefreshSteps, Locations
<1>2. TokenInv /\ ControlInv' /\ [Next]_vars => TokenInv'
  <2> SUFFICES ASSUME TokenInv, ControlInv', [Next]_vars PROVE TokenInv'
    OBVIOUS
  <2> USE DEF TokenInv, ControlInv, AfterInit, Failing, InitSteps, RefreshSteps
  <2>1. CASE Poll
    BY <2>1 DEF Poll, Go, connection
  <2>2. CASE InitStepFails
    BY <2>2 DEF InitStepFails, connection, feed
  <2>3. CASE GetWorkingPort \/ SetupOAuth
    <3>1. /\ UNCHANGED <<feed, session, tokens, path, rejected>>
          /\ pc \in InitSteps /\ pc' \in InitSteps
      BY <2>3 DEF GetWorkingPort, SetupOAuth, Go, connection, feed
    <3> QED BY <3>1 DEF feed
  <2>4. CASE SetupCSRF
    BY <2>4 DEF SetupCSRF, Go, feed
  <2>5. CASE HookInitialized
    BY <2>5 DEF HookInitialized, Go, connection
  <2>6. CASE Connect
    BY <2>6 DEF Connect, Go, feed
  <2>7. CASE RequestFails
    BY <2>7 DEF RequestFails, Go, connection, feed
  <2>8. CASE RequestRejected
    BY <2>8 DEF RequestRejected, Go, connection
  <2>9. CASE RequestAnswered
    BY <2>9 DEF RequestAnswered, Go, connection
  <2>10. CASE DeInit
    BY <2>10 DEF DeInit, Go, connection
  <2>11. CASE PublishMetaData
    BY <2>11 DEF PublishMetaData, Go, connection
  <2>12. CASE PushFailure
    BY <2>12 DEF PushFailure, Go, connection, feed
  <2>13. CASE WithdrawMetaData
    BY <2>13 DEF WithdrawMetaData, Go
  <2>14. CASE FetchStatusMessages
    BY <2>14 DEF FetchStatusMessages, connection, feed
  <2>15. CASE Spotify
    <3>1. UNCHANGED <<pc, feed, tokens, path, rejected>> /\ (session' = "none" <=> session = "none")
      BY <2>15 DEF Spotify, SpotifyStarts, SpotifyQuits, SpotifySickens, SpotifyRecovers, connection
    <3> QED BY <3>1 DEF feed
  <2>16. CASE UNCHANGED vars
    BY <2>16 DEF vars, connection, feed
  <2> QED BY <2>1, <2>2, <2>3, <2>4, <2>5, <2>6, <2>7, <2>8, <2>9, <2>10, <2>11, <2>12, <2>13,
             <2>14, <2>15, <2>16 DEF Next, WorkerStep, Refresh
<1> QED BY <1>1, <1>2, ControlInvariant, PTL DEF SafetySpec

\* No request is sent with tokens that Spotify has answered with an error.
THEOREM RejectionTheorem == Spec => []RejectedTokensNotResent
<1>1. TokenInv => RejectedTokensNotResent
  BY DEF TokenInv, ControlInv, RejectedTokensNotResent, Failing, RefreshSteps
<1> QED BY <1>1, TokenInvariant, PTL DEF Spec
-----------------------------------------------------------------------------
(* Data left over from before an initialisation. *)

\* Every step that could leave the first refresh either publishes or withdraws.
LEMMA OldDataStep ==
  ASSUME ControlInv, OldDataOnlyInFirstRefresh, [Next]_vars
  PROVE  OldDataOnlyInFirstRefresh'
<1> USE DEF ControlInv, OldDataOnlyInFirstRefresh, AfterInit, Failing, InitSteps, RefreshSteps
<1>1. CASE Poll
  BY <1>1 DEF Poll, Go
<1>2. CASE InitStepFails
  BY <1>2 DEF InitStepFails, feed
<1>3. CASE GetWorkingPort \/ SetupOAuth \/ SetupCSRF
  <2>1. UNCHANGED feed /\ pc \in InitSteps
    BY <1>3 DEF GetWorkingPort, SetupOAuth, SetupCSRF, Go
  <2> QED BY <2>1 DEF feed
<1>4. CASE HookInitialized
  BY <1>4 DEF HookInitialized, Go
<1>5. CASE Connect
  BY <1>5 DEF Connect, Go, feed
<1>6. CASE RequestFails
  BY <1>6 DEF RequestFails, Go, feed
<1>7. CASE RequestRejected
  BY <1>7 DEF RequestRejected, Go
<1>8. CASE RequestAnswered
  BY <1>8 DEF RequestAnswered, Go
<1>9. CASE DeInit
  BY <1>9 DEF DeInit, Go
<1>10. CASE PublishMetaData
  BY <1>10 DEF PublishMetaData, Go
<1>11. CASE PushFailure
  BY <1>11 DEF PushFailure, Go, feed
<1>12. CASE WithdrawMetaData
  BY <1>12 DEF WithdrawMetaData, Go
<1>13. CASE FetchStatusMessages \/ Spotify \/ UNCHANGED vars
  <2>1. UNCHANGED <<pc, feed, dataIsOwn>>
    BY <1>13 DEF FetchStatusMessages, Spotify, SpotifyStarts, SpotifyQuits, SpotifySickens,
                 SpotifyRecovers, vars
  <2> QED BY <2>1 DEF feed
<1> QED BY <1>1, <1>2, <1>3, <1>4, <1>5, <1>6, <1>7, <1>8, <1>9, <1>10, <1>11, <1>12, <1>13
        DEF Next, WorkerStep, Refresh

\* So it is in every run.
LEMMA OldDataInvariant == SafetySpec => []OldDataOnlyInFirstRefresh
<1>1. Init => OldDataOnlyInFirstRefresh
  BY DEF Init, OldDataOnlyInFirstRefresh
<1>2. ControlInv /\ OldDataOnlyInFirstRefresh /\ [Next]_vars => OldDataOnlyInFirstRefresh'
  BY OldDataStep
<1> QED BY <1>1, <1>2, ControlInvariant, PTL DEF SafetySpec

\* What the GUI thread gets from an initialised hook was read since it was
\* initialised, once the first refresh has ended.
THEOREM FreshnessTheorem == Spec => []OldDataOnlyInFirstRefresh
  BY OldDataInvariant, PTL DEF Spec
-----------------------------------------------------------------------------
(* What the GUI thread sees of the hook is a MetaDataFeed. *)

FlagInv == hookInitialized \in BOOLEAN /\ metaDataInitialized \in BOOLEAN

\* Both flags are only ever set to TRUE, FALSE or a conjunction.
LEMMA FlagStep ==
  ASSUME FlagInv, [Next]_vars
  PROVE  FlagInv'
<1> USE DEF FlagInv
<1>1. CASE Poll
  BY <1>1 DEF Poll
<1>2. CASE HookInitialized \/ DeInit
  BY <1>2 DEF HookInitialized, DeInit
<1>3. CASE PublishMetaData \/ WithdrawMetaData
  BY <1>3 DEF PublishMetaData, WithdrawMetaData
<1>4. CASE RequestRejected \/ RequestAnswered
  BY <1>4 DEF RequestRejected, RequestAnswered
<1>5. CASE InitStepFails \/ GetWorkingPort \/ SetupOAuth \/ SetupCSRF \/ Connect \/ RequestFails
           \/ PushFailure \/ FetchStatusMessages \/ Spotify \/ UNCHANGED vars
  <2>1. UNCHANGED feed
    BY <1>5 DEF InitStepFails, GetWorkingPort, SetupOAuth, SetupCSRF, Connect, RequestFails,
                PushFailure, FetchStatusMessages, Spotify, SpotifyStarts, SpotifyQuits,
                SpotifySickens, SpotifyRecovers, vars
  <2> QED BY <2>1 DEF feed
<1> QED BY <1>1, <1>2, <1>3, <1>4, <1>5 DEF Next, WorkerStep, Refresh

\* Each write of the worker's is one step of the feed.
LEMMA FeedStep ==
  ASSUME ControlInv, FlagInv, [Next]_vars
  PROVE  [Feed!FeedNext]_(Feed!feed)
<1> USE DEF Feed!FeedNext, Feed!feed, ControlInv, FlagInv, AfterInit, Failing, InitSteps
<1>1. CASE Poll
  <2>1. UNCHANGED feed \/ Feed!Deinitialize
    BY <1>1 DEF Poll, feed, Feed!Deinitialize
  <2> QED BY <2>1 DEF feed
<1>2. CASE HookInitialized
  <2>1. Feed!Initialize
    BY <1>2 DEF HookInitialized, Go, Feed!Initialize
  <2> QED BY <2>1
<1>3. CASE RequestRejected \/ RequestAnswered
  <2>1. Feed!Assess
    BY <1>3 DEF RequestRejected, RequestAnswered, Go, Feed!Assess
  <2> QED BY <2>1
<1>4. CASE DeInit
  <2>1. Feed!Deinitialize
    BY <1>4 DEF DeInit, Go, Feed!Deinitialize
  <2> QED BY <2>1
<1>5. CASE PublishMetaData
  <2>1. Feed!Publish
    BY <1>5 DEF PublishMetaData, Go, Feed!Publish, Feed!Kinds
  <2> QED BY <2>1
<1>6. CASE WithdrawMetaData
  <2>1. UNCHANGED feed \/ Feed!Withdraw
    BY <1>6 DEF WithdrawMetaData, feed, Feed!Withdraw
  <2> QED BY <2>1 DEF feed
<1>7. CASE InitStepFails \/ GetWorkingPort \/ SetupOAuth \/ SetupCSRF \/ Connect \/ RequestFails
           \/ PushFailure \/ FetchStatusMessages \/ Spotify \/ UNCHANGED vars
  <2>1. UNCHANGED feed
    BY <1>7 DEF InitStepFails, GetWorkingPort, SetupOAuth, SetupCSRF, Connect, RequestFails,
                PushFailure, FetchStatusMessages, Spotify, SpotifyStarts, SpotifyQuits,
                SpotifySickens, SpotifyRecovers, vars
  <2> QED BY <2>1 DEF feed
<1> QED BY <1>1, <1>2, <1>3, <1>4, <1>5, <1>6, <1>7 DEF Next, WorkerStep, Refresh

\* So both are Boolean in every run.
LEMMA FlagInvariant == SafetySpec => []FlagInv
<1>1. Init => FlagInv
  BY DEF Init, FlagInv
<1> QED BY <1>1, FlagStep, PTL DEF SafetySpec

\* The hook implements the feed that SpotifyAnalyzer is written against.
THEOREM FeedTheorem == Spec => ImplementsFeed
<1>1. Init => Feed!FeedInit
  BY DEF Init, Feed!FeedInit
<1>2. ControlInv /\ FlagInv /\ [Next]_vars => [Feed!FeedNext]_(Feed!feed)
  BY FeedStep
<1> QED BY <1>1, <1>2, ControlInvariant, FlagInvariant, PTL
        DEF Spec, SafetySpec, ImplementsFeed, Feed!FeedSpec
-----------------------------------------------------------------------------
(* The queue of status messages, and the type invariant. *)

QueueInv ==
  /\ statusMessages \in Seq({"init", "request"})
  /\ unfetched \in 0 .. MaxQueuedStatusMessages + 1
  /\ QueueHoldsAllItCan

\* PushStatusEntry keeps the queue as long as it can be.
LEMMA PushKeepsQueue ==
  ASSUME QueueInv, NEW message \in {"init", "request"}, Push(message)
  PROVE  QueueInv'
<1> DEFINE room == Append(statusMessages, message)
<1>1. /\ room \in Seq({"init", "request"})
      /\ Len(room) = Len(statusMessages) + 1 /\ room # <<>>
  BY DEF QueueInv
<1>2. Tail(room) \in Seq({"init", "request"}) /\ Len(Tail(room)) = Len(statusMessages)
  BY <1>1
<1>3. statusMessages' = IF Len(room) > MaxQueuedStatusMessages THEN Tail(room) ELSE room
  BY DEF Push
<1>4. unfetched' = IF unfetched > MaxQueuedStatusMessages THEN unfetched ELSE unfetched + 1
  BY DEF Push
<1> HIDE DEF room
<1> QED BY <1>1, <1>2, <1>3, <1>4, QueueAssumption DEF QueueInv, QueueHoldsAllItCan

\* No other step of the worker's touches it; FetchStatusMessages empties it.
LEMMA QueueInvariant == SafetySpec => []QueueInv
<1>1. Init => QueueInv
  BY QueueAssumption DEF Init, QueueInv, QueueHoldsAllItCan
<1>2. QueueInv /\ [Next]_vars => QueueInv'
  <2> SUFFICES ASSUME QueueInv, [Next]_vars PROVE QueueInv'
    OBVIOUS
  <2>1. CASE InitStepFails \/ PushFailure
    BY <2>1, PushKeepsQueue DEF InitStepFails, PushFailure
  <2>2. CASE FetchStatusMessages
    BY <2>2, QueueAssumption DEF FetchStatusMessages, QueueInv, QueueHoldsAllItCan
  <2>3. CASE Poll \/ GetWorkingPort \/ SetupOAuth \/ SetupCSRF \/ HookInitialized \/ Connect
             \/ RequestFails \/ RequestRejected \/ RequestAnswered \/ DeInit \/ PublishMetaData
             \/ WithdrawMetaData \/ Spotify \/ UNCHANGED vars
    <3>1. UNCHANGED queue
      BY <2>3 DEF Poll, GetWorkingPort, SetupOAuth, SetupCSRF, HookInitialized, Connect,
                  RequestFails, RequestRejected, RequestAnswered, DeInit, PublishMetaData,
                  WithdrawMetaData, Spotify, SpotifyStarts, SpotifyQuits, SpotifySickens,
                  SpotifyRecovers, vars
    <3> QED BY <3>1 DEF queue, QueueInv, QueueHoldsAllItCan
  <2> QED BY <2>1, <2>2, <2>3 DEF Next, WorkerStep, Refresh
<1> QED BY <1>1, <1>2, PTL DEF SafetySpec

\* The queue drops messages only when it is full, and no more than it must.
THEOREM QueueTheorem == Spec => []QueueHoldsAllItCan
<1>1. QueueInv => QueueHoldsAllItCan
  BY DEF QueueInv
<1> QED BY <1>1, QueueInvariant, PTL DEF Spec

\* The types of the rest; tokens and path are tokens of Spotify's when used.
DataInv ==
  /\ {tokens, path} \subseteq Tokens \cup {NoTokens}
  /\ hookInitialized \/ pc = "initialized" => tokens \in Tokens
  /\ session \in {"none", "live", "dead"}
  /\ session # "none" => path \in Tokens
  /\ spotify \in {"off", "sick", "healthy"}
  /\ accepted \subseteq Tokens /\ rejected \subseteq Tokens
  /\ buffered \in {"song", "ad"}

\* Every step keeps them.
LEMMA DataStep ==
  ASSUME DataInv, ControlInv, [Next]_vars
  PROVE  DataInv'
<1> USE DEF DataInv, AfterInit, InitSteps, RefreshSteps
<1>1. CASE Poll
  BY <1>1 DEF Poll, Go, connection, environment
<1>2. CASE InitStepFails
  BY <1>2 DEF InitStepFails, feed, connection, environment
<1>3. CASE GetWorkingPort \/ SetupOAuth
  <2>1. /\ UNCHANGED <<feed, tokens, session, path, environment, rejected>>
        /\ pc \in InitSteps /\ pc' \in InitSteps
    BY <1>3 DEF GetWorkingPort, SetupOAuth, Go, connection
  <2> QED BY <2>1 DEF feed, environment
<1>4. CASE SetupCSRF
  BY <1>4 DEF SetupCSRF, Go, feed
<1>5. CASE HookInitialized
  BY <1>5 DEF HookInitialized, Go, connection, environment
<1>6. CASE Connect
  BY <1>6 DEF Connect, Go, feed, environment, ControlInv
<1>7. CASE RequestFails
  BY <1>7 DEF RequestFails, Go, feed, connection, environment
<1>8. CASE RequestRejected
  BY <1>8 DEF RequestRejected, Go, connection, environment, ControlInv
<1>9. CASE RequestAnswered
  BY <1>9 DEF RequestAnswered, Go, connection, environment
<1>10. CASE DeInit
  BY <1>10 DEF DeInit, Go, connection, environment
<1>11. CASE PublishMetaData
  BY <1>11 DEF PublishMetaData, Go, connection, environment
<1>12. CASE PushFailure
  BY <1>12 DEF PushFailure, Go, feed, connection, environment
<1>13. CASE WithdrawMetaData
  BY <1>13 DEF WithdrawMetaData, Go, environment
<1>14. CASE FetchStatusMessages
  BY <1>14 DEF FetchStatusMessages, feed, connection, environment
<1>15. CASE SpotifyStarts
  <2>1. UNCHANGED <<pc, feed, tokens, session, path, accepted, rejected>> /\ spotify' = "healthy"
    BY <1>15 DEF SpotifyStarts
  <2> QED BY <2>1 DEF feed
<1>16. CASE SpotifyQuits
  BY <1>16 DEF SpotifyQuits, feed
<1>17. CASE SpotifySickens \/ SpotifyRecovers
  <2>1. UNCHANGED <<pc, feed, tokens, path, rejected>> /\ spotify' \in {"sick", "healthy"}
    BY <1>17 DEF SpotifySickens, SpotifyRecovers, connection
  <2>2. accepted' \subseteq Tokens /\ session' \in {session, "dead"}
    BY <1>17 DEF SpotifySickens, SpotifyRecovers, connection
  <2>3. session' # "none" => session # "none"
    BY <1>17 DEF SpotifySickens, SpotifyRecovers, connection
  <2> QED BY <2>1, <2>2, <2>3 DEF feed
<1>18. CASE UNCHANGED vars
  BY <1>18 DEF vars, feed, connection, environment
<1> QED BY <1>1, <1>2, <1>3, <1>4, <1>5, <1>6, <1>7, <1>8, <1>9, <1>10, <1>11, <1>12, <1>13,
           <1>14, <1>15, <1>16, <1>17, <1>18 DEF Next, WorkerStep, Refresh, Spotify

OtherFlagsInv == needsRestart \in BOOLEAN /\ port \in Ports /\ dataIsOwn \in BOOLEAN

\* The remaining flags are Boolean too.
LEMMA OtherFlagsStep ==
  ASSUME OtherFlagsInv, [Next]_vars
  PROVE  OtherFlagsInv'
<1> USE DEF OtherFlagsInv
<1>1. CASE GetWorkingPort
  <2>1. port' \in Ports
    BY <1>1 DEF GetWorkingPort, Ports
  <2> QED BY <1>1, <2>1 DEF GetWorkingPort, feed
<1>2. CASE HookInitialized \/ PublishMetaData
  BY <1>2 DEF HookInitialized, PublishMetaData, connection
<1>3. CASE RequestRejected \/ RequestAnswered
  BY <1>3 DEF RequestRejected, RequestAnswered, connection
<1>4. CASE SpotifyStarts \/ SpotifyRecovers
  BY <1>4 DEF SpotifyStarts, SpotifyRecovers, feed
<1>5. CASE Poll \/ InitStepFails \/ SetupOAuth \/ SetupCSRF \/ Connect \/ RequestFails \/ DeInit
           \/ PushFailure \/ WithdrawMetaData \/ FetchStatusMessages \/ SpotifyQuits
           \/ SpotifySickens \/ UNCHANGED vars
  <2>1. UNCHANGED <<needsRestart, port, dataIsOwn>>
    BY <1>5, Zenon
       DEF Poll, InitStepFails, SetupOAuth, SetupCSRF, Connect, RequestFails, DeInit, PushFailure,
           WithdrawMetaData, FetchStatusMessages, SpotifyQuits, SpotifySickens, vars, feed,
           connection
  <2> QED BY <2>1
<1> QED BY <1>1, <1>2, <1>3, <1>4, <1>5 DEF Next, WorkerStep, Refresh, Spotify

\* Every variable keeps its type; the queue never exceeds its limit.
THEOREM TypeTheorem == Spec => []TypeOK
<1>1. Init => DataInv /\ FlagInv /\ OtherFlagsInv
  BY DEF Init, DataInv, FlagInv, OtherFlagsInv, Ports
<1>2. ControlInv /\ DataInv /\ FlagInv /\ OtherFlagsInv /\ [Next]_vars
        => DataInv' /\ FlagInv' /\ OtherFlagsInv'
  BY DataStep, FlagStep, OtherFlagsStep
<1>3. ControlInv /\ DataInv /\ FlagInv /\ OtherFlagsInv /\ QueueInv => TypeOK
  <2> SUFFICES ASSUME ControlInv, DataInv, FlagInv, OtherFlagsInv, QueueInv PROVE TypeOK
    OBVIOUS
  <2>1. Len(statusMessages) <= MaxQueuedStatusMessages
    BY QueueAssumption DEF QueueInv, QueueHoldsAllItCan
  <2> QED BY <2>1 DEF TypeOK, ControlInv, DataInv, FlagInv, OtherFlagsInv, QueueInv
<1> QED BY <1>1, <1>2, <1>3, ControlInvariant, QueueInvariant, PTL DEF Spec, SafetySpec
=============================================================================
