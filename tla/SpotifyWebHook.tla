--------------------------- MODULE SpotifyWebHook ---------------------------
(***************************************************************************)
(* What the worker thread of a SpotifyWebHook does each time the refresh   *)
(* cycle (module RefreshCycle) wakes it up: initialise the hook with       *)
(* Spotify's tokens, refresh the meta data, or deinitialise it; and the    *)
(* GUI thread that fetches the status messages (SpotifyWebHook.cpp).       *)
(*                                                                         *)
(* The GUI thread may look between any two critical sections of the        *)
(* worker, so the worker's steps end where another thread can tell: at     *)
(* each lock of m_mutex and at each write of m_spotifyNeedsRestart.        *)
(* Spotify and the network are the environment.  While Spotify is healthy  *)
(* every request to a port that serves it is answered; otherwise a request *)
(* may end in any way.                                                     *)
(***************************************************************************)
EXTENDS Naturals, Sequences, FiniteSets

CONSTANTS
  Tokens,                   \* pairs of an OAuth and a CSRF token
  NoTokens,                 \* the empty strings they start as
  MaxQueuedStatusMessages   \* m_maxQueuedStatusMessages

ASSUME TokensAssumption == NoTokens \notin Tokens
ASSUME QueueAssumption == MaxQueuedStatusMessages \in Nat \ {0}

VARIABLES
  pc,                   \* where the worker is
  hookInitialized,      \* m_hookInitialized
  metaDataInitialized,  \* m_metaDataInitialized
  buffered,             \* m_bufferedMetaData.m_isAd: "song" or "ad"
  needsRestart,         \* m_spotifyNeedsRestart
  tokens,               \* m_oauth and m_csrf
  port,                 \* what Spotify serves on m_localPort
  session,              \* m_metaSession: "none", "live", or "dead" since Spotify quit
  path,                 \* the tokens in m_metaPath
  statusMessages,       \* m_statusMessages, each what has failed: "init" or "request"
  spotify,              \* environment: "off", "sick" or "healthy"
  accepted,             \* environment: the tokens this run of Spotify issued
  rejected,             \* history: the tokens Spotify answered with an error
  dataIsOwn,            \* history: buffered was published since the hook was last initialised
  unfetched             \* history: failures since the last fetch, at most Max + 1

feed == <<hookInitialized, metaDataInitialized, buffered, needsRestart>>
connection == <<tokens, port, session, path>>
environment == <<spotify, accepted>>
queue == <<statusMessages, unfetched>>
vars == <<pc, feed, connection, environment, queue, rejected, dataIsOwn>>

InitSteps == {"scanPorts", "setupOAuth", "setupCSRF"}
RefreshSteps == {"connect", "request", "deInit", "publish", "push"}
Locations == {"idle", "initialized", "withdraw"} \cup InitSteps \cup RefreshSteps

\* A port that accepts the scan's connection may serve everything, only the tokens
\* (as the code notes of port 4370), or nothing: it is another program's, or
\* Spotify has left it.
Ports == {"full", "tokensOnly", "dead"}

Init ==
  /\ pc = "idle"
  /\ hookInitialized = FALSE /\ metaDataInitialized = FALSE /\ needsRestart = FALSE
  /\ buffered = "song"
  /\ tokens = NoTokens /\ path = NoTokens /\ session = "none" /\ port = "dead"
  /\ statusMessages = <<>> /\ unfetched = 0
  /\ spotify \in {"off", "healthy"} /\ accepted = {}
  /\ rejected = {} /\ dataIsOwn = FALSE

Go(from, to) == pc = from /\ pc' = to

-----------------------------------------------------------------------------
(* The loop body: look for spotify.exe and choose. *)

\* Mutant of Poll: the hook is not deinitialised when Spotify is gone.
PollForgetsDeInit ==
  /\ Go("idle", CASE spotify # "off" /\ ~hookInitialized -> "scanPorts"
                  [] spotify # "off" /\ hookInitialized -> "connect"
                  [] OTHER -> "idle")
  /\ UNCHANGED <<feed, connection, environment, queue, rejected, dataIsOwn>>

Poll ==
  /\ Go("idle", CASE spotify # "off" /\ ~hookInitialized -> "scanPorts"
                  [] spotify # "off" /\ hookInitialized -> "connect"
                  [] OTHER -> "idle")
  /\ hookInitialized' = (hookInitialized /\ spotify # "off")
  /\ UNCHANGED <<metaDataInitialized, buffered, needsRestart, connection, environment, queue,
                 rejected, dataIsOwn>>

-----------------------------------------------------------------------------
(* PushStatusEntry: the oldest messages make room for the new one. *)

\* Mutant of Push: the queue is cut one message too short.
PushOneTooFew(message) ==
  /\ statusMessages' =
       LET room == Append(statusMessages, message)
       IN  IF Len(room) > MaxQueuedStatusMessages - 1 THEN Tail(room) ELSE room
  /\ unfetched' = IF unfetched > MaxQueuedStatusMessages THEN unfetched ELSE unfetched + 1

\* Mutant of Push: no message makes room for another.
PushWithoutLimit(message) ==
  /\ statusMessages' = Append(statusMessages, message)
  /\ unfetched' = IF unfetched > MaxQueuedStatusMessages THEN unfetched ELSE unfetched + 1

Push(message) ==
  /\ statusMessages' =
       LET room == Append(statusMessages, message)
       IN  IF Len(room) > MaxQueuedStatusMessages THEN Tail(room) ELSE room
  /\ unfetched' = IF unfetched > MaxQueuedStatusMessages THEN unfetched ELSE unfetched + 1

\* FetchStatusMessages, by the GUI thread: a copy of the queue, which is emptied.
FetchStatusMessages ==
  /\ statusMessages' = <<>> /\ unfetched' = 0
  /\ UNCHANGED <<pc, feed, connection, environment, rejected, dataIsOwn>>

-----------------------------------------------------------------------------
(* Init(): find a port, get an OAuth token from open.spotify.com, get a    *)
(* CSRF token from Spotify, then refresh for the first time.               *)

\* external: whether a request may succeed or fail.  The CSRF token comes from
\* the port found before.
Outcomes ==
  CASE spotify # "healthy" -> BOOLEAN
    [] pc = "setupCSRF" /\ port = "dead" -> {FALSE}
    [] OTHER -> {TRUE}

InitStepFails ==
  /\ pc \in InitSteps /\ FALSE \in Outcomes
  /\ pc' = "idle"
  /\ Push("init")
  /\ UNCHANGED <<feed, connection, environment, rejected, dataIsOwn>>

\* The last of the ports that accept a connection: the status that is tested is
\* that of a response nobody has received.
GetWorkingPort ==
  /\ TRUE \in Outcomes /\ Go("scanPorts", "setupOAuth")
  /\ port' \in IF spotify = "off" THEN {"dead"} ELSE Ports
  /\ UNCHANGED <<feed, tokens, session, path, environment, queue, rejected, dataIsOwn>>

SetupOAuth ==
  /\ TRUE \in Outcomes /\ Go("setupOAuth", "setupCSRF")
  /\ UNCHANGED <<feed, connection, environment, queue, rejected, dataIsOwn>>

\* The answer may still have come from the run of Spotify that has just ended.
SetupCSRF ==
  /\ TRUE \in Outcomes /\ Go("setupCSRF", "initialized")
  /\ \E new \in Tokens \ {tokens, path} :
       /\ tokens' = new
       /\ accepted' = (accepted \cap {path}) \cup (IF spotify = "off" THEN {} ELSE {new})
       /\ rejected' = rejected \ {new}
  /\ UNCHANGED <<feed, port, session, path, spotify, queue, dataIsOwn>>

\* m_metaDataInitialized is left as the previous initialisation had it.
HookInitialized ==
  /\ Go("initialized", "connect")
  /\ hookInitialized' = TRUE
  /\ dataIsOwn' = FALSE
  /\ UNCHANGED <<metaDataInitialized, buffered, needsRestart, connection, environment, queue,
                 rejected>>

-----------------------------------------------------------------------------
(* RefreshMetaData(). *)

\* The session is rebuilt if there is none or if connected() says so, which it
\* need not do when the peer has gone.
Connect ==
  /\ Go("connect", "request")
  /\ \/ /\ session' = IF spotify = "off" THEN "dead" ELSE "live"
        /\ path' = tokens
     \/ session # "none" /\ UNCHANGED <<session, path>>
  /\ UNCHANGED <<feed, tokens, port, environment, queue, rejected, dataIsOwn>>

\* external: how Spotify may answer the request for /remote/status.json
Answers ==
  CASE spotify # "healthy" \/ session = "dead" -> {"data", "error", "failure"}
    [] port # "full" -> {"failure"}
    [] path \in accepted -> {"data"}
    [] OTHER -> {"data", "error"}

\* No connection, a status other than 200, no JSON, or an error without message.
RequestFails ==
  /\ "failure" \in Answers /\ Go("request", "push")
  /\ UNCHANGED <<feed, connection, environment, queue, rejected, dataIsOwn>>

\* An answer with an "error" member.
RequestRejected ==
  /\ "error" \in Answers /\ Go("request", "deInit")
  /\ needsRestart' = TRUE
  /\ rejected' = rejected \cup {path}
  /\ UNCHANGED <<hookInitialized, metaDataInitialized, buffered, connection, environment, queue,
                 dataIsOwn>>

\* Mutant of RequestAnswered: the advice to restart Spotify is never taken back.
RequestAnsweredKeepsAdvice ==
  /\ "data" \in Answers
  /\ Go("request", "publish") \/ (spotify # "healthy" /\ Go("request", "push"))
  /\ UNCHANGED <<feed, connection, environment, queue, rejected, dataIsOwn>>

\* An answer without one; a member of the wrong type is noticed only afterwards.
RequestAnswered ==
  /\ "data" \in Answers
  /\ Go("request", "publish") \/ (spotify # "healthy" /\ Go("request", "push"))
  /\ needsRestart' = FALSE
  /\ UNCHANGED <<hookInitialized, metaDataInitialized, buffered, connection, environment, queue,
                 rejected, dataIsOwn>>

\* Mutant of DeInit: rejected tokens do not cause a new initialisation.
DeInitForgotten ==
  /\ Go("deInit", "push")
  /\ UNCHANGED <<feed, connection, environment, queue, rejected, dataIsOwn>>

DeInit ==
  /\ Go("deInit", "push")
  /\ hookInitialized' = FALSE
  /\ UNCHANGED <<metaDataInitialized, buffered, needsRestart, connection, environment, queue,
                 rejected, dataIsOwn>>

\* m_isAd is not "next_enabled"; when that member is missing, it is indeterminate.
PublishMetaData ==
  /\ Go("publish", "idle")
  /\ buffered' \in {"song", "ad"}
  /\ metaDataInitialized' = TRUE
  /\ dataIsOwn' = TRUE
  /\ UNCHANGED <<hookInitialized, needsRestart, connection, environment, queue, rejected>>

PushFailure ==
  /\ Go("push", "withdraw")
  /\ Push("request")
  /\ UNCHANGED <<feed, connection, environment, rejected, dataIsOwn>>

\* Mutant of WithdrawMetaData: the session survives the failure.
WithdrawKeepsSession ==
  /\ Go("withdraw", "idle")
  /\ metaDataInitialized' = FALSE
  /\ UNCHANGED <<hookInitialized, buffered, needsRestart, connection, environment, queue, rejected,
                 dataIsOwn>>

\* Mutant of WithdrawMetaData: the data survive the failure.
WithdrawKeepsData ==
  /\ Go("withdraw", "idle")
  /\ session' = "none"
  /\ UNCHANGED <<feed, tokens, port, path, environment, queue, rejected, dataIsOwn>>

WithdrawMetaData ==
  /\ Go("withdraw", "idle")
  /\ session' = "none"
  /\ metaDataInitialized' = FALSE
  /\ UNCHANGED <<hookInitialized, buffered, needsRestart, tokens, port, path, environment,
                 queue, rejected, dataIsOwn>>

-----------------------------------------------------------------------------
(* external: Spotify and its WebHelper. *)

\* Spotify may come back listening on other ports.
SpotifyStarts ==
  /\ spotify = "off" /\ spotify' = "healthy"
  /\ port' \in Ports
  /\ UNCHANGED <<pc, feed, tokens, session, path, accepted, queue, rejected, dataIsOwn>>

\* The tokens of a run end with it, and so does its end of the connection.
SpotifyQuits ==
  /\ spotify # "off" /\ spotify' = "off"
  /\ accepted' = {}
  /\ session' = IF session = "none" THEN "none" ELSE "dead"
  /\ UNCHANGED <<pc, feed, tokens, port, path, queue, rejected, dataIsOwn>>

SpotifySickens ==
  /\ spotify = "healthy" /\ spotify' = "sick"
  /\ UNCHANGED <<pc, feed, connection, accepted, queue, rejected, dataIsOwn>>

\* If the WebHelper had to be restarted, that is a new server for the hook.
SpotifyRecovers ==
  /\ spotify = "sick" /\ spotify' = "healthy"
  /\ \/ UNCHANGED <<port, accepted, session>>
     \/ /\ port' \in Ports /\ accepted' = {}
        /\ session' = IF session = "none" THEN "none" ELSE "dead"
  /\ UNCHANGED <<pc, feed, tokens, path, queue, rejected, dataIsOwn>>

-----------------------------------------------------------------------------
Refresh ==
  \/ Connect \/ RequestFails \/ RequestRejected \/ RequestAnswered \/ DeInit
  \/ PublishMetaData \/ PushFailure \/ WithdrawMetaData

WorkerStep ==
  \/ Poll \/ InitStepFails \/ GetWorkingPort \/ SetupOAuth \/ SetupCSRF \/ HookInitialized
  \/ Refresh

Spotify == SpotifyStarts \/ SpotifyQuits \/ SpotifySickens \/ SpotifyRecovers

Next == WorkerStep \/ FetchStatusMessages \/ Spotify

SafetySpec == Init /\ [][Next]_vars

\* The cycle wakes the worker again and again, and every request ends.
Spec == SafetySpec /\ WF_vars(WorkerStep)

-----------------------------------------------------------------------------
TypeOK ==
  /\ pc \in Locations
  /\ hookInitialized \in BOOLEAN /\ metaDataInitialized \in BOOLEAN /\ needsRestart \in BOOLEAN
  /\ dataIsOwn \in BOOLEAN /\ port \in Ports
  /\ buffered \in {"song", "ad"}
  /\ {tokens, path} \subseteq Tokens \cup {NoTokens}
  /\ session \in {"none", "live", "dead"}
  /\ statusMessages \in Seq({"init", "request"})
  /\ Len(statusMessages) <= MaxQueuedStatusMessages
  /\ unfetched \in 0 .. MaxQueuedStatusMessages + 1
  /\ spotify \in {"off", "sick", "healthy"}
  /\ accepted \subseteq Tokens /\ rejected \subseteq Tokens

\* Tokens Spotify has answered with an error are never sent again: the session
\* they are in is dropped, and the next one waits for new tokens (lines 207-208
\* and 315).
RejectedTokensNotResent == pc = "request" => path \notin rejected

\* The GUI thread takes the hook's word that it is initialised and shows what
\* GetMetaData returns.  What it gets was read since that initialisation,
\* except until the first refresh has ended.
OldDataOnlyInFirstRefresh ==
  hookInitialized /\ metaDataInitialized /\ ~dataIsOwn
    => pc \in RefreshSteps \cup {"withdraw"}

\* No two answers contradict: when the worker is done, there are no data while
\* Spotify is said to need a restart, and none with a session that is gone.
RestartAdviceExcludesData ==
  pc = "idle" => (metaDataInitialized => ~needsRestart /\ session # "none")

\* The queue drops messages only when it is full, and then no more than it must.
QueueHoldsAllItCan ==
  Len(statusMessages) = IF unfetched > MaxQueuedStatusMessages THEN MaxQueuedStatusMessages
                                                               ELSE unfetched

Ready == hookInitialized /\ metaDataInitialized /\ ~needsRestart

\* Once Spotify stays healthy, the hook ends up ready and stays so, whatever went
\* wrong before, but for two ways the choice of the port can defeat it: it stays
\* initialised on a port that does not serve the meta data, since a failing
\* request never leads to a new scan (310-319), as the comment at 357-364 fears;
\* or every scan takes a port that yields no token, and is repeated for ever.
HookRecovers ==
  <>[](spotify = "healthy") =>
    \/ <>[]Ready
    \/ <>[](hookInitialized /\ port # "full")
    \/ []<>(pc = "setupCSRF" /\ port = "dead")

\* Once Spotify is gone for good, the hook is deinitialised for good.
HookLetsGo == <>[](spotify = "off") => <>[]~hookInitialized

-----------------------------------------------------------------------------
Feed == INSTANCE MetaDataFeed

\* Refinement: what the GUI thread sees of the hook is a MetaDataFeed.
ImplementsFeed == Feed!FeedSpec
=============================================================================
