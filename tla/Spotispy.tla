------------------------------ MODULE Spotispy ------------------------------
(***************************************************************************)
(* The threads of one run of Spotispy, composed: the GUI thread with its   *)
(* SpotifyAnalyzer, the SpotifyWebHook the analyzer owns, and the two      *)
(* threads that hook owns.  The worker thread's refresh, one step in       *)
(* RefreshCycle, is the steps of SpotifyWebHook from "idle" back to        *)
(* "idle"; what SpotifyAnalyzer takes for any MetaDataFeed is that hook;   *)
(* and the owner of RefreshCycle is the GUI thread, which builds the hook  *)
(* before its first call of Analyze() and destroys it when the dialog has  *)
(* ended.  Spotify is one program to all of them.                          *)
(***************************************************************************)
EXTENDS SpotifyAnalyzer, Naturals

CONSTANTS
  Tokens, NoTokens, MaxQueuedStatusMessages,  \* SpotifyWebHook's
  StartValues                                 \* RefreshCycle's

VARIABLES
  worker, tokens, port, metaSession, path, statusMessages,  \* SpotifyWebHook's
  spotify, accepted, rejected, dataIsOwn, unfetched,
  loop, owner, flag, exitRequested, start, slept, missed, late,  \* RefreshCycle's
  fetched,  \* this call of Analyze() has fetched the status messages
  asked     \* history: calls of Init() and RefreshMetaData() begun since the last sleep ended

WebHook == INSTANCE SpotifyWebHook WITH pc <- worker, session <- metaSession
Cycle == INSTANCE RefreshCycle WITH pc <- loop

\* What the two modules assume of these constants.
ConstantsFit ==
  /\ NoTokens \notin Tokens /\ MaxQueuedStatusMessages \in Nat \ {0}
  /\ StartValues # {} /\ StartValues \subseteq BOOLEAN

\* What only the GUI thread and the mixer's user know, what only the hook does,
\* and the cycle.
gui == <<pc, analyzer, slider, outside, mixer, history>>
hook == <<worker, tokens, port, metaSession, path, statusMessages,
          spotify, accepted, rejected, dataIsOwn, unfetched>>
cycle == <<loop, owner, flag, exitRequested, start, slept, missed, late>>
spotispy == <<gui, feed, hook, cycle, fetched, asked>>

SpotispyInit ==
  /\ Init /\ WebHook!Init /\ Cycle!Init
  /\ running <=> spotify # "off"
  /\ fetched = FALSE /\ asked = 0

-----------------------------------------------------------------------------
(* The GUI thread. *)

\* Analyze(), which empties the queue between GetMetaData and the branch.
Tick ==
  /\ owner = "alive"
  /\ \/ /\ Analyze /\ (pc = "judge" => fetched)
        /\ fetched' = (fetched /\ pc # "judge")
        /\ UNCHANGED hook
     \/ /\ pc = "judge" /\ ~fetched /\ fetched' = TRUE
        /\ WebHook!FetchStatusMessages /\ UNCHANGED gui
  /\ UNCHANGED <<cycle, asked>>

Handler == owner = "alive" /\ Dialog /\ UNCHANGED <<hook, cycle, fetched, asked>>

\* The constructor and the destructor of the hook.
Lifetime ==
  /\ \/ Cycle!StartNotifier \/ Cycle!NotifyExit \/ Cycle!Join
     \/ pc \in Ended /\ Cycle!RequestExit
  /\ UNCHANGED <<gui, feed, hook, fetched, asked>>

-----------------------------------------------------------------------------
(* The hook's threads. *)

\* A step of the worker's refresh; the one that ends it is the cycle's Work.  A
\* pass that finds nothing to do, because Spotify is off, asks nothing of it.
Refresh ==
  /\ loop["worker"] = "work" /\ WebHook!WorkerStep
  /\ \/ worker' # "idle" /\ UNCHANGED cycle
     \/ worker' = "idle" /\ Cycle!Work("worker")
  /\ asked' = IF worker = "idle" /\ worker' # "idle" THEN asked + 1 ELSE asked
  /\ UNCHANGED <<gui, fetched>>

\* Everything else in the two loops.
Circulate ==
  /\ \E t \in Cycle!Threads :
       /\ t = "worker" => loop[t] # "work"
       /\ Cycle!ThreadStep(t) \/ Cycle!SpuriousWake(t)
  /\ asked' = IF loop["notifier"] = "work" /\ loop'["notifier"] = "signal" THEN 0 ELSE asked
  /\ UNCHANGED <<gui, feed, hook, fetched>>

-----------------------------------------------------------------------------
(* external: Spotify, which both halves look for, and the mixer's user. *)

Spotify ==
  /\ \/ SpotifyStarts /\ WebHook!SpotifyStarts
     \/ SessionEnds /\ ~running' /\ WebHook!SpotifyQuits
     \/ /\ (SessionEnds /\ running') \/ SessionStarts \/ UserSetsVolume \/ UserSetsMute
        /\ UNCHANGED hook
     \/ (WebHook!SpotifySickens \/ WebHook!SpotifyRecovers) /\ UNCHANGED gui
  /\ UNCHANGED <<cycle, fetched, asked>>

SpotispyNext == Tick \/ Handler \/ Lifetime \/ Refresh \/ Circulate \/ Spotify

SpotispySpec == SpotispyInit /\ [][SpotispyNext]_spotispy

-----------------------------------------------------------------------------
\* Each part, in the whole, still behaves as its own module says: the analyzer,
\* because the real hook changes what it can see of it only as a MetaDataFeed
\* does; the cycle, because a refresh always comes back.
AnalyzerInWhole == SafetySpec
WebHookInWhole == WebHook!SafetySpec
CycleInWhole == Cycle!SafetySpec

\* When the destructor has returned, no thread is in a refresh, so none uses the
\* hook any more.
NoRefreshOutlivesHook == owner = "done" => worker = "idle" /\ \A t \in Cycle!Threads : loop[t] = "done"

\* From a clean start no two calls of Init() and RefreshMetaData() follow each
\* other without a sleep between them.
RequestsAreSpaced == start = "clean" => asked <= 1

\* While the worker is not at work, which is most of the time, the GUI thread gets
\* answers that agree, from an initialised hook no data of an earlier
\* initialisation, and none while Spotify is to be restarted.
QuietHookIsConsistent ==
  loop["worker"] # "work" /\ metaDataInitialized =>
    ~needsRestart /\ metaSession # "none" /\ (hookInitialized => dataIsOwn)

\* "the actual time between the refreshes is the time the request takes +
\* refreshRate" (SpotifyWebHook.h:40), from any start: a sleep ends between one
\* call of Init() or RefreshMetaData() and the next.
EveryRequestIsSpaced == asked <= 1
=============================================================================
