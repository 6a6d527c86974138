-------------------------- MODULE Spotispy_proofs --------------------------
(***************************************************************************)
(* What holds of the whole program: its parts behave in it as their own    *)
(* modules say, so what is proved of them there is true here, and what     *)
(* relates one part to another follows from invariants of the composition. *)
(***************************************************************************)
EXTENDS Spotispy, SpotifyAnalyzer_proofs

HookP == INSTANCE SpotifyWebHook_proofs WITH pc <- worker, session <- metaSession
CycleP == INSTANCE RefreshCycle_proofs WITH pc <- loop

-----------------------------------------------------------------------------
(* The parts in the whole. *)

\* Every step of the program is a step of the hook, or none of its business.
THEOREM WebHookTheorem == SpotispySpec => WebHookInWhole
<1>1. SpotispyInit => WebHook!Init
  BY DEF SpotispyInit
<1>2. [SpotispyNext]_spotispy => [WebHook!Next]_(WebHook!vars)
  <2> SUFFICES ASSUME [SpotispyNext]_spotispy PROVE [WebHook!Next]_(WebHook!vars)
    OBVIOUS
  <2>1. ASSUME UNCHANGED <<hook, feed>> PROVE UNCHANGED WebHook!vars
    BY <2>1 DEF hook, feed, WebHook!vars, WebHook!feed, WebHook!connection, WebHook!environment,
                WebHook!queue
  <2>2. CASE Tick
    <3>1. Analyze => UNCHANGED feed
      BY DEF Analyze, Begin, Save, Ask, Get, Judge, OnAdStatusChanged
    <3> QED BY <2>1, <2>2, <3>1 DEF Tick, WebHook!Next
  <2>3. CASE Handler
    BY <2>1, <2>3 DEF Handler, Dialog, SetAdsBehavior, MoveSlider, Close, Cancel
  <2>4. CASE Lifetime
    BY <2>1, <2>4 DEF Lifetime
  <2>5. CASE Refresh
    BY <2>5 DEF Refresh, WebHook!Next
  <2>6. CASE Circulate
    BY <2>1, <2>6 DEF Circulate
  <2>7. CASE Spotify
    BY <2>1, <2>7 DEF Spotify, SessionEnds, SessionStarts, UserSetsVolume, UserSetsMute, WebHook!Next,
                      WebHook!Spotify
  <2>8. CASE UNCHANGED spotispy
    BY <2>1, <2>8 DEF spotispy
  <2> QED BY <2>2, <2>3, <2>4, <2>5, <2>6, <2>7, <2>8 DEF SpotispyNext
<1> QED BY <1>1, <1>2, PTL DEF SpotispySpec, WebHookInWhole, WebHook!SafetySpec

\* Every step of the program is a step of the cycle, or none of its business.
THEOREM CycleTheorem == SpotispySpec => CycleInWhole
<1>1. SpotispyInit => Cycle!Init
  BY DEF SpotispyInit
<1>2. [SpotispyNext]_spotispy => [Cycle!Next]_(Cycle!vars)
  <2> SUFFICES ASSUME [SpotispyNext]_spotispy PROVE [Cycle!Next]_(Cycle!vars)
    OBVIOUS
  <2>1. ASSUME UNCHANGED cycle PROVE UNCHANGED Cycle!vars
    BY <2>1 DEF cycle, Cycle!vars, Cycle!history
  <2>2. CASE Lifetime
    BY <2>2 DEF Lifetime, Cycle!Next, Cycle!OwnerStep
  <2>3. CASE Refresh
    <3>1. CASE UNCHANGED cycle
      BY <2>1, <3>1
    <3>2. CASE Cycle!Work("worker")
      BY <3>2 DEF Cycle!Next, Cycle!ThreadStep, Cycle!Threads
    <3> QED BY <2>3, <3>1, <3>2 DEF Refresh
  <2>4. CASE Circulate
    BY <2>4 DEF Circulate, Cycle!Next
  <2>5. CASE Tick \/ Handler \/ Spotify \/ UNCHANGED spotispy
    BY <2>1, <2>5 DEF Tick, Handler, Spotify, spotispy
  <2> QED BY <2>2, <2>3, <2>4, <2>5 DEF SpotispyNext
<1> QED BY <1>1, <1>2, PTL DEF SpotispySpec, CycleInWhole, Cycle!SafetySpec
-----------------------------------------------------------------------------
(* What was proved of the parts. *)

\* The instances of the modules with the proofs are the same hook and cycle.
LEMMA SameHook ==
  /\ WebHook!Init => HookP!Init
  /\ [WebHook!Next]_(WebHook!vars) => [HookP!Next]_(HookP!vars)
<1>1. WebHook!Init => HookP!Init
  BY DEF WebHook!Init, HookP!Init
<1>2. [WebHook!Next]_(WebHook!vars) => [HookP!Next]_(HookP!vars)
  BY DEF WebHook!Poll, WebHook!InitStepFails, WebHook!GetWorkingPort, WebHook!SetupOAuth,
         WebHook!SetupCSRF, WebHook!HookInitialized, WebHook!Connect, WebHook!RequestFails,
         WebHook!RequestRejected, WebHook!RequestAnswered, WebHook!DeInit,
         WebHook!PublishMetaData, WebHook!PushFailure, WebHook!WithdrawMetaData,
         WebHook!FetchStatusMessages, WebHook!SpotifyStarts, WebHook!SpotifyQuits,
         WebHook!SpotifySickens, WebHook!SpotifyRecovers, WebHook!Refresh,
         WebHook!WorkerStep, WebHook!Spotify, WebHook!Next, WebHook!Go, WebHook!Push,
         WebHook!Outcomes, WebHook!Answers, WebHook!Ports, HookP!Ports, WebHook!InitSteps,
         WebHook!feed,
         WebHook!connection, WebHook!environment, WebHook!queue, WebHook!vars, HookP!Poll,
         HookP!InitStepFails, HookP!GetWorkingPort, HookP!SetupOAuth, HookP!SetupCSRF,
         HookP!HookInitialized, HookP!Connect, HookP!RequestFails, HookP!RequestRejected,
         HookP!RequestAnswered, HookP!DeInit, HookP!PublishMetaData, HookP!PushFailure,
         HookP!WithdrawMetaData, HookP!FetchStatusMessages, HookP!SpotifyStarts,
         HookP!SpotifyQuits, HookP!SpotifySickens, HookP!SpotifyRecovers, HookP!Refresh,
         HookP!WorkerStep, HookP!Spotify, HookP!Next, HookP!Go, HookP!Push, HookP!Outcomes,
         HookP!Answers, HookP!InitSteps, HookP!feed, HookP!connection, HookP!environment,
         HookP!queue, HookP!vars
<1> QED BY <1>1, <1>2

\* Nor does it matter which instance of the cycle one speaks of.
LEMMA SameCycle ==
  /\ Cycle!Init => CycleP!Init
  /\ [Cycle!Next]_(Cycle!vars) => [CycleP!Next]_(CycleP!vars)
<1>1. Cycle!Init => CycleP!Init
  BY DEF Cycle!Init, CycleP!Init, Cycle!Threads, CycleP!Threads
<1>2. [Cycle!Next]_(Cycle!vars) => [CycleP!Next]_(CycleP!vars)
  BY DEF Cycle!TestExit, Cycle!TestFlag, Cycle!Clear, Cycle!Block, Cycle!SpuriousWake,
         Cycle!Check, Cycle!Reset, Cycle!Work, Cycle!Signal, Cycle!Notify, Cycle!NotifyAll,
         Cycle!OnTheWayToSleep, Cycle!Other, Cycle!Go, Cycle!StartNotifier,
         Cycle!RequestExit, Cycle!NotifyExit, Cycle!Join, Cycle!OwnerGoes, Cycle!ThreadStep,
         Cycle!OwnerStep, Cycle!Next, Cycle!Threads, Cycle!history, Cycle!vars,
         CycleP!TestExit, CycleP!TestFlag, CycleP!Clear, CycleP!Block, CycleP!SpuriousWake,
         CycleP!Check, CycleP!Reset, CycleP!Work, CycleP!Signal, CycleP!Notify,
         CycleP!NotifyAll, CycleP!OnTheWayToSleep, CycleP!Other, CycleP!Go,
         CycleP!StartNotifier, CycleP!RequestExit, CycleP!NotifyExit, CycleP!Join,
         CycleP!OwnerGoes, CycleP!ThreadStep, CycleP!OwnerStep, CycleP!Next, CycleP!Threads,
         CycleP!history, CycleP!vars
<1> QED BY <1>1, <1>2

\* Where the worker is, in the whole program.
LEMMA HookControl ==
  ASSUME ConstantsFit
  PROVE  SpotispySpec => [](HookP!ControlInv /\ HookP!FlagInv)
<1>1. HookP!SafetySpec => []HookP!ControlInv
  BY HookP!ControlInvariant DEF ConstantsFit
<1>2. HookP!SafetySpec => []HookP!FlagInv
  BY HookP!FlagInvariant DEF ConstantsFit
<1> QED BY <1>1, <1>2, WebHookTheorem, SameHook, PTL
        DEF WebHookInWhole, WebHook!SafetySpec, HookP!SafetySpec

\* Whose turn it is, and who has been joined, in the whole program.
LEMMA CycleControl ==
  ASSUME ConstantsFit
  PROVE  SpotispySpec => [](CycleP!TokenInv /\ CycleP!JoinInv)
<1>1. CycleP!SafetySpec => []CycleP!TokenInv
  BY CycleP!TokenInvariant DEF ConstantsFit
<1>2. CycleP!SafetySpec => []CycleP!JoinInv
  BY CycleP!JoinInvariant DEF ConstantsFit
<1> QED BY <1>1, <1>2, CycleTheorem, SameCycle, PTL
        DEF CycleInWhole, Cycle!SafetySpec, CycleP!SafetySpec

-----------------------------------------------------------------------------
(* The analyzer, and with it the user's volume. *)

\* Every step of the program is a step of the analyzer's or of what it takes
\* for any MetaDataFeed; for the worker's steps that is the hook's refinement.
THEOREM AnalyzerTheorem ==
  ASSUME ConstantsFit
  PROVE  SpotispySpec => AnalyzerInWhole
<1>1. SpotispyInit => Init
  BY DEF SpotispyInit
<1>2. HookP!ControlInv /\ HookP!FlagInv /\ [SpotispyNext]_spotispy => [Next]_vars
  <2> SUFFICES ASSUME HookP!ControlInv, HookP!FlagInv, [SpotispyNext]_spotispy
               PROVE  [Next]_vars
    OBVIOUS
  <2>1. ASSUME UNCHANGED <<gui, feed>> PROVE UNCHANGED vars
    BY <2>1 DEF gui, vars
  <2>2. CASE Tick
    <3>1. CASE Analyze
      BY <3>1 DEF Next
    <3>2. CASE WebHook!FetchStatusMessages /\ UNCHANGED gui
      BY <2>1, <3>2 DEF WebHook!FetchStatusMessages, WebHook!feed, feed
    <3> QED BY <2>2, <3>1, <3>2 DEF Tick
  <2>3. CASE Handler
    BY <2>3 DEF Handler, Next
  <2>4. CASE Lifetime \/ Circulate \/ UNCHANGED spotispy
    BY <2>1, <2>4 DEF Lifetime, Circulate, spotispy
  <2>5. CASE Refresh
    <3>1. [HookP!Next]_(HookP!vars)
      BY <2>5, SameHook DEF Refresh, WebHook!Next
    <3>2. [HookP!Feed!FeedNext]_(HookP!Feed!feed)
      BY <3>1, HookP!FeedStep DEF ConstantsFit
    <3>3. FeedNext \/ UNCHANGED feed
      BY <3>2 DEF FeedNext, Initialize, Deinitialize, Assess, Publish, Withdraw, Kinds, feed,
                  HookP!Feed!FeedNext, HookP!Feed!Initialize, HookP!Feed!Deinitialize,
                  HookP!Feed!Assess, HookP!Feed!Publish, HookP!Feed!Withdraw, HookP!Feed!Kinds,
                  HookP!Feed!feed
    <3> QED BY <2>1, <2>5, <3>3 DEF Refresh, Next, Hook, gui
  <2>6. CASE Spotify
    BY <2>1, <2>6 DEF Spotify, Next, Outside, WebHook!SpotifySickens, WebHook!SpotifyRecovers,
                      WebHook!feed, feed
  <2> QED BY <2>2, <2>3, <2>4, <2>5, <2>6 DEF SpotispyNext
<1> QED BY <1>1, <1>2, HookControl, PTL DEF SpotispySpec, AnalyzerInWhole, SafetySpec

\* So the real hook, however Spotify treats it and whenever its threads run,
\* never makes the analyzer lose the user's volume beyond the named exceptions.
THEOREM UserVolumeTheorem ==
  ASSUME ConstantsFit
  PROVE  SpotispySpec => [](SongsUntouched /\ ClosingRestores /\ SavedVolumeIsUsers
                              /\ MixerNeverGarbage)
<1>1. Init /\ [][Next]_vars => []MixerNeverGarbage
  <2>1. HandleInv => MixerNeverGarbage
    BY DEF HandleInv, MixerNeverGarbage
  <2> QED BY <2>1, HandleInvariant, PTL DEF SafetySpec
<1>2. Init /\ [][Next]_vars => []SavedVolumeIsUsers
  <2>1. TreatmentInv => SavedVolumeIsUsers
    BY DEF TreatmentInv, SavedVolumeIsUsers
  <2> QED BY <2>1, TreatmentInvariant, PTL DEF SafetySpec
<1>3. Init /\ [][Next]_vars => [](SongsUntouched /\ ClosingRestores)
  BY UserSoundInvariant, PTL DEF SafetySpec
<1> QED BY <1>1, <1>2, <1>3, AnalyzerTheorem, PTL DEF AnalyzerInWhole, SafetySpec

-----------------------------------------------------------------------------
(* The refresh in its loop. *)

\* The worker is within a refresh only while its loop is at that point.
RefreshInLoop == worker # "idle" => loop["worker"] = "work"

\* The worker's steps end where the loop's go on; nobody else moves it out of a
\* refresh.
LEMMA RefreshInLoopStep ==
  ASSUME RefreshInLoop, CycleP!TypeOK, [SpotispyNext]_spotispy
  PROVE  RefreshInLoop'
<1> USE DEF RefreshInLoop
<1>1. ASSUME UNCHANGED <<worker, loop>> PROVE RefreshInLoop'
  BY <1>1
<1>2. CASE Tick \/ Handler \/ Spotify \/ UNCHANGED spotispy
  BY <1>1, <1>2 DEF Tick, Handler, Spotify, spotispy, hook, cycle, WebHook!FetchStatusMessages,
     WebHook!SpotifyStarts, WebHook!SpotifyQuits, WebHook!SpotifySickens, WebHook!SpotifyRecovers
<1>3. CASE Lifetime
  <2>1. worker' = worker
    BY <1>3 DEF Lifetime, hook
  <2>2. loop["worker"] = "work" => loop'["worker"] = "work"
    BY <1>3 DEF Lifetime, Cycle!StartNotifier, Cycle!NotifyExit, Cycle!Join, Cycle!RequestExit,
                Cycle!NotifyAll, CycleP!TypeOK, CycleP!Threads
  <2> QED BY <2>1, <2>2
<1>4. CASE Refresh
  <2>1. CASE worker' # "idle" /\ UNCHANGED cycle
    BY <1>4, <2>1 DEF Refresh, cycle
  <2>2. CASE worker' = "idle"
    BY <2>2
  <2> QED BY <1>4, <2>1, <2>2 DEF Refresh
<1>5. CASE Circulate
  <2>1. worker' = worker
    BY <1>5 DEF Circulate, hook
  <2>2. PICK t \in Cycle!Threads :
          /\ t = "worker" => loop[t] # "work"
          /\ Cycle!ThreadStep(t) \/ Cycle!SpuriousWake(t)
    BY <1>5 DEF Circulate
  <2>3. loop["worker"] = "work" => t = "notifier"
    BY <2>2 DEF Cycle!Threads
  <2>4. loop["worker"] = "work" /\ t = "notifier" => loop'["worker"] = "work"
    BY <2>2 DEF Cycle!ThreadStep, Cycle!SpuriousWake, Cycle!TestExit, Cycle!TestFlag,
       Cycle!Clear, Cycle!Block, Cycle!Check, Cycle!Reset, Cycle!Work, Cycle!Signal,
       Cycle!Notify, Cycle!NotifyAll, Cycle!Go, Cycle!Other, Cycle!Threads, CycleP!TypeOK,
       CycleP!Threads
  <2> QED BY <2>1, <2>3, <2>4
<1> QED BY <1>2, <1>3, <1>4, <1>5 DEF SpotispyNext

\* So it is in every run.
LEMMA RefreshInLoopInvariant ==
  ASSUME ConstantsFit
  PROVE  SpotispySpec => []RefreshInLoop
<1>1. SpotispyInit => RefreshInLoop
  BY DEF SpotispyInit, WebHook!Init, RefreshInLoop
<1>2. CycleP!TokenInv => CycleP!TypeOK
  BY DEF CycleP!TokenInv
<1> QED BY <1>1, <1>2, RefreshInLoopStep, CycleControl, PTL DEF SpotispySpec

\* When the destructor of the hook returns, the worker is not in the midst of a
\* refresh and both threads have ended: neither uses the hook any more.
THEOREM LifetimeTheorem ==
  ASSUME ConstantsFit
  PROVE  SpotispySpec => []NoRefreshOutlivesHook
<1>1. CycleP!JoinInv /\ RefreshInLoop => NoRefreshOutlivesHook
  BY DEF CycleP!JoinInv, RefreshInLoop, NoRefreshOutlivesHook, Cycle!Threads
<1> QED BY <1>1, CycleControl, RefreshInLoopInvariant, PTL

\* What has been asked since the last sleep: nothing, while the worker has one
\* behind it and has not left "idle".
AskedInv ==
  /\ asked \in Nat
  /\ slept /\ worker = "idle" => asked = 0
  /\ start = "clean" => asked <= 1

\* A pass that ends clears slept, and only a sleep that ends sets it again.
LEMMA AskedStep ==
  ASSUME CycleP!TokenInv, RefreshInLoop, AskedInv, [SpotispyNext]_spotispy
  PROVE  AskedInv'
<1> USE DEF AskedInv
<1>0. ASSUME UNCHANGED <<asked, slept, start>>, worker' = "idle" => worker = "idle" PROVE AskedInv'
  BY <1>0
<1>1. CASE Tick \/ Handler \/ Spotify \/ UNCHANGED spotispy
  <2>1. UNCHANGED <<asked, slept, start, worker>>
    BY <1>1 DEF Tick, Handler, Spotify, spotispy, hook, cycle, WebHook!FetchStatusMessages,
       WebHook!SpotifyStarts, WebHook!SpotifyQuits, WebHook!SpotifySickens, WebHook!SpotifyRecovers
  <2> QED BY <1>0, <2>1
<1>2. CASE Lifetime
  <2>1. UNCHANGED <<asked, slept, start, worker>>
    BY <1>2 DEF Lifetime, hook, Cycle!StartNotifier, Cycle!NotifyExit, Cycle!Join,
                Cycle!RequestExit, Cycle!history
  <2> QED BY <1>0, <2>1
<1>3. CASE Refresh
  <2>1. asked' = IF worker = "idle" /\ worker' # "idle" THEN asked + 1 ELSE asked
    BY <1>3 DEF Refresh
  <2>2. start = "clean" => slept
    BY <1>3 DEF Refresh, CycleP!TokenInv
  <2>3. CASE worker' # "idle"
    <3>1. UNCHANGED <<slept, start>>
      BY <1>3, <2>3 DEF Refresh, cycle
    <3> QED BY <2>1, <2>2, <2>3, <3>1
  <2>4. CASE worker' = "idle"
    <3>1. ~slept' /\ start' = start
      BY <1>3, <2>4, Zenon DEF Refresh, Cycle!Work
    <3> QED BY <2>1, <2>4, <3>1
  <2> QED BY <2>3, <2>4
<1>4. CASE Circulate
  <2>1. worker' = worker
    BY <1>4 DEF Circulate, hook
  <2>2. PICK t \in Cycle!Threads :
          /\ t = "worker" => loop[t] # "work"
          /\ Cycle!ThreadStep(t) \/ Cycle!SpuriousWake(t)
    BY <1>4 DEF Circulate
  <2>3. asked' = IF loop["notifier"] = "work" /\ loop'["notifier"] = "signal" THEN 0 ELSE asked
    BY <1>4 DEF Circulate
  <2>4. CASE Cycle!Work(t)
    <3>1. t = "notifier" /\ start' = start
      BY <2>2, <2>4 DEF Cycle!Work, Cycle!Go, Cycle!Threads
    <3>2. loop["notifier"] = "work" /\ loop'["notifier"] = "signal"
      BY <2>4, <3>1 DEF Cycle!Work, Cycle!Go, CycleP!TokenInv, CycleP!TypeOK, CycleP!Threads
    <3> QED BY <2>3, <3>1, <3>2
  <2>5. CASE ~Cycle!Work(t)
    <3>1. UNCHANGED <<slept, start>>
      BY <2>2, <2>5 DEF Cycle!ThreadStep, Cycle!SpuriousWake, Cycle!TestExit, Cycle!TestFlag,
         Cycle!Clear, Cycle!Block, Cycle!Check, Cycle!Reset, Cycle!Signal, Cycle!Notify,
         Cycle!history
    <3> QED BY <2>1, <2>3, <3>1
  <2> QED BY <2>4, <2>5
<1> QED BY <1>1, <1>2, <1>3, <1>4 DEF SpotispyNext

\* From a clean start Spotify is not asked twice without a sleep in between.
THEOREM RequestSpacingTheorem ==
  ASSUME ConstantsFit
  PROVE  SpotispySpec => []RequestsAreSpaced
<1>1. SpotispyInit => AskedInv
  BY DEF SpotispyInit, AskedInv
<1>2. CycleP!TokenInv /\ RefreshInLoop /\ AskedInv /\ [SpotispyNext]_spotispy => AskedInv'
  BY AskedStep
<1>3. AskedInv => RequestsAreSpaced
  BY DEF AskedInv, RequestsAreSpaced
<1> QED BY <1>1, <1>2, <1>3, CycleControl, RefreshInLoopInvariant, PTL DEF SpotispySpec

\* Between two refreshes the hook's answers agree: the worker is back at "idle",
\* where ControlInv and the freshness of the data say so.
THEOREM QuietHookTheorem ==
  ASSUME ConstantsFit
  PROVE  SpotispySpec => []QuietHookIsConsistent
<1>1. HookP!SafetySpec => []HookP!OldDataOnlyInFirstRefresh
  BY HookP!OldDataInvariant DEF ConstantsFit
<1>2. HookP!ControlInv /\ HookP!OldDataOnlyInFirstRefresh /\ RefreshInLoop
        => QuietHookIsConsistent
  BY DEF HookP!ControlInv, HookP!OldDataOnlyInFirstRefresh, RefreshInLoop,
         QuietHookIsConsistent, HookP!Failing, HookP!RefreshSteps
<1> QED BY <1>1, <1>2, HookControl, RefreshInLoopInvariant, WebHookTheorem, SameHook, PTL
        DEF WebHookInWhole, WebHook!SafetySpec, HookP!SafetySpec

\* No request is sent with tokens that Spotify has rejected, in the whole too.
THEOREM WholeRejectionTheorem ==
  ASSUME ConstantsFit
  PROVE  SpotispySpec => [](WebHook!RejectedTokensNotResent)
<1>1. HookP!SafetySpec => []HookP!TokenInv
  BY HookP!TokenInvariant DEF ConstantsFit
<1>2. HookP!TokenInv => WebHook!RejectedTokensNotResent
  BY DEF HookP!TokenInv, HookP!ControlInv, WebHook!RejectedTokensNotResent, HookP!Failing,
         HookP!RefreshSteps
<1> QED BY <1>1, <1>2, WebHookTheorem, SameHook, PTL
        DEF WebHookInWhole, WebHook!SafetySpec, HookP!SafetySpec
=============================================================================
