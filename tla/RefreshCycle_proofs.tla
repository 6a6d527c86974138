------------------------ MODULE RefreshCycle_proofs ------------------------
(***************************************************************************)
(* What holds of the refresh cycle in every behaviour, whatever values the *)
(* uninitialised notification flag may start with.                         *)
(***************************************************************************)
EXTENDS RefreshCycle, TLAPS

\* Every variable starts in its range.
LEMMA InitType == Init => TypeOK
<1> SUFFICES ASSUME Init PROVE TypeOK
  OBVIOUS
<1>1. late \in Nat
  BY DEF Init
<1>2. /\ pc \in [Threads -> Locations]
      /\ pc["worker"] \notin {"unborn", "reset"}
      /\ owner \in OwnerLocations
      /\ missed \subseteq Threads
  BY DEF Init, Threads, Locations, OwnerLocations
<1>3. flag \in [Threads -> BOOLEAN] /\ exitRequested \in BOOLEAN /\ start \in {"clean", "set"}
  BY StartValuesAssumption, Zenon DEF Init
<1>4. slept \in BOOLEAN
  BY Zenon DEF Init
<1> QED BY <1>1, <1>2, <1>3, <1>4 DEF TypeOK

\* Every step keeps every variable in its range.
LEMMA TypeInvariant == SafetySpec => []TypeOK
<1>1. Init => TypeOK
  BY InitType
<1>2. TypeOK /\ [Next]_vars => TypeOK'
  <2> SUFFICES ASSUME TypeOK, [Next]_vars PROVE TypeOK'
    OBVIOUS
  <2> USE DEF TypeOK, Threads, Locations, OwnerLocations
  <2>1. ASSUME NEW t \in Threads, ThreadStep(t) \/ SpuriousWake(t) PROVE TypeOK'
    <3>1. CASE TestExit(t) \/ TestFlag(t) \/ Block(t) \/ SpuriousWake(t)
      <4>1. UNCHANGED <<owner, flag, exitRequested, history>>
        BY <3>1 DEF TestExit, TestFlag, Block, SpuriousWake
      <4>2. pc' \in [Threads -> Locations] /\ pc'["worker"] \notin {"unborn", "reset"}
        BY <3>1 DEF TestExit, TestFlag, Block, SpuriousWake, Go
      <4> QED BY <4>1, <4>2 DEF history
    <3>2. CASE Clear(t)
      BY <3>2 DEF Clear, Go, history
    <3>3. CASE Check(t)
      BY <3>3 DEF Check, Go, history
    <3>4. CASE t = "notifier" /\ Reset
      BY <3>4 DEF Reset, Go, history
    <3>5. CASE Work(t)
      <4>1. slept' \in BOOLEAN
        BY <3>5, Zenon DEF Work
      <4>2. UNCHANGED <<owner, flag, exitRequested, start, missed>> /\ late' \in Nat
        BY <3>5 DEF Work
      <4>3. pc' \in [Threads -> Locations] /\ pc'["worker"] \notin {"unborn", "reset"}
        BY <3>5 DEF Work, Go
      <4> QED BY <4>1, <4>2, <4>3
    <3>6. CASE Signal(t)
      BY <3>6 DEF Signal, Go, Other, history
    <3>7. CASE Notify(t)
      BY <3>7 DEF Notify, NotifyAll, Other
    <3> QED BY <2>1, <3>1, <3>2, <3>3, <3>4, <3>5, <3>6, <3>7 DEF ThreadStep
  <2>2. CASE OwnerStep \/ RequestExit
    <3>1. CASE StartNotifier \/ RequestExit \/ Join
      BY <3>1 DEF StartNotifier, RequestExit, Join, OwnerGoes, history
    <3>2. CASE NotifyExit
      <4>1. PICK t \in Threads : NotifyAll(t, pc)
        BY <3>2 DEF NotifyExit
      <4> QED BY <3>2, <4>1 DEF NotifyExit, NotifyAll, OwnerGoes
    <3> QED BY <2>2, <3>1, <3>2 DEF OwnerStep
  <2>3. CASE UNCHANGED vars
    BY <2>3 DEF vars, history
  <2> QED BY <2>1, <2>2, <2>3 DEF Next
<1> QED BY <1>1, <1>2, PTL DEF SafetySpec

\* The cycle never leaves its locations, whoever wakes up when.
THEOREM TypeCorrect == Spec => []TypeOK
  BY TypeInvariant, PTL DEF Spec

-----------------------------------------------------------------------------
(* Stalls.  The destructor has yet to notify t while owner is in           *)
(* BeforeNotifying(t).                                                     *)

BeforeNotifying(t) ==
  IF t = "worker" THEN {"notifyWorker"} ELSE {"notifyWorker", "notifyNotifier"}

\* StallsOnlyIfMissed, extended to threads that are only on their way to sleep.
StallInv ==
  /\ TypeOK
  /\ exitRequested <=> owner \notin {"construct", "alive"}
  /\ owner = "construct" => pc["notifier"] = "unborn"
  /\ \A t \in Threads \ missed : pc[t] \in {"block", "waiting"} =>
       /\ flag[t] => pc[Other(t)] = "notify"
       /\ exitRequested => owner \in BeforeNotifying(t)
  /\ \A t \in Threads \ missed :
       pc[t] = "testFlag" /\ exitRequested /\ owner \notin BeforeNotifying(t) => flag[t]

\* A thread's own step keeps StallInv.
LEMMA ThreadKeepsStallInv ==
  ASSUME StallInv, TypeOK', NEW t \in Threads, ThreadStep(t) \/ SpuriousWake(t)
  PROVE  StallInv'
<1> USE DEF StallInv, TypeOK, Threads, Other, BeforeNotifying
<1>1. CASE TestExit(t) \/ TestFlag(t) \/ Block(t) \/ SpuriousWake(t)
  BY <1>1 DEF TestExit, TestFlag, Block, SpuriousWake, Go, history
<1>2. CASE Clear(t) \/ Check(t) \/ (t = "notifier" /\ Reset)
  BY <1>2 DEF Clear, Check, Reset, Go, history
<1>3. CASE Work(t) \/ Signal(t)
  BY <1>3 DEF Work, Signal, Go, history
<1>4. CASE Notify(t)
  BY <1>4 DEF Notify, NotifyAll, OnTheWayToSleep
<1> QED BY <1>1, <1>2, <1>3, <1>4 DEF ThreadStep

\* So does every other step.
LEMMA StallInvariant == SafetySpec => []StallInv
<1>1. Init => StallInv
  BY InitType DEF Init, StallInv, Threads, Other, BeforeNotifying
<1>2. StallInv /\ TypeOK' /\ [Next]_vars => StallInv'
  <2> SUFFICES ASSUME StallInv, TypeOK', [Next]_vars PROVE StallInv'
    OBVIOUS
  <2> USE DEF StallInv, TypeOK, Threads, Other, BeforeNotifying
  <2>1. CASE \E t \in Threads : ThreadStep(t) \/ SpuriousWake(t)
    BY <2>1, ThreadKeepsStallInv
  <2>2. CASE StartNotifier \/ RequestExit
    BY <2>2 DEF StartNotifier, RequestExit, OwnerGoes, history
  <2>3. CASE NotifyExit
    BY <2>3 DEF NotifyExit, NotifyAll, OnTheWayToSleep, OwnerGoes
  <2>4. CASE Join
    BY <2>4 DEF Join, OwnerGoes, history
  <2>5. CASE UNCHANGED vars
    BY <2>5 DEF vars, history
  <2> QED BY <2>1, <2>2, <2>3, <2>4, <2>5 DEF Next, OwnerStep
<1> QED BY <1>1, <1>2, TypeInvariant, PTL DEF SafetySpec

\* A thread asleep on a request that is already there is about to be notified,
\* or its notification fell between its test and its sleep.
THEOREM StallTheorem == Spec => []StallsOnlyIfMissed
<1>1. StallInv => StallsOnlyIfMissed
  BY DEF StallInv, StallsOnlyIfMissed, BeforeNotifying
<1> QED BY <1>1, StallInvariant, PTL DEF Spec

-----------------------------------------------------------------------------
(* No deadlock.  A request that is never lost keeps somebody busy, or has    *)
(* its owner on the way to being woken (StallInv).                         *)

BirthAndDeath ==
  /\ pc["notifier"] = "unborn" <=> owner = "construct"
  /\ \A t \in Threads : pc[t] = "done" => exitRequested

RequestInv == RequestNeverLost /\ BirthAndDeath

\* A flag is cleared only by the thread that is then busy with the request.
LEMMA RequestInvariant == SafetySpec => []RequestInv
<1>1. Init => RequestInv
  BY StartValuesAssumption DEF Init, RequestInv, RequestNeverLost, BirthAndDeath, Threads
<1>2. TypeOK /\ RequestInv /\ [Next]_vars => RequestInv'
  <2> SUFFICES ASSUME TypeOK, RequestInv, [Next]_vars PROVE RequestInv'
    OBVIOUS
  <2> USE DEF TypeOK, RequestInv, RequestNeverLost, BirthAndDeath, Busy, Threads
  <2>1. ASSUME NEW t \in Threads, ThreadStep(t) \/ SpuriousWake(t) PROVE RequestInv'
    <3>1. CASE TestExit(t) \/ TestFlag(t) \/ Block(t) \/ SpuriousWake(t)
      BY <3>1 DEF TestExit, TestFlag, Block, SpuriousWake, Go, history
    <3>2. CASE Clear(t) \/ Check(t) \/ (t = "notifier" /\ Reset)
      BY <3>2 DEF Clear, Check, Reset, Go, history
    <3>3. CASE Work(t) \/ Signal(t)
      BY <3>3 DEF Work, Signal, Go, Other, history
    <3>4. CASE Notify(t)
      BY <3>4 DEF Notify, NotifyAll, Other
    <3> QED BY <2>1, <3>1, <3>2, <3>3, <3>4 DEF ThreadStep
  <2>2. CASE OwnerStep \/ RequestExit
    <3>1. CASE StartNotifier \/ RequestExit \/ Join
      BY <3>1 DEF StartNotifier, RequestExit, Join, OwnerGoes, history
    <3>2. CASE NotifyExit
      <4>1. UNCHANGED <<flag, exitRequested>> /\ (owner' = "construct" <=> owner = "construct")
        BY <3>2 DEF NotifyExit, OwnerGoes
      <4>2. \A t \in Threads : pc'[t] # pc[t] => pc[t] = "waiting" /\ pc'[t] = "testExit"
        BY <3>2 DEF NotifyExit, NotifyAll
      <4> QED BY <4>1, <4>2
    <3> QED BY <2>2, <3>1, <3>2 DEF OwnerStep
  <2>3. CASE UNCHANGED vars
    BY <2>3 DEF vars, history
  <2> QED BY <2>1, <2>2, <2>3 DEF Next
<1> QED BY <1>1, <1>2, TypeInvariant, PTL DEF SafetySpec

\* Until exit is requested there is always a request, whatever the flag held.
THEOREM RequestTheorem == Spec => []RequestNeverLost
<1>1. RequestInv => RequestNeverLost
  BY DEF RequestInv
<1> QED BY <1>1, RequestInvariant, PTL DEF Spec

\* The three threads are never all stopped before the destructor has returned,
\* unless a notification was missed.
THEOREM DeadlockTheorem == Spec => []DeadlockOnlyIfMissed
<1>1. StallInv /\ RequestInv => DeadlockOnlyIfMissed
  <2> SUFFICES ASSUME StallInv, RequestInv, missed = {}, owner # "done", ~OwnerCanGo
               PROVE  \E t \in Threads : CanGo(t)
    BY DEF DeadlockOnlyIfMissed
  <2> USE DEF StallInv, RequestInv, TypeOK, BirthAndDeath, Threads, CanGo
  <2>1. CASE owner = "alive"
    <3>1. PICK t \in Threads : flag[t] \/ Busy(t)
      BY <2>1 DEF RequestNeverLost
    <3>2. pc[t] \notin {"unborn", "done"}
      BY <2>1
    <3>3. CASE pc[t] = "waiting"
      BY <3>1, <3>3 DEF Busy, Other
    <3> QED BY <3>2, <3>3
  <2>2. CASE owner \in {"joinWorker", "joinNotifier"}
    <3>1. PICK t \in Threads : t = (IF owner = "joinWorker" THEN "worker" ELSE "notifier")
      OBVIOUS
    <3>2. pc[t] \notin {"unborn", "done"}
      BY <2>2, <3>1 DEF OwnerCanGo
    <3>3. pc[t] # "waiting"
      BY <2>2 DEF BeforeNotifying
    <3> QED BY <3>2, <3>3
  <2> QED BY <2>1, <2>2 DEF OwnerCanGo, OwnerLocations
<1> QED BY <1>1, StallInvariant, RequestInvariant, PTL DEF Spec

-----------------------------------------------------------------------------
(* The joins. *)

JoinInv ==
  /\ owner \in {"joinNotifier", "done"} => pc["worker"] = "done"
  /\ owner = "done" => pc["notifier"] = "done"

\* A thread that is done stays so, and the destructor waits for both.
LEMMA JoinInvariant == SafetySpec => []JoinInv
<1>1. Init => JoinInv
  BY DEF Init, JoinInv
<1>2. TypeOK /\ JoinInv /\ [Next]_vars => JoinInv'
  <2> SUFFICES ASSUME TypeOK, JoinInv, [Next]_vars PROVE JoinInv'
    OBVIOUS
  <2> USE DEF TypeOK, JoinInv, Threads
  <2>1. ASSUME NEW t \in Threads, ThreadStep(t) \/ SpuriousWake(t) PROVE JoinInv'
    BY <2>1 DEF ThreadStep, SpuriousWake, TestExit, TestFlag, Clear, Block, Check, Reset,
                Work, Signal, Notify, NotifyAll, Go, Other, history
  <2>2. CASE OwnerStep \/ RequestExit
    BY <2>2 DEF OwnerStep, RequestExit, StartNotifier, NotifyExit, Join, OwnerGoes, NotifyAll
  <2>3. CASE UNCHANGED vars
    BY <2>3 DEF vars
  <2> QED BY <2>1, <2>2, <2>3 DEF Next
<1> QED BY <1>1, <1>2, TypeInvariant, PTL DEF SafetySpec

-----------------------------------------------------------------------------
(* The request, from a clean start.  A thread about to clear its flag      *)
(* still has it set; slept is TRUE exactly while the request is between    *)
(* the end of a sleep and the end of a refresh.                            *)

TokenInv ==
  /\ TypeOK
  /\ start = "clean" =>
       /\ OneRequest
       /\ \A t \in Threads : pc[t] = "clear" => flag[t]
       /\ flag["worker"] \/ pc["worker"] = "work" \/ (pc["worker"] = "check" /\ ~exitRequested)
            => slept
       /\ pc["notifier"] = "signal" => slept

\* Where the one request is, and what has happened to it, at every point of
\* both loops.
LEMMA TokenInvariant == SafetySpec => []TokenInv
<1>1. Init => TokenInv
  BY InitType DEF Init, TokenInv, OneRequest, Busy, Threads
<1>2. TokenInv /\ TypeOK' /\ [Next]_vars => TokenInv'
  <2> SUFFICES ASSUME TokenInv, TypeOK', [Next]_vars, start' = "clean" PROVE TokenInv'
    BY DEF TokenInv
  <2> USE DEF TokenInv, OneRequest, Busy, TypeOK, Threads
  <2>1. ASSUME NEW t \in Threads, ThreadStep(t) \/ SpuriousWake(t) PROVE TokenInv'
    <3>1. CASE TestExit(t) \/ TestFlag(t) \/ Block(t) \/ SpuriousWake(t)
      BY <3>1 DEF TestExit, TestFlag, Block, SpuriousWake, Go, history
    <3>2. CASE Clear(t) \/ Check(t) \/ (t = "notifier" /\ Reset)
      BY <3>2 DEF Clear, Check, Reset, Go, history
    <3>3. CASE Work(t) \/ Signal(t)
      BY <3>3 DEF Work, Signal, Go, Other, history
    <3>4. CASE Notify(t)
      BY <3>4 DEF Notify, NotifyAll, Other
    <3> QED BY <2>1, <3>1, <3>2, <3>3, <3>4 DEF ThreadStep
  <2>2. CASE OwnerStep \/ RequestExit
    BY <2>2 DEF OwnerStep, RequestExit, StartNotifier, NotifyExit, Join, OwnerGoes,
                NotifyAll, history
  <2>3. CASE UNCHANGED vars
    BY <2>3 DEF vars, history
  <2> QED BY <2>1, <2>2, <2>3 DEF Next
<1> QED BY <1>1, <1>2, TypeInvariant, PTL DEF SafetySpec

\* Refresh and sleep never overlap and no request is ever duplicated.
THEOREM TokenTheorem == Spec => []SingleToken
<1>1. TokenInv => SingleToken
  BY DEF TokenInv, SingleToken
<1> QED BY <1>1, TokenInvariant, PTL DEF Spec

\* Every refresh but the first follows a sleep.
THEOREM SpacingTheorem == Spec => []RefreshesAreSpaced
<1>1. TokenInv => RefreshesAreSpaced
  BY DEF TokenInv, RefreshesAreSpaced
<1> QED BY <1>1, TokenInvariant, PTL DEF Spec

-----------------------------------------------------------------------------
(* The destructor's wait.  What it waits for is what was past the second   *)
(* test of m_exitRequested when exit was requested: nothing gets there     *)
(* later, and from a clean start TokenInv lets one thread be there.        *)

InFlight(t) == IF pc[t] \in {"reset", "work"} THEN 1 ELSE 0

LateInv ==
  /\ ~exitRequested => late = 0
  /\ exitRequested =>
       late + InFlight("worker") + InFlight("notifier") <= IF start = "clean" THEN 1 ELSE 2

\* Work that ends late was in flight, and nothing is put in flight once exit is
\* requested.
LEMMA LateStep ==
  ASSUME TokenInv, TypeOK', LateInv, [Next]_vars
  PROVE  LateInv'
<1> USE DEF TypeOK, LateInv, InFlight, Threads
<1>1. ASSUME NEW t \in Threads, ThreadStep(t) \/ SpuriousWake(t) PROVE LateInv'
  <2>0. TypeOK
    BY DEF TokenInv
  <2>1. CASE TestExit(t) \/ TestFlag(t) \/ Block(t) \/ SpuriousWake(t)
    BY <2>0, <2>1 DEF TestExit, TestFlag, Block, SpuriousWake, Go, history
  <2>2. CASE Clear(t) \/ Signal(t)
    BY <2>0, <2>2 DEF Clear, Signal, Go, history
  <2>3. CASE Check(t)
    BY <2>0, <2>3 DEF Check, Go, history
  <2>4. CASE t = "notifier" /\ Reset
    BY <2>0, <2>4 DEF Reset, Go, history
  <2>5. CASE Work(t)
    <3>1. pc[t] = "work" /\ pc' = [pc EXCEPT ![t] = "signal"]
      BY <2>5 DEF Work, Go
    <3>2. late' = (late + IF exitRequested THEN 1 ELSE 0) /\ UNCHANGED <<exitRequested, start>>
      BY <2>5 DEF Work
    <3> QED BY <2>0, <3>1, <3>2
  <2>6. CASE Notify(t)
    BY <2>0, <2>6 DEF Notify, NotifyAll, Other
  <2> QED BY <1>1, <2>1, <2>2, <2>3, <2>4, <2>5, <2>6 DEF ThreadStep
<1>2. CASE StartNotifier \/ NotifyExit \/ Join
  <2>1. UNCHANGED <<exitRequested, start, late>>
    BY <1>2 DEF StartNotifier, NotifyExit, Join, history
  <2>2. \A t \in Threads : pc'[t] = pc[t] \/ pc'[t] = "testExit"
    BY <1>2 DEF TokenInv, StartNotifier, NotifyExit, Join, NotifyAll
  <2>3. late \in Nat
    BY DEF TokenInv
  <2> QED BY <2>1, <2>2, <2>3
<1>3. CASE RequestExit
  <2>1. exitRequested' /\ UNCHANGED <<pc, start, late>>
    BY <1>3 DEF RequestExit, history
  <2>2. CASE exitRequested
    BY <2>1, <2>2
  <2>3. CASE ~exitRequested
    <3>1. start = "clean" => ~(Busy("worker") /\ Busy("notifier"))
      BY DEF TokenInv, OneRequest
    <3>2. pc["worker"] # "reset"
      BY DEF TokenInv
    <3> QED BY <2>1, <2>3, <3>1, <3>2 DEF Busy
  <2> QED BY <2>2, <2>3
<1>4. CASE UNCHANGED vars
  BY <1>4 DEF vars, history
<1> QED BY <1>1, <1>2, <1>3, <1>4 DEF Next, OwnerStep

\* Closing waits for one refresh or one sleep if the flag starts clean, and never
\* for more than one of each.
THEOREM LateTheorem == Spec => []LateWorkIsBounded
<1>1. Init => LateInv
  BY DEF Init, LateInv
<1>2. TokenInv /\ TypeOK' /\ LateInv /\ [Next]_vars => LateInv'
  BY LateStep
<1>3. TypeOK /\ LateInv => LateWorkIsBounded
  BY DEF TypeOK, LateInv, InFlight, LateWorkIsBounded
<1> QED BY <1>1, <1>2, <1>3, TokenInvariant, TypeInvariant, PTL DEF Spec, SafetySpec

-----------------------------------------------------------------------------
(* Refinement, from a clean start.  TokenInv says when there was a sleep;   *)
(* for turns it must also say when there was none: while the notifier has   *)
(* the request and has not slept, and before the worker passes it on.       *)

\* The notifier has a request that it has not slept on yet.
ToRest ==
  flag["notifier"] \/ pc["notifier"] \in {"reset", "work"}
    \/ (pc["notifier"] = "check" /\ ~exitRequested)

\* Each thread, when it passes the turn on, has done its work in it.
TurnInv ==
  start = "clean" => (ToRest => ~slept) /\ (pc["worker"] = "signal" => ~slept)

\* Every step of the threads and their owner keeps TurnInv.
LEMMA TurnStep ==
  ASSUME TokenInv, TokenInv', TurnInv, [Next]_vars
  PROVE  TurnInv'
<1> SUFFICES ASSUME start' = "clean" PROVE TurnInv'
  BY DEF TurnInv
<1> USE DEF TokenInv, TurnInv, ToRest, OneRequest, Busy, TypeOK, Threads
<1>1. ASSUME NEW t \in Threads, ThreadStep(t) \/ SpuriousWake(t) PROVE TurnInv'
  <2>1. CASE TestExit(t) \/ TestFlag(t) \/ Block(t) \/ SpuriousWake(t)
    BY <2>1 DEF TestExit, TestFlag, Block, SpuriousWake, Go, history
  <2>2. CASE Clear(t) \/ Check(t) \/ (t = "notifier" /\ Reset)
    BY <2>2 DEF Clear, Check, Reset, Go, history
  <2>3. CASE Work(t)
    <3>1. pc[t] = "work" /\ pc' = [pc EXCEPT ![t] = "signal"] /\ flag' = flag /\ start' = start
      BY <2>3 DEF Work, Go
    <3>2. slept' <=> t = "notifier"
      BY <2>3 DEF Work
    <3>3. CASE t = "worker"
      BY <3>1, <3>2, <3>3
    <3>4. CASE t = "notifier"
      BY <3>1, <3>2, <3>4
    <3> QED BY <3>3, <3>4
  <2>4. CASE Signal(t)
    BY <2>4 DEF Signal, Go, Other, history
  <2>5. CASE Notify(t)
    BY <2>5 DEF Notify, NotifyAll, Other
  <2> QED BY <1>1, <2>1, <2>2, <2>3, <2>4, <2>5 DEF ThreadStep
<1>2. CASE OwnerStep \/ RequestExit
  BY <1>2 DEF OwnerStep, RequestExit, StartNotifier, NotifyExit, Join, OwnerGoes,
              NotifyAll, history
<1>3. CASE UNCHANGED vars
  BY <1>3 DEF vars, history
<1> QED BY <1>1, <1>2, <1>3 DEF Next

\* Each step of the threads is a refresh, a rest, the end of a turn, the end of
\* all turns, or changes nothing that can be seen of them.
LEMMA TurnsStep ==
  ASSUME TokenInv, TokenInv', TurnInv, [Next]_vars, start = "clean"
  PROVE  [Turns!AlternationNext]_<<Turn, slept>>
<1> USE DEF TokenInv, TurnInv, ToRest, OneRequest, Busy, TypeOK, Threads, Turn
<1> DEFINE Goal == [Turns!AlternationNext]_<<Turn, slept>>
<1>0. ASSUME UNCHANGED <<Turn, slept>> PROVE Goal
  BY <1>0
<1>1. ASSUME UNCHANGED slept, Turn' = "nobody" PROVE Goal
  BY <1>1 DEF Turns!AlternationNext, Turns!Stop
<1> HIDE DEF Goal
<1>2. ASSUME NEW t \in Threads, ThreadStep(t) \/ SpuriousWake(t) PROVE Goal
  <2>1. CASE TestExit(t) \/ TestFlag(t) \/ Block(t) \/ SpuriousWake(t)
    <3>1. UNCHANGED <<Turn, slept>>
      BY <2>1 DEF TestExit, TestFlag, Block, SpuriousWake, Go, history
    <3> QED BY <1>0, <3>1
  <2>2. CASE Clear(t) \/ Check(t) \/ (t = "notifier" /\ Reset)
    <3>1. UNCHANGED slept /\ (Turn' = Turn \/ Turn' = "nobody")
      BY <2>2 DEF Clear, Check, Reset, Go, history
    <3> QED BY <1>0, <1>1, <3>1
  <2>3. CASE Work(t)
    <3>1. pc[t] = "work" /\ pc' = [pc EXCEPT ![t] = "signal"] /\ flag' = flag
      BY <2>3 DEF Work, Go
    <3>2. slept' <=> t = "notifier"
      BY <2>3 DEF Work
    <3>3. slept \in BOOLEAN /\ slept' \in BOOLEAN
      OBVIOUS
    <3>4. CASE t = "worker"
      <4>1. Turn = "worker" /\ Turn' = "worker" /\ slept
        BY <3>1, <3>4
      <4>2. Turns!Refresh
        BY <3>2, <3>3, <3>4, <4>1 DEF Turns!Refresh
      <4> QED BY <4>2 DEF Goal, Turns!AlternationNext
    <3>5. CASE t = "notifier"
      <4>1. ~flag["worker"] /\ ~Busy("worker") /\ Busy("notifier") /\ ~slept
        BY <3>1, <3>5
      <4>2. ~flag'["worker"] /\ ~Busy("worker")' /\ Busy("notifier")'
        BY <2>3, <3>1, <3>5, <4>1 DEF Work
      <4>3. Turn = "notifier" /\ Turn' = "notifier"
        BY <4>1, <4>2
      <4>4. Turns!Rest
        BY <3>2, <3>3, <3>5, <4>1, <4>3 DEF Turns!Rest
      <4> QED BY <4>4 DEF Goal, Turns!AlternationNext
    <3> QED BY <3>4, <3>5
  <2>4. CASE Signal(t)
    <3>1. Turn = t /\ Turn' = Other(t)
      BY <2>4 DEF Signal, Go, Other
    <3>2. slept <=> t = "notifier"
      BY <2>4 DEF Signal, Go
    <3>3. UNCHANGED slept
      BY <2>4 DEF Signal, history
    <3>4. Turns!Pass
      BY <3>1, <3>2, <3>3 DEF Other, Turns!Pass
    <3> QED BY <3>4 DEF Goal, Turns!AlternationNext
  <2>5. CASE Notify(t)
    <3>1. UNCHANGED <<Turn, slept>>
      BY <2>5 DEF Notify, NotifyAll, Other
    <3> QED BY <1>0, <3>1
  <2> QED BY <1>2, <2>1, <2>2, <2>3, <2>4, <2>5 DEF ThreadStep
<1>3. ASSUME OwnerStep PROVE Goal
  <2>1. UNCHANGED slept
    BY <1>3 DEF OwnerStep, StartNotifier, NotifyExit, Join, history
  <2>2. CASE StartNotifier
    <3>1. Turn' = Turn \/ Turn' = "nobody"
      BY <2>2 DEF StartNotifier
    <3> QED BY <1>0, <1>1, <2>1, <3>1, Zenon
  <2>3. CASE NotifyExit \/ Join
    <3>1. UNCHANGED <<flag, exitRequested>>
      BY <2>3 DEF NotifyExit, Join
    <3>2. \A t \in Threads : Busy(t)' <=> Busy(t)
      BY <2>3, <3>1 DEF NotifyExit, Join, NotifyAll
    <3>3. Turn' = Turn
      BY <3>1, <3>2, Zenon
    <3> QED BY <1>0, <2>1, <3>3, Zenon
  <2> QED BY <1>3, <2>2, <2>3 DEF OwnerStep
<1>4. ASSUME RequestExit PROVE Goal
  <2>1. UNCHANGED slept
    BY <1>4 DEF RequestExit, history
  <2>2. Turn' = Turn \/ Turn' = "nobody"
    BY <1>4 DEF RequestExit
  <2> QED BY <1>0, <1>1, <2>1, <2>2, Zenon
<1>5. ASSUME UNCHANGED vars PROVE Goal
  <2>1. UNCHANGED <<Turn, slept>>
    BY <1>5 DEF vars, history
  <2> QED BY <1>0, <2>1
<1> QED BY <1>2, <1>3, <1>4, <1>5 DEF Next, Goal

\* The cycle implements Alternation: worker and notifier take turns.
THEOREM TurnsTheorem == Spec => TakesTurns
<1>1. Init => (start = "clean" => Turns!AlternationInit)
  <2> SUFFICES ASSUME Init PROVE Turns!AlternationInit
    OBVIOUS
  <2>1. flag["worker"]
    BY DEF Init, Threads
  <2>2. slept = TRUE
    BY Zenon DEF Init
  <2> QED BY <2>1, <2>2 DEF Turns!AlternationInit, Turn
<1>2. Init => TurnInv
  BY DEF Init, TurnInv, ToRest, Threads
<1>3. TokenInv /\ TokenInv' /\ TurnInv /\ [Next]_vars
        => /\ TurnInv'
           /\ [start = "clean" => Turns!AlternationNext]_<<Turn, slept>>
  BY TurnStep, TurnsStep
<1> QED BY <1>1, <1>2, <1>3, TokenInvariant, PTL DEF Spec, SafetySpec, TakesTurns
=============================================================================
