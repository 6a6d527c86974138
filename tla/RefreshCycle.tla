---------------------------- MODULE RefreshCycle ----------------------------
(***************************************************************************)
(* The two threads a SpotifyWebHook owns, and the thread that constructs   *)
(* and destroys it (SpotifyWebHook.cpp, constructor and destructor).       *)
(*                                                                         *)
(* The worker refreshes, then asks the notifier to wake it up again; the   *)
(* notifier sleeps refreshRate and asks the worker to refresh.  Both loops *)
(* have the same shape: wait on a condition variable until "exit or my     *)
(* flag", clear the flag, re-test exit, do the work, set the other one's   *)
(* flag, notify the other one.  So there is one set of actions, over the   *)
(* thread t, and flag[t] is m_refreshRequest for the worker and            *)
(* m_notifierThreadNotification for the notifier.                          *)
(*                                                                         *)
(* The mutex each wait() locks is local to its thread, so nobody else ever *)
(* takes it: a flag can be set, and the notification sent, after the       *)
(* waiter has found its predicate false and before it is asleep.  The      *)
(* model therefore separates testing the predicate from falling asleep.    *)
(***************************************************************************)
EXTENDS Naturals

CONSTANT StartValues  \* what m_notifierThreadNotification, which has no initialiser, may hold

ASSUME StartValuesAssumption == StartValues # {} /\ StartValues \subseteq BOOLEAN

Threads == {"worker", "notifier"}
Other(t) == IF t = "worker" THEN "notifier" ELSE "worker"

VARIABLES
  pc,             \* where each thread is in its loop
  owner,          \* where the constructing and destroying thread is
  flag,           \* the atomic request flag each thread waits for
  exitRequested,  \* m_exitRequested
  start,          \* history: how m_notifierThreadNotification started, "clean" or "set"
  slept,          \* history: the notifier has slept since the last refresh
  missed,         \* history: threads whose notification came too late to wake them
  late            \* history: refreshes and sleeps that ended after exit was requested

history == <<start, slept, missed, late>>
vars == <<pc, owner, flag, exitRequested, history>>

Locations == {"unborn", "testExit", "testFlag", "clear", "block", "waiting",
              "check", "reset", "work", "signal", "notify", "done"}
OwnerLocations == {"construct", "alive", "notifyWorker", "notifyNotifier",
                   "joinWorker", "joinNotifier", "done"}

Init ==
  /\ pc = [t \in Threads |-> IF t = "worker" THEN "testExit" ELSE "unborn"]
  /\ owner = "construct"
  /\ \E v \in StartValues : flag = [t \in Threads |-> IF t = "worker" THEN TRUE ELSE v]
  /\ start = IF flag["notifier"] THEN "set" ELSE "clean"
  /\ exitRequested = FALSE
  /\ slept = TRUE
  /\ missed = {}
  /\ late = 0

-----------------------------------------------------------------------------
(* condition_variable::wait(lock, predicate): while (!predicate()) block.  *)

Go(t, from, to) == pc[t] = from /\ pc' = [pc EXCEPT ![t] = to]

TestExit(t) ==
  /\ Go(t, "testExit", IF exitRequested THEN "check" ELSE "testFlag")
  /\ UNCHANGED <<owner, flag, exitRequested, history>>

TestFlag(t) ==
  /\ Go(t, "testFlag", IF flag[t] THEN "clear" ELSE "block")
  /\ UNCHANGED <<owner, flag, exitRequested, history>>

Clear(t) ==
  /\ Go(t, "clear", "check")
  /\ flag' = [flag EXCEPT ![t] = FALSE]
  /\ UNCHANGED <<owner, exitRequested, history>>

Block(t) ==
  /\ Go(t, "block", "waiting")
  /\ UNCHANGED <<owner, flag, exitRequested, history>>

\* The standard lets a wait return on its own; nothing makes it happen.
SpuriousWake(t) ==
  /\ Go(t, "waiting", "testExit")
  /\ UNCHANGED <<owner, flag, exitRequested, history>>

-----------------------------------------------------------------------------
(* notify_all wakes t only if t is asleep.  One that t's predicate would   *)
(* have answered, sent while t is on its way to sleep, is missed.          *)

OnTheWayToSleep(t) == pc[t] = "block" \/ (pc[t] = "testFlag" /\ ~flag[t])

NotifyAll(t, locations) ==
  /\ pc' = [locations EXCEPT ![t] = IF @ = "waiting" THEN "testExit" ELSE @]
  /\ missed' = IF OnTheWayToSleep(t) /\ (flag[t] \/ exitRequested) THEN missed \cup {t} ELSE missed

-----------------------------------------------------------------------------
(* The loop bodies. *)

\* Mutant of Check: the second test of m_exitRequested is gone.
CheckWithoutExit(t) ==
  /\ Go(t, "check", IF t = "notifier" THEN "reset" ELSE "work")
  /\ UNCHANGED <<owner, flag, exitRequested, history>>

\* Mutant of Check: the worker clears its flag a second time as well.
CheckThenReset(t) ==
  /\ Go(t, "check", IF exitRequested THEN "done" ELSE "reset")
  /\ UNCHANGED <<owner, flag, exitRequested, history>>

Check(t) ==
  /\ Go(t, "check", IF exitRequested THEN "done" ELSE IF t = "notifier" THEN "reset" ELSE "work")
  /\ UNCHANGED <<owner, flag, exitRequested, history>>

\* The notifier clears its flag a second time before it sleeps.
Reset ==
  /\ Go("notifier", "reset", "work")
  /\ flag' = [flag EXCEPT !["notifier"] = FALSE]
  /\ UNCHANGED <<owner, exitRequested, history>>

\* Mutant of Work: what throws goes back to waiting and passes nothing on.
WorkWithoutSignal(t) ==
  /\ Go(t, "work", IF t = "worker" THEN "testExit" ELSE "signal")
  /\ slept' = (t = "notifier")
  /\ late' = late + IF exitRequested THEN 1 ELSE 0
  /\ UNCHANGED <<owner, flag, exitRequested, start, missed>>

\* The worker's refresh (module SpotifyWebHook), the notifier's sleep_for.
Work(t) ==
  /\ Go(t, "work", "signal")
  /\ slept' = (t = "notifier")
  /\ late' = late + IF exitRequested THEN 1 ELSE 0
  /\ UNCHANGED <<owner, flag, exitRequested, start, missed>>

\* Mutant of Signal: the thread re-arms itself as well as the other one.
SignalBoth(t) ==
  /\ Go(t, "signal", "notify")
  /\ flag' = [u \in Threads |-> TRUE]
  /\ UNCHANGED <<owner, exitRequested, history>>

Signal(t) ==
  /\ Go(t, "signal", "notify")
  /\ flag' = [flag EXCEPT ![Other(t)] = TRUE]
  /\ UNCHANGED <<owner, exitRequested, history>>

\* Mutant of Notify: the flag is set and nobody is told.
NotifyNobody(t) ==
  /\ Go(t, "notify", "testExit")
  /\ UNCHANGED <<owner, flag, exitRequested, history>>

Notify(t) ==
  /\ pc[t] = "notify"
  /\ NotifyAll(Other(t), [pc EXCEPT ![t] = "testExit"])
  /\ UNCHANGED <<owner, flag, exitRequested, start, slept, late>>

-----------------------------------------------------------------------------
(* The owner: the constructor starts the notifier after the worker, the    *)
(* destructor asks both threads to exit and joins them.                    *)

OwnerGoes(from, to) == owner = from /\ owner' = to

StartNotifier ==
  /\ OwnerGoes("construct", "alive")
  /\ pc' = [pc EXCEPT !["notifier"] = "testExit"]
  /\ UNCHANGED <<flag, exitRequested, history>>

RequestExit ==
  /\ OwnerGoes("alive", "notifyWorker")
  /\ exitRequested' = TRUE
  /\ UNCHANGED <<pc, flag, history>>

\* Mutant of NotifyExit: only the worker's condition variable is notified.
NotifyExitToWorkerOnly ==
  \/ /\ OwnerGoes("notifyWorker", "notifyNotifier")
     /\ NotifyAll("worker", pc)
     /\ UNCHANGED <<flag, exitRequested, start, slept, late>>
  \/ /\ OwnerGoes("notifyNotifier", "joinWorker")
     /\ UNCHANGED <<pc, flag, exitRequested, history>>

NotifyExit ==
  /\ \/ OwnerGoes("notifyWorker", "notifyNotifier") /\ NotifyAll("worker", pc)
     \/ OwnerGoes("notifyNotifier", "joinWorker") /\ NotifyAll("notifier", pc)
  /\ UNCHANGED <<flag, exitRequested, start, slept, late>>

Join ==
  /\ \/ pc["worker"] = "done" /\ OwnerGoes("joinWorker", "joinNotifier")
     \/ pc["notifier"] = "done" /\ OwnerGoes("joinNotifier", "done")
  /\ UNCHANGED <<pc, flag, exitRequested, history>>

-----------------------------------------------------------------------------
ThreadStep(t) ==
  \/ TestExit(t) \/ TestFlag(t) \/ Clear(t) \/ Block(t)
  \/ Check(t) \/ (t = "notifier" /\ Reset) \/ Work(t) \/ Signal(t) \/ Notify(t)

OwnerStep == StartNotifier \/ NotifyExit \/ Join

Next == (\E t \in Threads : ThreadStep(t) \/ SpuriousWake(t)) \/ OwnerStep \/ RequestExit

\* The scheduler runs every thread that can run, a refresh ends (its HTTP
\* sessions time out) and so does a sleep.  Nothing obliges the user to close
\* the program or a wait to return spuriously.
Fairness == WF_vars(OwnerStep) /\ \A t \in Threads : WF_vars(ThreadStep(t))

SafetySpec == Init /\ [][Next]_vars

Spec == SafetySpec /\ Fairness

-----------------------------------------------------------------------------
\* Only the notifier is started late, and only it clears its flag twice.
TypeOK ==
  /\ pc \in [Threads -> Locations]
  /\ pc["worker"] \notin {"unborn", "reset"}
  /\ owner \in OwnerLocations
  /\ flag \in [Threads -> BOOLEAN]
  /\ exitRequested \in BOOLEAN
  /\ start \in {"clean", "set"}
  /\ slept \in BOOLEAN
  /\ missed \subseteq Threads
  /\ late \in Nat

\* t has consumed a request and has not yet passed it on.
Busy(t) == pc[t] \in {"reset", "work", "signal"} \/ (pc[t] = "check" /\ ~exitRequested)

OneRequest ==
  /\ ~(flag["worker"] /\ flag["notifier"])
  /\ ~(Busy("worker") /\ Busy("notifier"))
  /\ \A t, u \in Threads : ~(flag[t] /\ Busy(u))

\* From a clean start at most one request is in the system: a pending flag or a
\* thread at work.  This is what makes "refresh, sleep, refresh" a cycle at all,
\* and the notifier's second clearing of its flag (line 92) harmless.
SingleToken == start = "clean" => OneRequest

\* From any start, until exit is requested, there is at least one: clearing a
\* flag, twice even (line 92), never loses the last request there is.
RequestNeverLost == ~exitRequested => \E t \in Threads : flag[t] \/ Busy(t)

\* From a clean start every refresh but the first follows a sleep.
RefreshesAreSpaced == start = "clean" => (pc["worker"] = "work" => slept)

\* Who has the request: t's flag is set, or t is at work on it.
Turn ==
  IF flag["worker"] \/ Busy("worker") THEN "worker"
  ELSE IF flag["notifier"] \/ Busy("notifier") THEN "notifier" ELSE "nobody"

Turns == INSTANCE Alternation WITH turn <- Turn, rested <- slept

\* Refinement, from a clean start: worker and notifier take turns, each doing its
\* work once in its turn, until exit stops them.
TakesTurns ==
  /\ start = "clean" => Turns!AlternationInit
  /\ [][start = "clean" => Turns!AlternationNext]_<<Turn, slept>>

\* A thread sleeps on a request that is already there only if its notification
\* is still to come or came in the window between its test and its sleep.
StallsOnlyIfMissed ==
  \A t \in Threads \ missed : pc[t] = "waiting" =>
    /\ flag[t] => pc[Other(t)] = "notify"
    /\ exitRequested => owner \in IF t = "worker" THEN {"notifyWorker"}
                                                  ELSE {"notifyWorker", "notifyNotifier"}

CanGo(t) == pc[t] \notin {"unborn", "waiting", "done"}
OwnerCanGo ==
  \/ owner \in {"construct", "notifyWorker", "notifyNotifier"}
  \/ owner = "joinWorker" /\ pc["worker"] = "done"
  \/ owner = "joinNotifier" /\ pc["notifier"] = "done"

\* Worker, notifier and owner never all wait for each other, neither during the
\* cycle nor in the destructor's joins, unless a notification was missed.
DeadlockOnlyIfMissed ==
  missed = {} => owner = "done" \/ OwnerCanGo \/ \E t \in Threads : CanGo(t)

\* The destructor runs on the GUI thread, which hangs until it has joined both
\* threads: for at most one refresh or one sleep if one request circulates, and
\* for at most one of each otherwise.  A request passed on after exit was
\* requested starts nothing, whatever its receiver had tested by then.
LateWorkIsBounded == late <= IF start = "clean" THEN 1 ELSE 2

ThreadsJoined == owner = "done"

\* Closing ends both threads, and refreshes go on until then, unless a
\* notification fell in the window: nothing else can stop the cycle.
ShutdownUnlessMissed == [](missed = {}) => (exitRequested ~> ThreadsJoined)
RefreshRecursUnlessMissed == [](missed = {}) => []<>(pc["worker"] = "work" \/ exitRequested)

-----------------------------------------------------------------------------
(* What the comments promise and the code does not guarantee. *)

\* "Signal from main thread to exit this worker" (SpotifyWebHook.cpp:27): the
\* signal reaches both threads, and the destructor returns.
ShutdownCompletes == exitRequested ~> ThreadsJoined
=============================================================================
