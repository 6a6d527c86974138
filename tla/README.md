# A TLA+ model of Spotispy

Spotispy watches the Spotify client, mutes it or lowers its volume while an ad plays, and writes the current
song to a text file for streaming software. This directory models its concurrent and stateful parts in TLA+,
checks them with TLC and proves part of what is checked with TLAPS.

The program's own code is 2,360 lines of C++ in `src/Spotispy/*.cpp` and `*.h`. `src/Spotispy/Poco` and
the rest of `src/` are vendored headers, resources and project files.

## The system

| Component | State | Operations | Talks to |
|---|---|---|---|
| Refresh cycle (`SpotifyWebHook`, constructor and destructor) | two request flags, `m_exitRequested`, two threads | wait, work, set the other's flag, notify; start, request exit, join | itself; GUI thread (destructor) |
| Web hook (`SpotifyWebHook`, worker) | `m_hookInitialized`, `m_metaDataInitialized`, `m_bufferedMetaData`, `m_spotifyNeedsRestart`, tokens, port, session, status queue | `Init`, `RefreshMetaData`, `DeInit`, `PushStatusEntry`; `IsInitialized`, `GetMetaData`, `FetchStatusMessages`, `DoesSpotfiyNeedARestart` for the GUI | Spotify's local web server, open.spotify.com |
| Port scan (`GetWorkingPort`) | `validPorts`, eight threads | scan, collect, take the last | Spotify's local web server |
| Analyzer (`SpotifyAnalyzer`, GUI thread) | `m_spotifyAudio`, `m_savedVolume`, `m_adsBehavior`, `m_metaData` | `Analyze` (every 50 ms), `OnAdStatusChanged`, `SetAdsBehavior`, `RestoreDefaults` | hook, volume mixer |
| Dialog (`CSpotispyDlg`) | controls, stream-file settings, `m_bufferedPlayString` | three timers, radio buttons, slider, save buttons, closing | analyzer, save file, update notifier |
| Stream file (`Helper`: `WritePlayString`, `FormatPlayString`) | a file | write one line of text | dialog |
| Update notifier (`UpdateNotifier`) | `m_hasData`, `m_updateInformation` | `QueryResult` on a detached thread, `HasData`, `FetchData` | raw.githubusercontent.com, dialog |
| Settings (`JSONSaveFile`) | `m_data`, a file | load, insert, get or default, save | dialog |
| `CommonCOM`, `UpdateDlg`, `CSpotispyApp`, `Helper`'s process list | - | start-up, display, sampling | - |

What is hard about it: two threads that hand a request to and fro with condition variables whose mutexes
protect nothing; a worker that publishes several pieces of state one at a time to a GUI thread that reads them
one at a time; a session, tokens and data that outlive the Spotify process they came from; and a mixer setting
that belongs to the user, is changed for the time of an ad, and must be given back although data, audio session,
mode and program can go away in between; a file that other programs read, and lock, while it is written only when
the text changes; a detached thread that outlives what it writes to; a modal dialog under which the timer that
opened it goes on; and settings saved by truncating a file whose relative name moves with the current directory.
`PROJECT.json` lists each hazard at its line.

What would make each component correct: the cycle goes on until exit, and exit ends it; refreshes are spaced;
the hook comes back after every failure, never resends what was rejected and never hands out what it should not;
a lasting ad is treated, and after it the user has his sound back, on every path; the stream file says what is
playing; an update is announced exactly if there is one; settings survive.

## Modules

| Module | Models | Notes |
|---|---|---|
| `Alternation` | abstract: two workers take turns until they stop | four actions, no flags, waits or notifications |
| `RefreshCycle` | the two threads and their owner | one set of actions over the thread `t`, since both loops have the same shape; implements `Alternation` |
| `MetaDataFeed` | abstract: what the hook shows the GUI thread | no network, no threads: five actions |
| `SpotifyWebHook` | one pass of the worker: `Poll`, `Init`'s steps, `RefreshMetaData`'s steps, `DeInit`, the status queue | implements `MetaDataFeed` |
| `SpotifyAnalyzer` | `Analyze()` and the dialog's handlers that reach the analyzer | written against any `MetaDataFeed` |
| `PlayString` | `FormatPlayString` as operators | no state |
| `StreamFile` | timer 2, `WritePlayString`, the handlers that change what and where to it writes, restarts | EXTENDS `PlayString` |
| `Spotispy` | GUI thread, hook, worker and notifier of one run of the program together | composes: EXTENDS `SpotifyAnalyzer`, INSTANCEs `SpotifyWebHook` and `RefreshCycle` |
| `Settings` | abstract: what the settings promise from run to run | no file and no memory: five actions |
| `JSONSaveFile` | the settings in memory and in the file | state and steps, no specification of its own |
| `UpdateNotifier` | the query thread and its result | the same |
| `SpotispyDlg` | the dialog over several runs of the program | composes the two: EXTENDS both and conjoins their steps; implements `Settings` |
| `RefreshCycle_proofs`, `SpotifyWebHook_proofs`, `SpotifyAnalyzer_proofs`, `StreamFile_proofs`, `SpotispyDlg_proofs`, `Spotispy_proofs` | - | the theorems |
| `MCRefreshCycle`, `MCSpotifyWebHook`, `MCSpotifyAnalyzer`, `MCStreamFile`, `MCSpotispyDlg`, `MCSpotispy` | - | constants and symmetry for TLC |

How they fit: `RefreshCycle` abstracts the worker's work to one step (`Work`), `SpotifyWebHook` opens that step
up and takes from the cycle only that it recurs. `SpotifyWebHook` implements `MetaDataFeed` (`ImplementsFeed`),
and `SpotifyAnalyzer` assumes no more of its hook than that. `Spotispy` puts the three together, and its
theorems say that each still does in the whole what its own module allows. Each of these modules has a
`SafetySpec` without fairness, which is what the composition implements, and a `Spec` with it. `StreamFile` takes from the analyzer what its `m_metaData` says, in any order. `SpotispyDlg`
leaves the effects on volume and stream file to these two and keeps those on the settings; it is where
`StreamFile`'s `Restart` gets its surviving settings from.

**RefreshCycle.** `pc[t]` is where thread `t` is in `wait` (`testExit`, `testFlag`, `clear`, `block`,
`waiting`), in its loop body (`check`, `reset`, `work`, `signal`, `notify`) or outside it. `flag["worker"]` is
`m_refreshRequest` and `flag["notifier"]` is `m_notifierThreadNotification`. As the mutexes are local to the
threads, each atomic access is a step, and falling asleep (`Block`) is a step after the test. `start`, `slept`,
`missed` and `late` (how many refreshes and sleeps ended after exit was requested) are history variables.

**SpotifyWebHook.** The worker's steps end where the GUI thread or Spotify can interfere: at each critical
section of `m_mutex`, each write of `m_spotifyNeedsRestart`, each request. A pair of OAuth and CSRF tokens is one
value of `Tokens`; the path of the session keeps the pair it was built with. `accepted` is what the running
Spotify has issued. `port` is what Spotify serves on `m_localPort`: everything, only the tokens, or nothing. The scan
may take any of them, since it tests the status of a response it has not received (line 353) and a port can yield
tokens and no meta data (comment at 357-364), and Spotify may come back on other ports. `Answers` says how a request
may end: in any way if Spotify is off or sick or the connection is one from before Spotify quit; without an answer
if the port does not serve it; with data if the tokens are accepted; and with data or an error if they are not. Song details are left out of the data: the ad logic reads `m_isAd` only.
Messages are reduced to what failed.

**SpotifyAnalyzer.** `pc` cuts `Analyze()` at its reads of the hook and its reads and writes of the mixer.
`handle` stands for `m_spotifyAudio` and `m_spotifyAudioInitialized`, which the code always sets together; it is
"dead" when the audio session it belongs to has ended. `volume` and `muted` are Spotify's entry in the mixer;
Windows keeps it across sessions. The positions of the dialog's slider (`AdVolumes`) are told apart from the
user's volumes so that a property can say whose a volume is. The user moves volume and mute in the mixer
(`UserSetsVolume`, `UserSetsMute`) whenever there is a session; `userVolume` and `userMuted` remember what he last chose. The
mixer starts as he had it or as an earlier run left it, muted or at the ad's volume, if that run crashed or was left
with Esc. `upset` is a history variable with what can stand between him and his choices: `cutOff` (an ad's treatment was
abandoned because the data or the audio session went away), `inherited` (an earlier run had left one) and
`overruled` (his last change of the volume, made during an ad or between a tick's read and write, was written
over).

Two things are coarser than the code here: `SetAdsBehavior` writes the mixer twice in one step, and the COM calls that
look up the audio session are one step that succeeds if there is a session.

**Spotispy.** The owner of `RefreshCycle` is the GUI thread: `Analyze()` is called (`Tick`) while the owner is
`alive`, and the hook's destructor starts once the dialog has ended (`Lifetime`). `RefreshCycle`'s `Work` of the
worker is opened up (`Refresh`): while the loop is at `work`, the hook's worker takes its steps, and the one that
brings it back to `idle` is the cycle's `Work`. The feed's variables are the hook's; the analyzer's `Hook`
steps are no longer arbitrary. Of the GUI thread's calls `FetchStatusMessages`, which the analyzer's module can
leave out because it touches none of its state, is put in where `Analyze()` makes it, between reading the meta data
and the branch (`fetched`). `asked` is a history variable: how many calls of `Init()` and `RefreshMetaData()` have begun
since the last sleep ended. A pass that finds Spotify off asks nothing. Spotify is one process: `running` and `spotify` change together.

**PlayString, StreamFile.** A format is the set of its placeholders, and a line says what each of them was replaced
by; the text around them and the encoding make no difference to what is checked. Minutes are cut off and
percentages rounded as the conversions do; without a length the division gives an infinity or a NaN, and its
conversion to `int` the value x86 yields (`Indefinite`). `file` is what is in the file named by
`m_twitchFilePath`, `locked` says whether another program keeps it from being opened. `refused` is a history
variable: the buffered play string did not get into the file; and so is `covered`: something else has been written
over it. A tick of timer 2 is one step, since `m_metaData`
changes on the same thread only; a crash between truncation and write is the outcome `Empty` of `Restart`.

**JSONSaveFile, UpdateNotifier, SpotispyDlg.** A key that is missing, or has a value of the wrong type, is
`Absent`. `SaveToFile` is cut between its truncating `open` and its write, where the query thread, a crash or a
failure may come in; all handlers run on the GUI thread, so none starts while one saves (`Idle`), except on top of
an open update dialog, whose message loop delivers timer 3 but, the main dialog being disabled, no click there.
`elsewhere` says whether the current directory is another one than at the start. The query thread has two
critical sections, so there is a state between the answer stored and `m_hasData` set. The destructor's order is
that of the members: settings, notifier, analyzer; from the notifier's destruction to the end of the process the
query thread may write to freed memory (`UseAfterFree`), which may end the process or do nothing that is noticed.
`chosen` is a history variable: for each setting what the user was shown at the start or has set since. A file
dialog is one step.

**Settings.** `open` is whether the program runs, `chosen` the history variable of `SpotispyDlg`, and `stored`
what the next run would make of the file: its values, and defaults for the rest.

## Runs

| Run | Checks | Result |
|---|---|---|
| `cycle` | type, `SingleToken`, `RefreshesAreSpaced`, `StallsOnlyIfMissed`, `RequestNeverLost`, `DeadlockOnlyIfMissed`, `LateWorkIsBounded`, `ShutdownUnlessMissed`, `RefreshRecursUnlessMissed`, `TakesTurns` | hold |
| `cycle_spacing` | `EveryRequestIsSpaced` (`SpotifyWebHook.h:40`), of the whole program | violated: uninitialised flag, and a second `Init()` right after a first that failed |
| `cycle_shutdown` | `ShutdownCompletes` (`SpotifyWebHook.cpp:27`) | violated: lost wake-up |
| `hook` | type, `RejectedTokensNotResent`, `OldDataOnlyInFirstRefresh`, `RestartAdviceExcludesData`, `QueueHoldsAllItCan`, `ImplementsFeed`, `HookRecovers`, `HookLetsGo` | hold |
| `analyzer_safety` | type, `MixerNeverGarbage`, `SavedVolumeIsUsers`, `SongsUntouched`, `ClosingRestores` | hold |
| `analyzer_liveness` | `AdsAreTreated`, `MuteEnds` | hold |
| `analyzer_lowered` | `LoweredOnlyDuringAds` (`README.md:3`) | violated: lost data make the ad's volume the user's |
| `stream` | type, `NoOtherSong`, `SongSettles`, `OtherTextsSettle` | hold |
| `stream_song` | `SongComesBack` (`README.md:3`) | violated: an unchanged play string that has been written over is not written again |
| `dialog` | type, `SettingsSurvive`, `OneDialog`, `DialogHasAnswer`, `DeclinedIsRespected`, `ImplementsSettings`, `UpdateIsAnnounced` | hold |
| `settings_moved` | `SettingsRestored` (`README.md:34` of the repository) | violated: the settings follow the file dialog's directory |
| `update_notice` | `OnlyNewVersionsAnnounced` (`Spotispy.rc:121`) | violated: a failed query and an older version are announced as well |

`cycle`, `hook` and `dialog` check a refinement each: `TakesTurns` maps the cycle's flags and places to whose
turn it is, `ImplementsFeed` the worker's steps to what the GUI thread sees, `ImplementsSettings` the save file
over several runs of the program to what the user finds. `TakesTurns` is stated for a clean start only;
`cycle_spacing` shows, of the whole program, that requests are not spaced from the other one: its counterexample goes
through both loops and through the hook's steps, and ends with two calls of `Init()` without a sleep between them.

The properties that hold name their exceptions, and the violated ones show that the exceptions happen: a stall
needs a missed notification (`missed`), a wrong volume after an ad needs `upset`, a file without the song's line needs
something written over it (`covered`), a refused write or an empty format, lost settings need a failed, cut-off or
misplaced save. A hook that never recovers needs a port of another kind than `full`. Only an error answer or an absence of
Spotify that the worker notices leads to a new port scan, so a hook that is initialised on a port that does not serve the
meta data stays there, be it that the scan took it or that Spotify restarted on another port between two polls; and a scan
that takes a useless port each time is repeated for ever. These are the two ways out that `HookRecovers` has. The
code's comment at `SpotifyWebHook.cpp:357-364` fears the former itself, so it is no disagreement with a document.

`SongsUntouched` and `ClosingRestores` say that the volume is the user's and that what is muted was muted by the
user. The converse is not true of the code: in mode Mute each tick that sees a song unmutes Spotify
(`SpotifyAnalyzer.cpp:216-220`), and so do closing and a change of the mode (line 100), whoever had muted it. `MuteEnds`
states it from the other side. Leaving the dialog with Esc restores nothing, against `SpotifyAnalyzer.h:33`
("Called on program exit"): the message map has no entry for `IDCANCEL` (`SpotispyDlg.cpp:36`). The model has that step
(`Cancel`), and as mixers it can leave behind are among the initial states, the next run is checked from there.

`LateWorkIsBounded` is about how long the GUI thread hangs in the destructor: both `Check` and the wait's predicates
look at `m_exitRequested`, but a notifier that is past its check starts its sleep all the same.

**Bounds.** `RefreshCycle` needs none: its state is finite, and both values of the uninitialised flag are
start states. It may deadlock by design (both threads asleep, or all joined), so `CHECK_DEADLOCK` is off.
`SpotifyWebHook`: a new pair of tokens has to differ from the hook's and the session's, so three pairs are as
good as any number. A queue of two (the code: 20) has an empty, a partly filled, a full and an overflowing state;
the history counter `unfetched` stops one above. `SpotifyAnalyzer`: two user volumes show a change that is lost,
one position of the slider is enough to recognise it; liveness takes one user volume, since it never compares two.
`StreamFile`: a song at two positions and another one without a length, and formats with names only, with times,
with a percentage, and empty: lines that change with the song, with time, with the format, and not at all; two ad
texts, so that one can be changed. `SpotispyDlg`: the three settings that are treated in a way of their own
(`Named`) and one that stands for the others, since each handler touches one key; two values, one of them the
default. `Spotispy`: one value of each kind and a queue of one. The whole state
space is too large for a run that finishes, so that run looks for its one counterexample, found 22 steps deep, only where
the GUI thread waits and the mixer is at rest (the constraint `GuiWaits`), and the rest of the composition is proved.
`MaxDialogs` is two, one more than ever are open (`OneDialog`), and the theorem holds for every bound.

**Fairness.** Threads that can run do run (`WF` per thread, and for the owner's steps): the operating system
schedules both, `sleep_for` ends, and Poco's sessions time out. The worker of `SpotifyWebHook` is weakly fair for
the same reasons, and because the cycle recurs unless a wake-up is lost, which `RefreshCycle` is about.
`Analyze()` is weakly fair because Windows delivers `WM_TIMER` whenever no other message is waiting, and so is
timer 2 in `StreamFile`. In `SpotispyDlg` a save in progress disables the handlers, so timer 3 is not enabled
all the time: it is strongly fair (`SF`), since a user who keeps clicking delays the timer's message but Windows
keeps it until the queue is empty. A save ends (`WF`), and so does a query, as its session times out. Nothing is
assumed of Spotify, the network, the user or spurious wake-ups; where a liveness property needs them to settle,
it says so in its premise.

## Proofs

`RefreshCycle_proofs`, for every non-empty set of start values of the flag (`StartValuesAssumption`):

- `TypeCorrect`: `TypeOK` is inductive as it stands.
- `StallTheorem` (`StallsOnlyIfMissed`) by `StallInv`. The property speaks of sleeping threads only, so a thread
  about to sleep could break it; `StallInv` extends it to `block`, and to `testFlag` once the owner has notified
  (`BeforeNotifying`), and ties `exitRequested` to the owner's place.
- `TokenTheorem` and `SpacingTheorem` (`SingleToken`, `RefreshesAreSpaced`) by `TokenInv`, which says where the
  one request is: a thread about to clear its flag has it set, and from the end of a sleep to the end of the
  refresh that follows `slept` is TRUE.

- `RequestTheorem` (`RequestNeverLost`) by `RequestInv`: a flag is cleared by the thread that is then busy with the
  request, and only a thread that exit was requested of ends (`BirthAndDeath`). No clean start is needed.
- `DeadlockTheorem` (`DeadlockOnlyIfMissed`) from `StallInv` and `RequestInv`, without an invariant of its own. While the
  program runs there is a request; the thread it belongs to either goes on or sleeps, and then the other one is about to
  notify it. While the destructor joins a thread, that thread has ended or is not asleep.
- `LateTheorem` (`LateWorkIsBounded`) by `LateInv`: the refreshes and sleeps that ended late and those under way
  (`InFlight`, past the loop's check) together are at most two, and at most one where a single request circulates
  (`TokenInv`); no other gets past the check once exit is requested.
- `JoinInvariant`, a lemma for `Spotispy_proofs`: past each join the thread joined is done.

`SpotifyWebHook_proofs`, for any set of tokens (`TokensAssumption`) and any length of the queue
(`QueueAssumption`), and with an environment that answers, fails and restarts as it likes:

- `ControlInv` is what all of it rests on. It says where the worker can be in which state: initialised from
  `Connect` on, uninitialised during `Init`, with a session from the request to the withdrawal, and without data
  while a restart is advised, except in the steps of a failure under way (`Failing`). `AdviceTheorem`
  (`RestartAdviceExcludesData`) is its case `pc = "idle"`.
- `RejectionTheorem` (`RejectedTokensNotResent`) by `TokenInv`. The property looks at the request only; to be
  inductive it has to follow the tokens from `SetupCSRF` to the hook (`tokens`), from `Connect` to the session
  (`path`), and allow both to be rejected until `DeInit` and `WithdrawMetaData` have done their part.
- `FreshnessTheorem` (`OldDataOnlyInFirstRefresh`) is inductive given `ControlInv`.
- `QueueTheorem` (`QueueHoldsAllItCan`) by `QueueInv`, with `PushKeepsQueue` for `PushStatusEntry`.
- `FeedTheorem` (`ImplementsFeed`): initial states map to initial states of `MetaDataFeed`, and each worker step
  to the feed's step of the same meaning or to a stutter. It needs `ControlInv`: `Publish` must not happen while a
  restart is advised, and `Initialize` not while rejected tokens' data are still there.
- `TypeTheorem` (`TypeOK`) from `DataInv`, the flags' types, `ControlInv` and `QueueInv`.

`TurnsTheorem` in `RefreshCycle_proofs` (`TakesTurns`): from a clean start every step maps to a step of
`Alternation` or a stutter. It rests on `TokenInv`, which makes `Turn` well defined, and on `TurnInv`: a notifier
that still has to rest has not rested since the last refresh, and a worker about to pass the turn on has
refreshed. After exit is requested, a thread that clears its flag drops the turn instead of taking it (`Stop`).

`SpotifyAnalyzer_proofs`, for any disjoint sets of user and ad volumes (`VolumesAssumption`) and any
`MetaDataFeed`:

- `TypeTheorem` and `GarbageTheorem` (`MixerNeverGarbage`) by `HandleInv`: a live handle has a session, its
  `savedVolume` was read while there was one, and so garbage in `savedVolume` always goes with a dead handle.
- `SavedVolumeTheorem`, `SongsTheorem`, `ClosingTheorem` by `TreatmentInv` and `VolumesInv`. The properties speak
  of the end of a tick; the invariants say at each place of `Analyze()` what of the user's sound is in the mixer,
  what is in `savedVolume`, and which of the user's changes has not been read yet (`unsaved`). `UsersMixer` puts
  them together: where no treatment is in the mixer and none was left behind, it is as the user had it.

`StreamFile_proofs`, for any songs and ad texts and any formats (`FormatsAssumption`): `NoOtherSongTheorem`,
inductive as it stands; `TypeTheorem`; and about `PlayString` `PercentageTheorem` (0 to 100 within a track that has a
length).

`SpotispyDlg_proofs`, for any keys, values and defaults (`KeysAssumption`, `AbsentAssumption`):

- `SettingsTheorem` (`SettingsSurvive`) by `SettingsInv`: the property speaks of a program that is not running,
  so it has to be traced to the file through the save (`FileIsChosen`, whenever no save is under way and the last
  one was complete) and to the memory through the handlers (`DataAreChosen`), with the slider as the exception
  to the former.
- `OneDialogTheorem` and `AnswerTheorem` by `DialogInv` and `QueryInv`: there are data once per query and only
  after its end, and one query per run, so an open dialog leaves no data for a second one.
- `DeclinedTheorem` (`DeclinedIsRespected`), an action property: a dialog is opened by timer 3 only, which reads the
  setting in memory, and while the program runs the memory is what the user has chosen (`SettingsInv`).
- `KeptTheorem` (`ImplementsSettings`), the refinement of `Settings`: with `NothingStored` (an empty file means the
  defaults) and `KeptStep`, which takes each step of the dialog to a start, an end, a choice, a complete save, a loss or
  a stutter. That a save in its last step stores what the user has chosen is `SettingsInv` again.
- `TypeTheorem` (`TypeOK`).

`Spotispy_proofs`, under `ConstantsFit`, which says of the composition's constants what the assumptions of the
parts' modules say of theirs:

- `WebHookTheorem`, `CycleTheorem`: each step of the program is a step of `SpotifyWebHook`, of `RefreshCycle`, or leaves its
  variables alone. So all that is proved of the two over `SafetySpec` holds in the whole.
- `AnalyzerTheorem`: each step is a step of `SpotifyAnalyzer`. For the worker's steps that is `FeedStep`, the step of the
  hook's refinement of `MetaDataFeed`, under the hook's `ControlInv` and `FlagInv`, which hold here by
  `WebHookTheorem`. This is where "written against any `MetaDataFeed`" is made good.
- `UserVolumeTheorem`, `WholeRejectionTheorem`: the most important invariants of the analyzer and of the hook, in the whole.
- `LifetimeTheorem` (`NoRefreshOutlivesHook`), `RequestSpacingTheorem` (`RequestsAreSpaced`) and `QuietHookTheorem`
  (`QuietHookIsConsistent`: while the worker is not at work, what the GUI thread sees of the hook agrees) relate hook and
  cycle. For the second, `AskedInv` says that nothing has been asked yet while a sleep lies behind the worker and it has
  not begun. They rest on `RefreshInLoop` (the worker is in a refresh only while its loop is at `work`), with the cycle's `JoinInv`
  and `TokenInv` and the hook's `ControlInv` and freshness.

The proofs of `SpotifyWebHook` and `RefreshCycle` are taken in by INSTANCE (`HookP`, `CycleP`). For the prover these are other
instances than `Spotispy`'s own `WebHook` and `Cycle`; `SameHook` and `SameCycle` say that they are the same.

Only model-checked: the liveness properties (`ShutdownUnlessMissed`, `RefreshRecursUnlessMissed`, `HookRecovers`,
`HookLetsGo`, `AdsAreTreated`, `MuteEnds`, `SongSettles`, `OtherTextsSettle`, `UpdateIsAnnounced`), which rest on fairness and
`ENABLED` and so are out of the prover's reach. For the same reason the composition is stated for `SafetySpec`: that the parts'
fairness carries over to the whole is not proved. Every invariant and every safety property of a passing run is proved.

## Not modelled

- `src/Spotispy/Poco` and its subdirectories: vendored headers of the Poco libraries, 97 % of the lines under
  `src/Spotispy`, whose implementations are not in the repository. The program uses HTTPS sessions, the JSON parser
  and `Dynamic::Var`; they are modelled by how a call may end (`Outcomes`, `Answers`, `Answered`, `QueryThrows`).
  The model maps to the program's own 2,360 lines; measured against all of `src/` its share stays small.
- The eight threads of the port scan: they append to one vector under a mutex and are joined before it is read,
  so the scan is one step at its last push. Which of several answering ports is taken stays open, and with it
  what that port serves.
- The COM references which the early returns of `InitSpotifyAudioContext` leak, and its null `simpleAudioVolume`
  if the last `QueryInterface` fails: the lookup is one step by its effect on the handle.
- Song details in `SpotifyWebHook`: the parser's fields are data without control. `m_trackLength` is not set if an
  answer has no length; `StreamFile` takes any length, 0 included.
- `CommonCOM`, `UpdateDlg`, `CSpotispyApp` (no state or logic of their own; `UpdateDlg`'s "Don't remind me again"
  is `IDOK2`, whose value 2 is `IDCANCEL`, which is why `Answer` treats Esc and that button alike), the process
  list (sampled as `running`), helpers without a caller (`SeperateString`, `MultiSearchCString`, window titles).
- Hazards without a property of a run, each with its reason in `PROJECT.json`: the leak above; the percentage of a song
  without a length and the kind of an answer without `next_enabled`, of which nothing says what they should be; a query
  that throws, and the query thread's use of a destroyed notifier, of which the code promises nothing; and the destructor
  under a refresh, which is proved (`LifetimeTheorem`).
