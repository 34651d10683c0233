# Formal models of AirplayVideo

AirplayVideo sends one source (a browser page, an HDHomeRun channel, a generated
video, or a YouTube video played directly) from a Home Assistant app to several
Apple TVs. This directory models the parts of it in which tasks, threads and
processes meet, model-checks them with TLC and proves the results that matter
most with TLAPS.

| run | answers |
|---|---|
| `tlc -config playback_tvs.cfg MCPlayback` | two TVs share, join, leave and lose a stream |
| `tlc -config playback_sources.cfg Playback` | a page and a direct video replace each other under Stops and cancellations; calls return and stopped processes end |
| `tlc -config engine_tvs.cfg MCEngine` | two TVs, two producers and the command thread of a media process |
| `tlc -config engine_live.cfg MCEngine` | what a reader of the queues gets; a media process told to end does end |
| `tlc -config launches_auto.cfg MCLaunches` | kicks, cancels, Stops, shutdown, crashes and restarts around one launch |
| `tlc -config launches_manual.cfg MCLaunchHistory` | explicit launches queue, join, replace each other and are overruled |
| `tlc -config launches_live.cfg MCLaunches` | commands return and no launch hangs in "checking" |
| `tlc -config resources.cfg MCResources` | the processes of a direct video under cancellations, limits, crashes and closes |
| `tlc -config direct.cfg DirectVideo` | one direct video: its tasks, its three resources, its TV and its callers |
| `tlc -config services.cfg MCServices` | the browser, the measurements and the Supervisor's requests, each by itself |
| `native_replacement_stopped` (`Playback`), `recording_browser_closed` (`Measurements`) | disagreements between code and documents, with a counterexample each |
| `page_change_engine_died`, `cancelled_close`, `dead_stream_adopted` (`Playback`), `page_change_stopped` (`PlaybackHistory`), `stop_cancels_others` (`Launches`), `paste_cut` (`Desktop`) | more of them, kept as configurations |
| `tlapm X_proofs.tla` for `Playback`, `PlaybackLife`, `Engine`, `Launches`, `DirectVideo`, `Resources`, `Desktop`, `Services` | the theorems |

## Inventory

Paths are relative to `src/airplayvideo/`.

| component | state | operations | interacts with |
|---|---|---|---|
| Controller (`service/controller.py`) | current and pending stream, targets, receiver states, source, phase, generation, retiring close tasks, `lock` | play, stop, open_browser, event, stop_failed, retire | everything below; events call it back |
| Stream (same file) | process, reader task, ready future, stopping | start, command, read_events, close | spawns a media process; pipes both ways |
| NativeSession (`service/native_session.py`) | state, prepare/connect/monitor/close tasks, three resources, deadline | prepare, connect, close, status | owned by Controller for direct video |
| NativeHLSStream and preparation (`native_stream.py`, `native_prepare.py`, `native_plan.py`, `native_probe.py`) | ffmpeg process, playlist, plan | start, stop, publish segments | producer of NativeSession |
| NativeHLSOrigin (`native_hls_origin.py`, `native_origin.py`) | listener, fetched ranges | serve, counters, close | the TV fetches from it |
| NativeEnginePlayer (`native_engine.py`, `src/native.cpp`) | worker process, events | start, close | the TV plays the origin's URL |
| Media process: commands and sessions (`src/stream.cpp`) | stop flag, session map, recording | add, remove, record, stop | Stream's pipe; owns the two below |
| Media (`src/media.cpp`) | failure, completed, closed, subscriber queues, producer threads | publish, subscribe, next, close | mirror threads and the recorder read the queues |
| Mirror connection (`src/mirror.cpp`) | RTSP session, event channel, audio history | connect, send, teardown | one TV |
| Recording (`src/recording.cpp`) | subscription, stop, done | record, finish | one reader of Media |
| Recordings (`service/recordings.py`) | current recording, owned stream, timer | start, event, finish, remove | Controller.lock, Stream |
| Diagnostics, frame probe, picture analysis | one measurement at a time | start, cancel | exclude each other and playback changes |
| Browser (`service/browser.py`) | processes, profile, url, navigation state, two locks | start, navigate, control, close | Controller, Companion |
| Companion (`service/companion.py`, `companion/`) | one connection, pending replies, sequence | call, accept, close | the extension in the browser |
| Proxy and VPN (`browser_proxy.py`, `browser_vpn.py`) | a setting | set, roll back | Browser |
| Capitals launches (`capitals.py`, `sportsnet.py`) | saved record, epoch, worker, manual requests | kick, play_current, stop_pending, restart | Controller.lock, Store |
| Supervisor control (`supervisor_control.py`) | request tasks, input buffer | dispatch, close | Capitals, Controller, frame probe |
| Store (`model.py`) | settings and their file | save, roll back | all |
| MQTT, HTTP, web page | connection, page state | commands become Controller calls | Home Assistant, user |
| Pairing, discovery, network, audio and video code in `src/` | keys, sockets, codecs | sequential protocol and media code | TVs |
| Surfshark gateway, vendored pairing library | | | |

What is hard about it:

- The service is one event loop. Every `await` is a place where a Stop, an
  event of a media process or the end of one may come in between; Stop takes no
  lock on purpose. The code defends itself with a generation number, with
  checks after each await and with close tasks that outlive their callers.
- A media process has at least five threads with two stop flags, a session
  map owned by one thread and destroyed by another, and queues that must never
  let a slow TV hold up the encoder.
- TVs keep state of their own. A stream set up must be torn down, once, and a
  late teardown must not reach the next stream.

## Components and their correctness

**Playback lifecycle.** A TV is sent media by one process at a time; no process
is orphaned, except the one whose `close()` lost its caller to a cancellation, which
was told to end; a superseded Play touches no TV; what is shown at rest agrees with
what runs; a Stop returns when its streams are gone, or when the stream that goes on
has been told to leave the TV; calls return.

**Media process.** Readers get an unbroken run of packets from a keyframe or are
cut; queues keep their limits and their byte count; no thread outlives the
session map; local ports are never shared; a TV that was set up is torn down;
a closed queue is never mistaken for a silent source; a failure is reported;
a process told to stop exits.

**Live game launches.** A game is started at most once without being asked for, over
crashes and restarts; a launch takes no TV that it was not asked for; Stop and cancel
win over what is queued; every task that can still launch can be cancelled; "started"
is true when it is said; shutdown keeps an open window; commands return.

**Direct video.** Its processes, its directory and its listener are gone when it says so,
whichever await a cancellation met; served media outlive everything that may fetch
them; a caller is told a failure as a failure, and an exception means that nothing is
left, unless the caller was cancelled while it waited for `close()`, which then goes on
without it; "completed" means the TV was sent the whole beginning and the source was
finished.

**Browser and companion.** The address that is remembered, by which the next Play
decides not to navigate, is that of the page shown, although replies are lost or late
and requests are cancelled; a Chrome gets one tab; whoever paused the preview's input
resumes it, or has tried to.

**Recordings and measurements.** What is measured is measured alone; a measurement that
is over has no child, except one that it killed and, being told to end twice, did not wait
for; a recording ends by its own engine (it was written, a command of any kind was refused,
the source failed, the engine is gone) or at its own time, not by late news of an earlier
one; both end.

**Supervisor control.** Requests are bounded and a Stop is always heard; a request reports,
and cancels, only the measurement it has started; every request ends and the input
becomes free again.

## Modules

| module | what it is |
|---|---|
| `Playback` | Controller, Stream and the outcomes of NativeSession: one action per stretch of code between two awaits |
| `ReceiverLease` | what Playback promises about TVs: at most one holder, free in between, never taken by a retired stream |
| `PlaybackHistory` | Playback with a history variable, for the Stop that is ignored |
| `MCPlayback` | symmetry for TLC |
| `Playback_proofs` | who sends to a TV: theorems about Playback |
| `PlaybackLife_proofs` | what becomes of processes, TVs and calls: more theorems about Playback |
| `Engine` | one media process: main, command, producer and mirror threads, recorder and queues |
| `Feed` | what Engine promises to a reader |
| `MCEngine` | constants for TLC |
| `Engine_proofs` | theorems about the threads of Engine; Engine implements Feed |
| `Launches` | CapitalsLauncher with its record and the controller as it sees it |
| `LaunchHistory` | Launches with a history variable: the launches a user has overruled |
| `MCLaunches`, `MCLaunchHistory` | symmetry for TLC |
| `Launches_proofs` | theorems about Launches and LaunchHistory |
| `Owned` | what a resource promises its owner: it is closed once asked, holds nothing then, and keeps what it said |
| `HlsStream` | NativeHLSStream: the commands that prepare a video, the conversion, its monitor and cleanup; implements Owned |
| `EnginePlayer` | NativeEnginePlayer: the process that makes the TV play; implements Owned |
| `MCResources` | the two of them, each by itself |
| `DirectVideo` | NativeSession over three resources that are Owned, with the listener's accounting of ranges; implements Owned |
| `DirectVideo_proofs` | theorems about DirectVideo |
| `Resources_proofs` | theorems about HlsStream and EnginePlayer; both implement Owned |
| `Desktop` | Browser and Companion, with Chrome and its extension as the environment |
| `Measurements` | Recordings, Diagnostics, FrameProbe and PictureAnalysis beside playback and the browser |
| `Supervisor` | SupervisorControl and what it asks of FrameProbe |
| `MCServices` | the three of them, each by itself |
| `Desktop_proofs` | theorems about Desktop |
| `Services_proofs` | theorems about Measurements and Supervisor |

### Playback

`ctl` holds the attributes of Controller, `engine[s]` one Stream or direct-video
session with its process, `retiring` and `torn` the close tasks created by
`retire`, `failing[s]` the task of `stop_failed`, `play` the task that holds
`Controller.lock` with its local variables, and `stops` the callers of `stop`.
`play.pc` names the await at which the task is suspended:

| pc | await of the code |
|---|---|
| removing | the remove commands of a same-source Play |
| browse | `browser.navigate` or `browser.start` |
| spawning, warming, closing | `Stream.start`: creating the process, waiting for `media_ready`, closing after a failure |
| replacing | `finish_teardown` of the previous stream |
| adding | the add commands |
| aborting | the close in the except clause |
| preparing, nreplacing, nbrowser, connecting | the awaits of `play_native` |
| preview | the browser start of `open_browser` |

An action is the code from one await to the next, with every assignment and
early return in it. Cancellation of a Play or a Stop is an action enabled at
its awaits. `Media(s)` is the environment: a process becomes ready, reports
events of TVs, fails or exits at any time.

`engine[s].sessions` are the TVs the process has been told to send to and
`engine[s].leaving` those of them whose remove command is in its pipe. The command thread of
`stream.cpp` erases and joins the session when it reads the command (`Removes`), which may be after
the Stop that wrote it has returned and `targets` has dropped the TV.

The except clauses of `play_locked` and `play_native` await `pending.close()` themselves. A
cancellation that arrives there (`PlayAbandoned`) skips the rest of the clause and, in `close()`, the
wait and the kill: the process has been told to end and stays `pending`, closing, without
anybody who waits for it, until the next Stop or Play takes it or overwrites it.

Abstractions: an await of a pipe's `drain` is a suspension only when the pipe is
full, and a command to a dead but unreaped process may or may not raise; one
browser profile; diagnostics, recordings (module Measurements) and the profile check that `play_locked`
makes first are outside; a call is cancelled once (a further cancellation would do to the except
clause of a cancelled Play what `PlayAbandoned` does to that of a failed one, and for a direct video
that was connecting the next Play would not wait for its end: what is proved of Playback is
proved for calls that are cancelled once); waits on `Stream.write_lock` are part of the wait of the command
that holds it; a pending stream reports no TVs because it has none; the
settings checks of a request are left out; TVs are not deleted meanwhile.

### Engine

`media` has the flags of `Media::Impl`, `sub[x]` the `Subscriber` of a reader,
`sessions` and `thread[r]` the session map and the mirror thread of a TV,
`recorder` the recording, `cmd` the command thread and `main` the main thread.
A packet is its place in the order of publishing; the queue of a reader is a
sequence of places, so that a gap or a repetition would show.

| actor | actions | code |
|---|---|---|
| producer | Publish, ProducerFails, ProducerNotes, ProducerCloses, CaptureLeaves, Completes | `publish`, `generated`, `capture` |
| mirror thread | SetUp, Subscribe, Deliver, LoopEnds, Overflowed, Breaks, TearDown, CleanUp, Finishes | `mirror_stream` and the lambda in `run_stream` |
| recorder | RecorderTakes, RecorderEnds | `Recording` |
| command thread | Poll, NoMoreLines, StopCommand, RecordCommand, RemoveCommand, Erased, AddCommand | the lambda `commands` |
| main | MainStops, MainResetsRecording, MainStopsSessions, MainCloses, MainClears, MainExits | the tail of `run_stream` and `~Media` |

A failing producer sets the flag, reports the error and closes the media in
three steps, because other threads act on the flag in between. Erasing a session
is two steps, stop and join. `thread[r].pc = "reported"` is between the last event
of a session and the assignment of `finished`.

Abstractions: no clocks, so a deadline (eight seconds without a packet, a request
that times out, the length of a recording) is a step that may always be taken,
and the checks of a packet's age are part of `Breaks`; encoding and pacing are
data; the queues between a network demuxer and its decoders are inside a
producer; `media_ready` and the metrics are not reported because no property is
about them; the packets a mirror thread skips before its first keyframe are
taken like others (its queue starts with a keyframe, which `Feed` shows); the
session map is cleared in one step once its threads have ended; a TV is set up
when its answer arrives, so a lost answer leaves no trace.

### Launches

`saved` and `disk` are the record in memory and the one in the settings file, `full` says
that a save would fail, `task` is `self.task`, `worker[w]` a `run` task, `manual[s]` a
`play_manual` task with its local variables, `edges` is `manual_edges`, `calls[c]` a caller
of kick, cancel, stop_pending (with the Stop that follows it) or close, `ctl` the
generation, source and TVs of the controller, `game` the game that is live.

| actor | actions | code |
|---|---|---|
| worker | WorkerBegins, WorkerReturns, WorkerFetches, WorkerDefers, WorkerClaims, WorkerStopped, WorkerPlays, WorkerAdds, WorkerPlayed, WorkerFails, WorkerUnwinds | `run`, `check_once` |
| explicit launch | Press, ManualStarts, ManualCommands, ManualHalted, ManualFetches, ManualJoined, ManualClaims, ManualStopped, ManualPlays, ManualAdds, ManualPlayed, ManualFails, ManualUnwinds | `play_current`, `play_manual` |
| commands | Kick, Cancel, Stop, Close, KickIsIdle, StopsWorker, CancelRefused, KickArms, StopsManual, Drained, StopAbandoned | `kick`, `cancel`, `stop_pending`, `close`, `stop_manual`, `stop_worker`, and the Stop of `supervisor_control` |
| environment | BareStop, OtherPlay, EngineExits, DeadlinePasses, NextGame, DiskFills, Crash, Exits, Restart | other users of the controller; the clock; the disk; the process |

A `pc` is the await at which a task is suspended: `fetch` the catalog, `lock` the
locks, `stop` the controller's Stop, `vpn` the check of the gateway, `play` and `adding` the
controller's Play, `unwind` an exception that has not reached its handler, `halt` and `drain`
the two gathers of a command.

Abstractions: the counters `generation` and `manual_epoch` are only compared for
equality with a task's copy, so each task has a flag that says whether its copy is
current. The statuses idle, expired and error, which differ in their text, are
"ended". A window is open or over; the clock moves it, in memory and in the file.
A catalog is fresh as long as the game has not changed, and every check may fail at any
time. `configuration_lock` and `Controller.lock` are taken together or in this
order by everybody, so one lock stands for both. Locks are not queues here: any waiter
may get a lock, which allows more than the code does. A disk that is full stays so
until a restart, and a failed save changes neither record. Requests that fail
their validation change nothing and are left out. A failed Play leaves the
controller as it is, and `EngineExits` may clear it next. Of a Play or Stop of the controller
only the generation, the source and the TVs are kept; `Playback` has the rest.

### Direct video: Owned, HlsStream, EnginePlayer, DirectVideo

A direct video is a session that owns a producer (the stream of segments), an origin (the
listener) and a player (a worker process). To a session each of them is the same thing, which
`Owned` states as a record: `start()` was not called, runs, returned or raised; `close()` was
asked for; something is held; a failure was seen; it is closed, with or without an
error. `HlsStream` and `EnginePlayer` are refined to it by `StreamView` and
`WorkerView`, `DirectVideo` is built from three instances of it, and is by `View` one itself,
which is what `Playback` takes a session for.

`HlsStream`: `cmd` is one record per process, with the coroutine that runs it, the process
group and the task that terminates it, because they end in any order. `startup` goes through
the batches of `_start` (resolve, probe, encoder, its retry) to the conversion. A cancelled spawn
waits in `adopt` for a process that may still be created. The group outlives its leader
("leaderless"), and a SIGKILL may fail to end it ("stuck"). `Jobs` is `_jobs`: the cleanup stops
every job in it and then empties it, also of those that are stuck, which no error tells; only a
conversion that could not be ended and a directory that could not be removed are told.

`EnginePlayer`: start with the adoption of a late process, the reader, the watchdog, and
close with its cleanup; the events of the worker are data except for `ready`, `finished` and the error.

`DirectVideo`: `ptask`, `ctask`, `watch` and `sclose` are the four tasks of a session,
`prepare` and `connect` what the callers got. Cancelling a task acts where it waits:
a `wait_for` whose result is there returns it, and the task goes on. A caller may also be
cancelled where it awaits `close()`, after a failure or a first cancellation (`Abandons`): it is
through at once, with the failure untold and the resources still held, and `close()` goes on. The first
segment is cut into pieces; the TV fetches ranges of them in any order, breaks some off,
and the listener remembers a bounded number of merged ranges.

Abstractions: no process identifier is used again within a session; unlinking the worker's
configuration does not fail; a caller that was cancelled a second time is through;
HTTP headers, counters, arguments and what ffprobe says are data; clocks are
steps that may come at any time.

### Desktop

`user[u]` is a user's request at its await, `closer` a close, `tube` the task
`prepare_youtube`; `browserLock` and `controlLock` are the two locks; `call` is the call that
holds the companion's lock, `wire` the commands that Chrome has not executed and `replies`
the answers that were not read. A command times out at any time; the connection may be
lost at any time, with what was written lost or still executed; Chrome may execute a
command and answer with an error. A fullscreen (of a user or of `prepare_youtube`) and a paste
pause the preview's input, deliver keys and resume it, `held` saying how far they are: each of
the three may fail or time out, and a cancellation interrupts the first two and goes on to the
third. A failure of the third is not told and leaves the input paused, which `resumed` remembers. A
fullscreen shields the third from cancellation, a paste does not.

Abstractions: Chrome executes what it was sent in order; the requests of users hold
`Controller.lock`, so that one is under way at a time (a close is not one of them);
links that a user follows in the preview are left out, since the code cannot know
of them and the address it remembers is that of the last request; a page that is a YouTube page
is a free choice; what a user is told in the end is left out. Zoom, play and pause, the preview's own
connection and the graphics report are left out: they do not touch this state.

### Measurements and Supervisor

`Measurements` keeps of playback what excludes a measurement: the current and the pending
stream, those being torn down, and whether the browser runs. `job[j]` is the task of a
measurement and `proc[j]` its child; a cancellation while the child is spawned adopts it
("adopt") and reaps it. `told[j]` says why the task is to end: a cancellation, another one, its time
limit, or a child that it gave up by itself. A second reason interrupts `await process.wait()` after
the kill: the task is over and its child "killed", which dies by itself (`Dies`) some time
later. `writes[e]` is the recording that media process `e` was told to
write, which lets late reports name an earlier one. A report ends that recording if it is the
current one; a refused command of any kind, also one that added a TV, and a failed source
end the current one too, although the engine goes on and still writes it (`Fails`).
Abstractions: a media process takes a command at once; an event that ends a recording and the task
of `Recordings.finish` that it begins are one step, because asyncio runs that task before
any request that comes later; what an earlier measurement has killed is not followed once the next
one begins; `Recordings.close` at shutdown, which ends with the process, is left out.

`Supervisor`: a task of requests has a kind and an await; `own` is the measurement it has
started. `probe`, `run`, `status` and `report` are those of FrameProbe, which
users share. The calls that a play and a stop make are `Launches` and `Playback`: here they
return, fail or are cut off by their deadline.

## Runs and bounds

All runs set `CHECK_DEADLOCK FALSE`: Playback, Launches, Desktop and Supervisor stop when
their bounded calls are used up, and Engine, HlsStream, EnginePlayer and DirectVideo when their
process or session has ended. A property that a run checks may be a conjunction, named for
its question; its parts are named below.

**playback_tvs** (661,153 states; two TVs, one channel, one generated video, two processes, three
calls, two concurrent Stops): `Consistent`, which is `TypeOK`; `SessionsAreListed`, a TV
that is sent media can be stopped by naming it, unless its remove is on its way or its stream is
being closed; and `RestingConsistent`, when no call is in progress and there is no stream, nothing
is shown as playing, and what is pending is what an abandoned Play left closing.
`StopReturnsQuiet`, when a Stop returns and nothing was asked
since, the TVs it names are silent, or their remove is in the pipe of the stream that goes on;
`ImplementsLease`, the refinement of `ReceiverLease`. Two TVs are enough for one
to stay while the other joins, leaves or fails; three calls are a Play, a
Play that replaces or extends it and a Stop of either. The only event of a TV is
`error`, which may start stop_failed: the others change what is shown of the TV and the phase, which
is already "connecting" when they come, and are in the configurations of the findings and in the theorems.

**playback_sources** (176,146 states; one TV, a page and a direct video, three processes, three
calls, two concurrent Stops, fair; events as in playback_tvs): `ExclusiveReceivers`; `NoneLost`
(`NoOrphan`, `CurrentNotClosing`): a process that runs and was not told to end has an owner;
`SupersededNeverAdds`; and the liveness `CallsReturn` (`StopReturns`, `PlayReturns`) and
`ClosesEnd` (`TeardownEnds`, `ClosedIsReaped`: what was told to stop stops, unless a cancellation
took away the one call that waited for it). Three processes are a current stream, its replacement and one still
being closed; a page and a direct video are the two kinds of source that differ in
what they await.

`RestingConsistent` holds in playback_tvs, which has no page and no direct video;
with them it is what two of the findings violate.

**engine_tvs** (two TVs with two port slots, a video and a sound producer, queues
of one packet, two packets): `ThreadsOwned` (`Owned`, `PortsExclusive`), `TornDown`,
`EndsAreTold` (`StarvedOnlyIfEnding`, `FailureIsReported`). A queue of one overflows with the second
packet; sessions are unbounded (a TV may be added and removed for ever).

**engine_live** (a generated video, one TV and the recorder, two packets, queues of one
packet, fair): `QueuesKept`, which is `TypeOK` and `Accounted`, the byte count of a queue is
that of its packets; `ImplementsFeed`, the refinement; `EngineEnds` (`EngineExits`,
`RemoveReturns`, `SetIsTorn`). Two packets are
enough for an overflow and for a reader that subscribes between them; a gap in the
middle of a longer run needs three, which the theorem `FeedImplemented` covers.

**launches_auto** (two TVs, one game, two workers, one explicit launch, two callers, two
Plays or Stops, crashes, Stops that are given up): `TasksOwned`, which is `TypeOK` and `WorkerOwned`,
a worker that runs is the one the next command cancels; `AtMostOneAttempt`; `CloseKeepsWindow`,
shutdown keeps the window in the file; `OthersUntouched`, no step of a launch takes the
stream from a TV it was not asked for; `ReturnsQuiet`, a cancel, a Stop or a close that is
through left no launch under way. Two callers let close() overtake a kick that waits
for the worker to end, and two workers let a cancelled one still unwind beside the
next. One game is enough for a second attempt at it; the theorem has any number.

**launches_manual** (two TVs, two explicit launches with `join`, one caller, three Plays or
Stops): `OthersUntouched`; `OverruledNeverPlays`, a launch that a user overruled never
plays, however long it waits behind others; `StartedIsOnTVs`, a launch that reports
"started" has the game on all its TVs. Two launches for different TVs queue behind each other, join
and replace; three generations let the second go on from the first one's (the edge)
and a Stop come in between.

**launches_live** (one worker, one launch, one caller, crashes and a full disk, fair):
`CommandsSettle`, which is two things. `CommandsReturn`, there is no circle of waits between the command lock, the manual lock, the
controller's lock and the tasks; `StatusSettles`, an interrupted or cancelled launch does
not leave the status "checking" behind. `Capped` excludes executions in which the bound
on generations, not the code, keeps a Stop waiting.

**resources** (445,450 states; a batch of two commands besides the conversion; a process that
SIGKILL does not end; a directory that cannot be removed): `ClosedIsGone`, one that says it
is closed has no process, no task and no directory except those that could not be ended or removed
(which its error says of the conversion and of the directory), and the directory goes after
everything that writes it (`MediaRemovedLast`);
`StatusIsTrue`, "finished" means that the conversion ended well and was verified, and a failure
is not hidden by the end of the process; `ListedUntilGone`, a process leaves `_jobs` only when
its group is gone, or when the cleanup empties the list after SIGKILL could not end it, and one
that is being created gets there or was not created: an encoder is not
tried again beside one that could not be ended; `PartsAreOwned`, the refinement of `Owned` by both;
`PartsEnd`, both end. Two commands are enough for one to fail while the other is
spawned, runs or is terminated; more of them do not meet each other.

**direct** (467,812 states; a first segment of three pieces, one remembered range):
`ServedUntilClosed`, media are not given up while the listener is open or the worker may
make the TV fetch them; `CallersAreTold`, prepare and connect raise only when nothing is
left, and tell a failure as one, and a caller that was cancelled while it waited for `close()` leaves
that under way; `CompletedIsTrue`; `SessionIsOwned`, the refinement;
`FailureStays`; `SessionEnds`. Three pieces allow ranges that overlap, touch, repeat and
leave a gap; one remembered range makes the limit bite. The theorems have any numbers.

**services** (441,701 states): the three parts do not act on each other in it, `part` says
which runs.
Of `Desktop` (three users' requests, one of them for the other profile, one round of
YouTube): `PageIsRequested`, and `DesktopTrue` (its type invariant, `OneTab`,
`InputResumed`: the input is paused only while an attempt is going to resume it, or after the
command that resumes it failed or was cut off). Three requests are a navigation whose reply is
late, one that changes the profile or the page meanwhile, and a third that would trust the remembered
address. Of `Measurements` (two media processes): `MeasurementsApart` (its type
invariant, `MeasuredAlone`, `NoneLeftRunning`) and `RecordingKept`: what ends a recording is
its own engine or its own time. Two processes are one
that still ends and its successor. Of `Supervisor` (two slots, two measurements):
`ControlKept` (its type invariant, `StopHeard`, `MeasurementOwned`). Two slots and the reserved one
can all be taken, and a second measurement may take the place of the first.
`ServicesEnd` says of all three that what was asked for ends.

The two violation runs and the other configurations of disagreements check one property
each: **native_replacement_stopped** and page_change_engine_died `RestingConsistent` with a direct
video, and with two pages of one browser; **recording_browser_closed** `RecordedBrowserStays`;
cancelled_close `TeardownOwned`, somebody waits for each process that was told to end;
dead_stream_adopted `DeadStreamCleared`; page_change_stopped `StoppedIsNotAdded`; stop_cancels_others
and paste_cut the properties `StopIsScoped` and `PausedDuringAttempt`.

### Fairness

`Playback`: a task that can go on does (the event loop runs ready tasks in order);
each await of a Play or Stop ends because of its timeout; a process that was told to
stop exits, since `Stream.close` kills it after its timeout; a direct video that is
stopping ends, since its cleanup is bounded. Nothing is assumed of TVs, sources
or users.

`Engine`: threads run; a request to a TV is answered or times out; a recording
has a deadline; producers see the stop flag; a read holds finitely many lines, so
the command thread gets back to its poll (strong fairness, because between two
lines it may wait in a join). Nothing makes a TV's streaming end by itself.

`Launches`: every await ends (catalog, VPN and controller calls have timeouts, and a
launch 90 seconds); a lock is granted to each task that keeps asking (strong fairness on
the steps that take a lock, since `asyncio.Lock` serves its waiters in order); the container is
started again after it ended, and close() is followed by the exit. Nobody has to
press anything, and no game has to begin.

`HlsStream`, `EnginePlayer`, `DirectVideo`: a ready task goes on; a command, the start and the
session have time limits and therefore end; a process that was told to end ends or is
given up after its timeout. Nothing is assumed of the TV, of ffmpeg or of the caller: a
session that nobody closes ends by its limit.

`Desktop`: the event loop runs what is ready and each call of the companion times out.
Chrome need not execute or answer anything and the connection need not come back.
`Measurements`: timers fire, children end or are killed at their time limit, a media process
that was told to end does. `Supervisor`: every request has a deadline, a partial line
two seconds.

## Findings

Two are runs of the project; the others are configurations (or, for the last, a
definition) that TLC refutes in the same way.

1. **native_replacement_stopped**: a Stop while direct video replaces a stream leaves the
   replaced stream's TVs and source shown with no stream.
2. **recording_browser_closed**: a request to close the browser looks for a recording before
   it waits for the lock; a recording that was starting when it came loses the browser
   it records.
3. page_change_engine_died: the engine dies while a same-source Play opens
   a page; two checks compare None with None and a TV is listed without a stream.
4. cancelled_close: the caller of a Play that failed is cancelled while the except clause
   awaits `pending.close()`; nobody waits for that process any more, or kills it.
5. dead_stream_adopted: `play_locked` adopts a pending stream whose process
   exited while the previous one was torn down.
6. page_change_stopped: a Stop for the one TV of a Play that is opening a page is
   ignored, and the Play then starts that TV.
7. stop_cancels_others: a Stop of one TV cancels every pending explicit launch, also
   those for other TVs, once one of them names that TV.
8. paste_cut: a paste that is cancelled while it resumes the preview's input leaves it
   paused; unlike a fullscreen's, that command is not shielded.
9. `Measurements!SyncLeavesNothing`: the first Stop, or the time limit, that arrives while a
   sync measurement ends by itself interrupts the close of its own browser.

`PROJECT.json` quotes the lines on both sides of each disagreement.

One more thing the models show is not a disagreement with a document: a Stop of
`supervisor_control` that times out after it ended the manual epoch, and before it
saved, leaves the status "checking" without a task behind it until the next command or
restart. For this reason launches_live has no Stops that are given up.

## Proofs

Theorems hold for any sets of TVs, sources, producers and slots and any bounds,
from the assumption each module states on its constants.

**Playback_proofs.** `TypeCorrect` is `TypeOK`. `SenderCorrect` is the inductive
invariant `SenderInv`, from which `Exclusive` (`ExclusiveReceivers`) follows. Exclusivity is not
inductive: that an add is safe depends on the Play having waited for the processes
it replaced. The invariant says so in parts: `Silent`, only a live process sends, and
none whose close task is done; `OwnedSenders`, one that sends is the current stream,
waits for its close task, or is the session that direct video connects or gives up;
`Alone`, nobody sends beside another or beside a current stream; `Awaited`, a
replacement that no Stop superseded waits for every stream given up; `Streamless`, there
is no current stream while the previous one is replaced; `NativeAlone`, a direct
video connects when nobody sends any more. The generation in `Awaited` is what makes
it true: a Stop that gives another stream up meanwhile also supersedes the Play.

**PlaybackLife_proofs.** `LifeCorrect` adds `LifeInv`, in two halves. `Life` holds
wherever a handler stops: the pending stream is the one the Play in progress created, or one that
an abandoned Play left behind closing (`PendingIsNew`); a running process is current, pending, in
the hands of its Play or
waits for its close task (`Accounted`), and a close task that is done has ended its
process unless it came before it (`TornIsOver`); what sends, and has no remove on its way, is
listed (`Listed`); and a
Stop that nothing came after has left nobody else playing and waits for everything there is to
wait for (`StopsKept`). `At` says what the Play in progress knows at each of its awaits.
Both are stated over the attributes of the Controller, the locals of the Play and the
keys of `retiring` as arguments, because one handler changes these several times between
two awaits: the parts that handlers share (`EndedLeaves`, `ConnectLives`, `AdoptLives`,
`LaunchLives` and so on) lead from one such triple to the next, and a handler's proof chains them.

From it follow `NoneIsLost` (`NoneLost`), `SessionsListed`,
`StopSilences` (`StopReturnsQuiet`), `Superseded`
(`SupersededNeverAdds`) and `LeaseImplemented`, the refinement: one step gives one free
TV to a stream or only takes TVs away. `ConsistentSources` is `Consistent` with
`Pages = {} /\ Videos = {}`. With pages or direct videos a Controller at rest may show targets
of the past, which the findings record and the configurations named there show; the run
of `Consistent` has neither.

**Engine_proofs.** `ThreadsCorrect` is the inductive invariant: `QueueShape` and
`ThreadShape` (types) and `EngineInv`, whose parts are `Owned`; `Slotted`, two sessions in the
map never have one slot, also when their threads ended; `Asked`, where a thread is
tells whether the TV is set up or torn down; `Phased`, what the main thread has
done tells which flags are set and which threads are over; `Caused`, a failure is
being reported by a producer or was reported; and `StarvedOnlyIfEnding`. From it
follow `NoStrayThread`, `Ports`, `Torn`, `NotStarved` and `Reported`. None of these is
inductive alone: `PortsExclusive` speaks of running threads only, but the slot check
compares sessions; `FailureIsReported` needs that producers are joined before the exit
and that a failed producer goes through its report.

`FeedImplemented`, in the same module, is `Spec => ImplementsFeed`. Every step either
publishes, or leaves the log alone and takes a packet, opens a subscription or cuts
some (`StepKinds`). The invariant is `FeedInv`: `Attached`, subscriptions belong to
threads that use them; and `Order`, the queue of a live subscription is the end of
the log, empty until the first keyframe, starting with it until it is first
read, and then starting after the last packet taken. `RunGrows`, `RunSkips` and
`RunShrinks` say that publishing and taking keep that shape.

`QueuesKeptProved` is `QueuesKept`: the type invariant and `Accounted`. Publishing and
taking change the byte count and the queue by one packet at opposite ends, so the
proof needs the total of a queue as a sum: `SumsExist` and `SumsAreNat` say that the recursive function
in `Total` is one, of natural numbers; `SumsShift` that sums of the same elements counted from
another place differ by a constant; and `TotalAppend`, `TotalKept` and `TotalTail` apply this to a
packet added, to a longer log and to a packet taken. `Counted` is then inductive: the
count is the total of the queue, within the limits.

**Launches_proofs.** `TypeCorrect` is `TypeOK`. `OneAttempt` is `AtMostOneAttempt`, from the
inductive invariant `AttemptInv`. A worker looks at the record in memory and the
theorem speaks of the file, so the invariant says: while the process runs, both name
the same last game (`SavedIsOnDisk`); they never name a game that has not begun
(`NoFutureGame`), so that the game a worker is about to claim, if it is not the one named, is
a later one; and nothing writes while the process is down (`DownIsQuiet`). Only
`WorkerClaims` and the two steps by which an explicit launch claims or joins write the
game; `KeepsAttempts` settles all the others at once.

`TasksCorrect` adds `TaskInv`: each lock has one holder, and a launch keeps what its
place requires (`LockInv`); a worker that may still launch is the one `task` names; there
is none while somebody holds the command lock (`CommandIsAlone`); and a command that waits for
explicit launches waits for all that are past the queue (`AllAwaited`). `TasksOwnedProved`
and `ReturnsQuietProved` follow. `CloseKeepsWindowProved` needs no invariant but the types.

`LaunchCorrect` adds `KnowInv`. The generation of the Controller moves on with each Play
and Stop, and a launch is current through edges from the generation it began with to a
later one. `Generational`: no edge leads from a generation that a launch has owned since it got the
manual lock, so one that is current owns the latest (`CurrentIsLatest`). `WorkerKnows` and
`ManualKnows`: as long as nobody asked for anything, the TVs that play are those
the launch's checks have shown. `OthersUntouchedProved` and `StartedIsOnTVsProved` follow.

`OverruledProved` is about launches that wait while others play, so it cannot rest on
owning the latest generation. A Stop or a Cancel leaves a cut: no edge leads across the
generation it made, and no launch owns generations on both sides (`Cut`). A launch on the
far side is never current again (`CutOff`, an induction along the edges with `Least`), and no
step adds an edge that crosses (`CutKept`, `DeadStep`). That the recursive function `Rebase` exists
at all, also where edges might form a circle, is `RebaseIs`.

**DirectVideo_proofs.** `SessionCorrect` is the inductive invariant `IInv`: `Resourceful`, a
resource that was not started has nothing; `InTurn`, how far the cleanup has come tells
which resources are shut; `Serving`, a listener has a prepared stream behind it until its
turn comes; `Untouched`, `Truthful` and `Complete`, what the state and the callers' results
say. `StepMoves` says first that in any step a resource stays as it is or makes one of
the moves of `Owned`, so that the other lemmas need not open the resources again.
`Served`, `Told`, `CompletedProved` and `FailureStaysProved` follow. `ServedUntilClosed` is
not inductive: that the stream is open while the TV may fetch depends on the tasks being over
before the first resource is closed. `SessionImplementsOwned` is the refinement: every step of a
session is a step of `Owned` on `View` or leaves it alone.

**Resources_proofs.** `WorkerCorrect` and `StreamCorrect` are the inductive invariants of the two
owners of processes, the second for any number of commands in a batch (`StreamAssumption`: finitely
many, at least one, none of them the conversion; every batch of the code runs a command).
`WorkerInv`: `Begun`, what exists before and after start; `Called`, the task of close; `Dealt`,
what the cleanup has got through with.
`StreamInv` has six parts: `AllProper`, a process is listed exactly
from its creation to its end and only a listed one is terminated; `Staged`, only the commands of the
current stage have begun, and those that ended there left nothing or survived SIGKILL;
`Watched`, the conversion is watched beyond the startup, and what it says was verified; `Ordered` and
`Emptied`, how far the cleanup has come tells which tasks are over, that nothing is being created,
that every process is stopped; `Finished`. `ClosedIsGone` is not inductive: that nothing is
created after the cleanup looked depends on `_spawn` refusing from `_close_task` on, and that a
retry has nothing beside it on the batch being over (`StageLeavesNothing`).
Two lemmas keep the rest short: `Processes`, a step changes the record of a process as that process
goes on (`Goes`) or begins one where there is none (`Coming`), and then only
for a command, a stage or the verification; and `StreamMoves`, which step writes what. From them
follow `ClosedIsGoneProved`, `StatusIsTrueProved` and
`ListedUntilGoneProved`. `StreamImplementsOwned` and
`WorkerImplementsOwned` are the refinements, together `PartsAreOwnedProved`: with
`SessionImplementsOwned` the session is built from
resources that are proved to be what it takes them for.

**Desktop_proofs.** `PageIsRequestedProved` and `DesktopTrueProved`, from `DInv`. The page is
right because of four things together: one request is under way and holds
`control_lock` from the moment it sends (`OneUser`, `Locked`); commands are executed in the order of their numbers and
answered after that (`InOrder`); while an address is remembered nothing is on the wire
that would change the page (`Known`); and the request that waits has the last number, so
an acknowledgement with it means that the wire is empty (`Asked`). `Tabs` counts the
commands that may still make a tab. The input is what it should be because whoever pauses it holds
`control_lock` until the attempt is over (`Attempted`), and the attempt passes its last step
whatever interrupts it (`Paused`).

**Services_proofs.** `ApartProved` and `RecordingKeptProved`, from `MInv`: nobody has
the lock while something is measured, only a Play has a pending stream, and a
recording's engine is its own or is playing or being torn down; a child that a finished measurement
left was killed, and its task told twice (`Unwound`). `FreshOne` counts: with one
number more than there are processes a new recording finds one that nobody writes.
`ControlKeptProved`, from `CInv`: the requests that are no Stop are
at most `MaxRequests`, and all of them one more (`BoundedKept`, over cardinalities); a request
owns what it has started until that is over; the report is of the latest
measurement.

Induction. The library's induction theorems take an operator as a parameter and cannot be
used here. Where a proof needs an induction over numbers it takes the least
counterexample instead (`Least`, from `WFMin`), and where it needs what a recursive function
computes it first shows that a function obeying the equation exists (`RebaseIs`,
`SumsExist`).

Only model-checked: liveness (the proof system does not handle fairness and
`ENABLED` here), that is `CallsReturn`, `ClosesEnd`, `EngineEnds`, `CommandsSettle`,
`PartsEnd`, `SessionEnds` and `ServicesEnd`. `Consistent` is proved without pages and videos
(`ConsistentSources`): with them its part `RestingConsistent` is violated, as the findings show.
Every other safety property that a passing run checks is a theorem.

## Plan

Done: `Playback` with `ReceiverLease`, `Engine` with `Feed`, `Launches`, the direct video
(`Owned`, `HlsStream`, `EnginePlayer`, `DirectVideo`), `Desktop`, `Measurements` and `Supervisor`,
each with proofs of all its safety properties.

What would come next: the
bounded queues between a capture thread and its decoders in `src/media.cpp`, and whether
one full track starves the other; a composition of `Playback`'s view of a process with
`Engine`, for events of a removed session that arrive after the TV was added again.

Hazards that no property covers are listed in `PROJECT.json` with the reason: an event of a
session that was removed and added again, of which no document says what should happen,
and the disagreements above that are not runs.

## Not modelled

Pairing, discovery, RTSP and RTP formats, cryptography, encoding, drawing, what is
measured in a picture, what yt-dlp and ffprobe say of a page and the plan made of it, the
native AirPlay trials, settings validation, the telemetry of the Supervisor's
control, the HTTP and MQTT adapters, the web page, the Surfshark gateway and the vendored pairing library: sequential protocol,
media or formatting code in which no order of steps is at stake, or calls that
Playback already makes in any order. `PROJECT.json` gives the reason for each.
