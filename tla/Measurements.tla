---------------------------- MODULE Measurements ----------------------------
(***************************************************************************)
(* What may run besides playback, and what Controller.lock keeps apart:    *)
(* recordings (class Recordings of service/recordings.py) and the three    *)
(* measurements, each a background task around a child process:            *)
(* "sync" (class Diagnostics of service/diagnostics.py, with a browser of  *)
(* its own), "frames" (class FrameProbe of service/frame_probe.py) and     *)
(* "picture" (class PictureAnalysis of service/picture_cadence.py).        *)
(*                                                                         *)
(*   lock     who holds Controller.lock across an await;                   *)
(*   stream, pend, retiring  Controller.stream, .pending (0: None) and     *)
(*            .retiring, whose members are being torn down;                *)
(*   browser  Browser.running; request: a request to close it;              *)
(*   up       the media processes that run, ending: those that a recording *)
(*            had started and told to end;                                 *)
(*   rec      Recordings.current: its number, 0 for none; rstream, owned,  *)
(*            timer its attributes ("due": its time is over);              *)
(*   writes   the recording that each media process is told to write;      *)
(*   job      the task of each measurement, proc its child process, told   *)
(*            why it is to end: a cancellation, "again" another one, its   *)
(*            time "limit", or the "child", which it gave up by itself;    *)
(*   desk     the sync measurement's own browser.                          *)
(*                                                                         *)
(* Playback itself is module Playback.  A media process takes a command at *)
(* once: its pipe is never full.  An event that ends a recording begins a  *)
(* task that does: asyncio runs it before a request that comes later, so   *)
(* that they are one step.                                                 *)
(***************************************************************************)
EXTENDS Naturals, FiniteSets

CONSTANTS MaxEngines    \* a bound: how many media processes run at a time

ASSUME MeasurementsAssumption == MaxEngines \in Nat

VARIABLES lock, stream, pend, retiring, browser, request, up, ending,
          rec, rstream, owned, timer, writes, job, proc, told, desk

playback == <<stream, pend, retiring>>
media == <<up, ending>>
recording == <<rec, rstream, owned, timer, writes>>
jobs == <<job, proc, told, desk>>
mvars == <<lock, playback, browser, request, media, recording, jobs>>

Jobs == {"sync", "frames", "picture"}
Engines == 1..MaxEngines
Recs == 1..MaxEngines + 1       \* enough for a fresh one
Active(j) == job[j] # "none"

MTypeOK ==
    /\ lock \in {"free", "play", "record", "close", "open"}
    /\ stream \in Engines \cup {0} /\ pend \in Engines \cup {0}
    /\ browser \in BOOLEAN /\ request \in {"none", "asked", "closing"}
    /\ up \subseteq Engines /\ ending \subseteq up /\ retiring \subseteq up
    /\ rec \in Recs \cup {0} /\ rstream \in Engines \cup {0} /\ owned \in BOOLEAN
    /\ timer \in {"none", "set", "due"} /\ writes \in [Engines -> Recs \cup {0}]
    /\ job \in [Jobs -> {"none", "new", "launch", "adopt", "run", "reap", "desk", "clean"}]
    /\ proc \in [Jobs -> {"none", "starting", "live", "killed"}]
    /\ told \in [Jobs -> SUBSET {"cancel", "again", "limit", "child"}]
    /\ desk \in {"none", "up", "left"}

MInit ==
    /\ lock = "free" /\ stream = 0 /\ pend = 0 /\ retiring = {} /\ browser = FALSE
    /\ request = "none" /\ up = {} /\ ending = {}
    /\ rec = 0 /\ rstream = 0 /\ owned = FALSE /\ timer = "none"
    /\ writes = [e \in Engines |-> 0]
    /\ job = [j \in Jobs |-> "none"] /\ proc = job
    /\ told = [j \in Jobs |-> {}] /\ desk = "none"

\* require_no_diagnostic, and the checks with which each operation begins under the lock.
\* Mutant: Play does not ask for measurements.
NoDiagnostic == \A j \in Jobs : ~Active(j)
PlayUnchecked == lock = "free" /\ (rec = 0 \/ ~owned)
MayPlay == lock = "free" /\ NoDiagnostic /\ (rec = 0 \/ ~owned)
Quiet == lock = "free" /\ NoDiagnostic /\ rec = 0 /\ stream = 0 /\ pend = 0 /\ retiring = {}
MayRecord == lock = "free" /\ NoDiagnostic /\ rec = 0 /\ pend = 0 /\ retiring = {}

\* A new media process, and a new recording; a number is used again when nobody knows it.
Unused == Engines \ (up \cup {stream, pend, rstream})
Spawns(e) == e \in Unused /\ (\A f \in Unused : e <= f) /\ up' = up \cup {e}
FreshRec == CHOOSE r \in Recs : r # rec /\ \A e \in Engines : writes[e] # r

-----------------------------------------------------------------------------
\* Recordings.finish(): the recording is given up; an engine of its own is told to end.
Finish ==
    /\ rec' = 0 /\ rstream' = 0 /\ owned' = FALSE /\ timer' = "none"
    /\ ending' = (IF owned THEN ending \cup {rstream} ELSE ending) \cap up'

\* Recordings.start(): with the engine of the playback, or one of its own.
RecordPlayback ==
    /\ MayRecord /\ stream # 0
    /\ rec' = FreshRec /\ rstream' = stream /\ owned' = FALSE
    /\ timer' = "set"
    /\ writes' = IF writes[stream] = 0 THEN [writes EXCEPT ![stream] = rec'] ELSE writes
    /\ UNCHANGED <<lock, playback, browser, request, media, jobs>>

RecordStarts(e) ==
    /\ MayRecord /\ stream = 0 /\ Spawns(e)
    /\ lock' = "record" /\ rec' = FreshRec /\ rstream' = e /\ owned' = TRUE
    /\ UNCHANGED <<playback, browser, request, ending, timer, writes, jobs>>

\* Stream.start() has returned, or has failed, or what it started was given up meanwhile.
RecordStarted ==
    /\ lock = "record" /\ lock' = "free" /\ UNCHANGED up
    /\ \/ /\ rec # 0 /\ rstream \in up
          /\ timer' = "set" /\ writes' = [writes EXCEPT ![rstream] = rec]
          /\ UNCHANGED <<rec, rstream, owned, ending>>
       \/ Finish /\ UNCHANGED writes
    /\ UNCHANGED <<playback, browser, request, jobs>>

TimeIsOver ==
    /\ timer = "set" /\ timer' = "due"
    /\ UNCHANGED <<lock, playback, browser, request, media, rec, rstream, owned, writes, jobs>>
TimedOut ==
    /\ timer = "due" /\ UNCHANGED up /\ Finish
    /\ UNCHANGED <<lock, playback, browser, request, writes, jobs>>

\* An engine reports: it has written its recording; it refused a command, of whatever kind, or
\* its source failed; or it exited.  event() of Recordings, and of Controller.
\* Mutant: the events of every engine count.
HearsAll(e) == rec # 0
Hears(e) == rec # 0 /\ e = rstream
Reports(e) ==
    /\ e \in up /\ writes[e] # 0 /\ UNCHANGED up
    /\ writes' = [writes EXCEPT ![e] = 0]
    /\ IF Hears(e) /\ writes[e] = rec THEN Finish
       ELSE UNCHANGED <<rec, rstream, owned, timer, ending>>
    /\ UNCHANGED <<lock, playback, browser, request, jobs>>

Fails(e) ==
    /\ Hears(e) /\ e \in up /\ UNCHANGED up
    /\ Finish
    /\ UNCHANGED <<lock, playback, browser, request, writes, jobs>>

Exits(e) ==
    /\ e \in up /\ up' = up \ {e}
    /\ IF Hears(e) THEN Finish
       ELSE ending' = ending \ {e} /\ UNCHANGED <<rec, rstream, owned, timer>>
    /\ retiring' = retiring \ {e} /\ stream' = (IF stream = e THEN 0 ELSE stream)
    /\ writes' = [writes EXCEPT ![e] = 0]
    /\ UNCHANGED <<lock, pend, browser, request, jobs>>

-----------------------------------------------------------------------------
\* Controller: play_locked with its new engine, which is ready or fails, stop() and the
\* teardown; open_browser, close_browser, and the changes of settings that close the browser.
Play(e) ==
    /\ MayPlay /\ Spawns(e)
    /\ lock' = "play" /\ pend' = e /\ browser' \in {browser, TRUE}
    /\ UNCHANGED <<stream, retiring, request, ending, recording, jobs>>

Played ==
    /\ lock = "play" /\ lock' = "free"
    /\ \/ pend \in up /\ stream' = pend /\ retiring' = retiring \cup ({stream} \cap up)
       \/ retiring' = retiring \cup ({pend} \cap up) /\ UNCHANGED stream
    /\ pend' = 0
    /\ UNCHANGED <<browser, request, media, recording, jobs>>

StopsPlayback ==
    /\ stream' = 0 /\ pend' = 0 /\ retiring' = retiring \cup ({stream, pend} \cap up)
    /\ UNCHANGED <<browser, media, recording>>

OpenBrowser ==
    /\ lock = "free" /\ NoDiagnostic /\ lock' = "open"
    /\ UNCHANGED <<playback, browser, request, media, recording, jobs>>
Opened ==
    /\ lock = "open" /\ lock' = "free" /\ browser' \in {browser, TRUE}
    /\ UNCHANGED <<playback, request, media, recording, jobs>>

\* The request stops a browser that plays and waits for the lock, or has it at once.  It
\* checks for a recording before it has the lock, for measurements again with it.
CloseBrowser ==
    /\ request = "none" /\ rec = 0 /\ NoDiagnostic
    /\ \/ stream # 0 /\ StopsPlayback /\ request' = "asked" /\ UNCHANGED lock
       \/ lock # "free" /\ request' = "asked"
          /\ UNCHANGED <<lock, playback, browser, media, recording>>
       \/ lock = "free" /\ lock' = "close" /\ request' = "closing"
          /\ UNCHANGED <<playback, browser, media, recording>>
    /\ UNCHANGED jobs
CloseStarts ==
    /\ request = "asked" /\ lock = "free"
    /\ \/ NoDiagnostic /\ lock' = "close" /\ request' = "closing"
       \/ ~NoDiagnostic /\ request' = "none" /\ UNCHANGED lock
    /\ UNCHANGED <<playback, browser, media, recording, jobs>>
Reconfigure ==
    /\ Quiet /\ request = "none" /\ lock' = "close" /\ request' = "closing"
    /\ UNCHANGED <<playback, browser, media, recording, jobs>>
Closed ==
    /\ request = "closing" /\ request' = "none" /\ lock' = "free" /\ browser' = FALSE
    /\ UNCHANGED <<playback, media, recording, jobs>>

-----------------------------------------------------------------------------
\* start() of the three measurements; what earlier ones have killed is not followed further.
Measure(j) ==
    /\ Quiet
    /\ CASE j = "sync" -> ~browser [] j = "frames" -> browser [] OTHER -> TRUE
    /\ job' = [job EXCEPT ![j] = "new"]
    /\ proc' = [k \in Jobs |-> "none"] /\ told' = [k \in Jobs |-> {}]
    /\ UNCHANGED <<lock, playback, browser, request, media, recording, desk>>

\* The task goes on to a step, with its child; it is told to end once more if why is not empty.
Job(j, step, child, why) ==
    /\ job' = [job EXCEPT ![j] = step] /\ proc' = [proc EXCEPT ![j] = child]
    /\ told' = [told EXCEPT ![j] = IF step = "none" /\ child = "none" THEN {} ELSE @ \cup why]
Unwinds(j, child, why) == Job(j, IF j = "sync" /\ desk = "up" THEN "clean" ELSE "none", child, why)

\* The task runs until its child is spawned, and again until it ends; the sync measurement
\* has several children, and the later ones use a browser of its own, which it closes last.
JobRuns(j) ==
    /\ \/ job[j] = "new" /\ Job(j, "launch", "starting", {}) /\ UNCHANGED desk
       \/ job[j] = "launch" /\ Job(j, "run", "live", {}) /\ UNCHANGED desk
       \/ job[j] \in {"launch", "desk", "reap"} /\ Unwinds(j, "none", {}) /\ UNCHANGED desk
       \/ job[j] = "adopt" /\ Job(j, "reap", "killed", {}) /\ UNCHANGED desk
       \/ job[j] = "run" /\ Job(j, IF j = "sync" THEN "desk" ELSE "none", "none", {}) /\ UNCHANGED desk
       \/ job[j] = "desk" /\ Job(j, "launch", "starting", {}) /\ desk' \in {desk, "up"}
       \/ job[j] = "clean" /\ Job(j, "none", proc[j], {}) /\ desk' = "none"
    /\ UNCHANGED <<lock, playback, browser, request, media, recording>>
\* A child that takes too long or says too much is killed.
Breaks(j) ==
    /\ job[j] = "run" /\ Job(j, "reap", "killed", {"child"})
    /\ UNCHANGED <<lock, playback, browser, request, media, recording, desk>>

\* The task is cancelled: by Stop or Cancel, or when its time is over, even while it ends.  A
\* child that is being spawned is waited for first; the second time it is killed as it comes.
\* A child that was killed is not waited for any more: it dies by itself.
\* Mutant: the child that is being spawned is forgotten.
AdoptedNever(j, why) ==
    IF job[j] = "launch" THEN Job(j, "none", "starting", why) ELSE Job(j, "reap", "killed", why)
Adopted(j, why) ==
    IF job[j] = "launch" THEN Job(j, "adopt", "starting", why) ELSE Job(j, "reap", "killed", why)
JobCancelled(j, why) ==
    \/ job[j] = "new" /\ Job(j, "none", "none", why) /\ UNCHANGED desk
    \/ job[j] \in {"launch", "run"} /\ Adopted(j, why) /\ UNCHANGED desk
    \/ job[j] = "desk" /\ Unwinds(j, "none", why) /\ UNCHANGED desk
    \/ job[j] = "adopt" /\ Job(j, "reap", "killed", why) /\ UNCHANGED desk
    \/ job[j] = "reap" /\ Unwinds(j, "killed", why) /\ UNCHANGED desk
    \/ job[j] = "clean" /\ Job(j, "none", proc[j], why) /\ desk' = "left"

\* cancel() and close() of a measurement; Diagnostics cancels its task only once.
Cancel(j) ==
    /\ Active(j) /\ (j = "sync" => told[j] \subseteq {"child"})
    /\ JobCancelled(j, {IF "cancel" \in told[j] THEN "again" ELSE "cancel"})
    /\ UNCHANGED <<lock, playback, browser, request, media, recording>>
\* Its time is over: only that of the sync measurement includes the end of a killed child.
Expires(j) ==
    /\ job[j] \notin {"none", "new"} /\ "limit" \notin told[j] /\ (job[j] = "reap" => j = "sync")
    /\ JobCancelled(j, {"limit"})
    /\ UNCHANGED <<lock, playback, browser, request, media, recording>>
Dies(j) ==
    /\ job[j] \in {"none", "clean"} /\ proc[j] = "killed" /\ Job(j, job[j], "none", {})
    /\ UNCHANGED <<lock, playback, browser, request, media, recording, desk>>

\* stop(): a sync measurement is cancelled first.
Stop ==
    /\ ~Active("sync") /\ StopsPlayback /\ UNCHANGED <<lock, request, jobs>>

-----------------------------------------------------------------------------
RecordingSteps == RecordStarted \/ TimeIsOver \/ TimedOut
PlaybackSteps == Played \/ Opened \/ Closed \/ CloseStarts \/ \E e \in ending \cup retiring : Exits(e)
MeasurementsNext ==
    \/ RecordPlayback \/ RecordingSteps \/ PlaybackSteps \/ Stop
    \/ OpenBrowser \/ CloseBrowser \/ Reconfigure
    \/ \E e \in Engines : RecordStarts(e) \/ Play(e) \/ Reports(e) \/ Fails(e) \/ Exits(e)
    \/ \E j \in Jobs : Measure(j) \/ JobRuns(j) \/ Breaks(j) \/ Cancel(j) \/ Expires(j) \/ Dies(j)

MeasurementsSpec == MInit /\ [][MeasurementsNext]_mvars

\* asyncio runs what is ready, timers fire, and a process that is told to end does.
MeasurementsFairness ==
    /\ WF_mvars(RecordingSteps) /\ WF_mvars(PlaybackSteps)
    /\ \A j \in Jobs : WF_mvars(Expires(j)) /\ WF_mvars(JobRuns(j))

-----------------------------------------------------------------------------
\* While something is measured nothing else uses the encoder, the display or the sound: no
\* playback, recording or other measurement; the browser is closed for sync, open for frames.
MeasuredAlone ==
    \A j \in Jobs : Active(j) =>
        /\ stream = 0 /\ pend = 0 /\ retiring = {} /\ rec = 0
        /\ \A k \in Jobs \ {j} : ~Active(k)
        /\ j = "sync" => ~browser
        /\ j = "frames" => browser

\* Whoever is gone has left no process: a measurement no child, unless it was told twice to
\* end, and then one that it had killed; and a media process that runs is that of the playback
\* or the recording, or is ending.
ToldTwice(j) == \E w, v \in told[j] : w # v
NoneLeftRunning ==
    /\ \A j \in Jobs : ~Active(j) => proc[j] = "none" \/ (proc[j] = "killed" /\ ToldTwice(j))
    /\ up \subseteq {stream, pend, rstream} \cup ending \cup retiring

\* What is measured is measured alone and leaves nothing behind.
MeasurementsApart == MTypeOK /\ MeasuredAlone /\ NoneLeftRunning

\* A recording ends when its own engine has written it, has failed or is gone, at its own time,
\* or when it could not be started: the report of an earlier one, also of the same engine, and
\* whatever another engine says never end it.
Written(e) == Reports(e) /\ writes[e] = rec
RecordingKept ==
    [][rec # 0 /\ rec' # rec =>
        TimedOut \/ RecordStarted \/ Written(rstream) \/ Fails(rstream) \/ Exits(rstream)]_mvars

\* Measurements and recordings end, whatever they wait for; one is over before the next begins.
MeasurementsSettled == NoDiagnostic /\ rec = 0
MeasurementsEnd == []<>MeasurementsSettled

\* Refuted: while something is recorded no request closes the browser, as the check with
\* which close_browser begins (main.py:173) says.
RecordedBrowserStays == [][rec # 0 /\ rec' = rec /\ browser => browser']_mvars
\* Refuted: a sync measurement that is over has closed its browser.
SyncLeavesNothing == ~Active("sync") => desk = "none"
=============================================================================
