------------------------------ MODULE HlsStream ------------------------------
(***************************************************************************)
(* Preparation and conversion of one video: class NativeHLSStream of       *)
(* service/native_stream.py, as the session runs it (managed_lifecycle).   *)
(*                                                                         *)
(*   hstart    start(); hresult is what its caller got;                    *)
(*   startup, verify, monitor, hclose   the tasks _start,                  *)
(*             _verify_first_segment, _monitor and _cleanup;               *)
(*   cmd       one record per process: the coroutine that runs it (pc,     *)
(*             res), the process group (os), the task that terminates it   *)
(*             (kill), and whether it was put into _jobs (listed);         *)
(*   window    the playlist: none, from the first segment on, or rolled;   *)
(*   hstate, herror, ready, finished   what the session reads;             *)
(*   dir       the private directory of the served media.                  *)
(*                                                                         *)
(* Code between two awaits is one action; what ffmpeg, ffprobe and the     *)
(* resolver answer is a free choice.  Every process has an identity of its *)
(* own: no process identifier is used twice within a session.              *)
(***************************************************************************)
EXTENDS Naturals, FiniteSets

CONSTANTS
    Commands,       \* bound: commands of a batch, run at the same time
    StreamFaults    \* of "stuck": SIGKILL does not end a process, "disk": rmtree fails

ASSUME StreamAssumption == IsFiniteSet(Commands) /\ Commands # {} /\ "main" \notin Commands

VARIABLES hstart, hresult, startup, verify, monitor, hclose, cmd, window, hstate, herror,
          ready, finished, dir, hclosed

call == <<hstart, hresult>>
shown == <<hstate, herror, ready, finished>>
hvars == <<call, startup, verify, monitor, hclose, cmd, window, shown, dir, hclosed>>

Main == "main"                              \* the conversion
Procs == Commands \cup {Main}
Running == {"running", "leaderless"}        \* a group whose leader may have exited

Idle == [pc |-> "none", res |-> "ok", os |-> "none", kill |-> "none", listed |-> FALSE]
Cmd == [pc : {"none", "call", "spawn", "adopt", "run", "stop", "ended"},
        res : {"ok", "fail", "cancel"},
        os : {"none", "pending", "gone"} \cup Running,
        kill : {"none", "term", "done", "stuck"},
        listed : BOOLEAN]

Batches == {"resolve", "probe", "encoder", "retry"}
Final == {"none", "ok", "error", "cancelled"}

HTypeOK ==
    /\ hstart \in {"new", "starting", "closing", "done"}
    /\ hresult \in Final
    /\ startup \in Batches \cup {"hls", "wait", "unwind", "drop"} \cup Final
    /\ verify \in {"run", "unwind", "drop"} \cup Final
    /\ monitor \in {"none", "watch", "stop", "done"}
    /\ hclose \in {"none", "begin", "tasks", "spawning", "jobs", "main", "done"}
    /\ cmd \in [Procs -> Cmd]
    /\ window \in {"none", "fresh", "rolled"}
    /\ hstate \in {"new", "starting", "streaming", "finished", "failed", "closed"}
    /\ dir \in {"none", "made", "removed", "left"}
    /\ {herror, ready, finished, hclosed} \subseteq BOOLEAN

HInit ==
    /\ hstart = "new" /\ hresult = "none"
    /\ startup = "none" /\ verify = "none" /\ monitor = "none" /\ hclose = "none"
    /\ cmd = [p \in Procs |-> Idle]
    /\ window = "none" /\ hstate = "new"
    /\ herror = FALSE /\ ready = FALSE /\ finished = FALSE
    /\ dir = "none" /\ hclosed = FALSE

RequestStreamClose == hclose' = IF hclose = "none" THEN "begin" ELSE hclose

-----------------------------------------------------------------------------
\* One process: _spawn, _command, _stop_process and _terminate_process.
Killed(c) == IF c.kill = "none" /\ c.os \in Running \cup {"gone"}
             THEN [c EXCEPT !.kill = "term"] ELSE c
Stopping(c, res) == [Killed(c) EXCEPT !.pc = "stop", !.res = res]

Cancel(c) ==
    CASE c.pc = "spawn" -> [c EXCEPT !.pc = "adopt", !.res = "cancel"]
      [] c.pc = "run" -> Stopping(c, "cancel")
      [] c.pc \in {"call", "adopt", "stop"} -> [c EXCEPT !.pc = "ended", !.res = "cancel"]
      [] c.pc \in {"none", "ended"} -> c

Set(p, c) == cmd' = [cmd EXCEPT ![p] = c]

\* The set _jobs: what was listed and has not been stopped, until the cleanup clears it.
Jobs == {p \in Procs : cmd[p].listed /\ hclose \notin {"main", "done"}}

\* _spawn refuses while the stream closes.
\* Mutant: it does not look at _close_task.
OpenAnyway == [Idle EXCEPT !.pc = "spawn", !.os = "pending"]
Open == IF hclose = "none" THEN [Idle EXCEPT !.pc = "spawn", !.os = "pending"]
        ELSE [Idle EXCEPT !.pc = "ended", !.res = "fail"]

Call(p) ==
    /\ cmd[p].pc = "call"
    /\ Set(p, Open)
    /\ UNCHANGED <<call, startup, verify, monitor, hclose, window, shown, dir, hclosed>>

\* The process exists: adopt() lists it, then whoever waits for it goes on.
Created(p) ==
    LET c == [cmd[p] EXCEPT !.os = "running", !.listed = TRUE] IN
    CASE c.pc = "spawn" -> [c EXCEPT !.pc = IF p = Main THEN "ended" ELSE "run"]
      [] c.pc = "adopt" -> Stopping(c, "cancel")
      [] OTHER -> c

Spawned(p) ==
    /\ cmd[p].os = "pending"
    /\ \/ Set(p, Created(p))
       \/ Set(p, [cmd[p] EXCEPT !.pc = "ended", !.os = "none",
                               !.res = IF cmd[p].pc = "spawn" THEN "fail" ELSE @])
    /\ UNCHANGED <<call, startup, verify, monitor, hclose, window, shown, dir, hclosed>>

\* The leader exits; the rest of its group may live on (the resolver has a child).  The exit
\* code of the conversion is kept.
ProcessEnds(p) ==
    /\ cmd[p].os \in Running
    /\ \/ p = Main /\ \E res \in {"ok", "fail"} : Set(p, [cmd[p] EXCEPT !.os = "gone", !.res = res])
       \/ p # Main /\ \E os \in {"leaderless", "gone"} \ {cmd[p].os} : Set(p, [cmd[p] EXCEPT !.os = os])
    /\ UNCHANGED <<call, startup, verify, monitor, hclose, window, shown, dir, hclosed>>

\* The command has its answer, an error, or no answer in time.
Answers(c) == {Stopping(c, "fail")} \cup
              (IF c.os # "running" THEN {Stopping(c, "ok")} ELSE {})
Answer(p) ==
    /\ cmd[p].pc = "run"
    /\ \E c \in Answers(cmd[p]) : Set(p, c)
    /\ UNCHANGED <<call, startup, verify, monitor, hclose, window, shown, dir, hclosed>>

\* _terminate_process: SIGTERM to the group, then SIGKILL to what is left of it.
\* Mutant: it waits for the leader only.
TerminateLeader(p) ==
    /\ cmd[p].kill = "term"
    /\ Set(p, [cmd[p] EXCEPT !.kill = "done", !.os = IF @ = "running" THEN "gone" ELSE @])
    /\ UNCHANGED <<call, startup, verify, monitor, hclose, window, shown, dir, hclosed>>
Terminate(p) ==
    /\ cmd[p].kill = "term"
    /\ \/ Set(p, [cmd[p] EXCEPT !.kill = "done", !.os = "gone"])
       \/ "stuck" \in StreamFaults /\ cmd[p].os = "running" /\ Set(p, [cmd[p] EXCEPT !.kill = "stuck"])
    /\ UNCHANGED <<call, startup, verify, monitor, hclose, window, shown, dir, hclosed>>

\* The end of _command: the process is stopped, it leaves _jobs.
CommandEnds(p) ==
    /\ cmd[p].pc = "stop" /\ cmd[p].kill \in {"done", "stuck"}
    /\ Set(p, IF cmd[p].kill = "done"
              THEN [Idle EXCEPT !.pc = "ended", !.res = cmd[p].res]
              ELSE [cmd[p] EXCEPT !.pc = "ended", !.res = IF @ = "cancel" THEN @ ELSE "fail"])
    /\ UNCHANGED <<call, startup, verify, monitor, hclose, window, shown, dir, hclosed>>

-----------------------------------------------------------------------------
\* A batch of commands: _gather.
Asked(stage) == IF stage \in {"encoder", "retry"} THEN {CHOOSE p \in Commands : TRUE}
                ELSE IF stage = "hls" THEN {Main} ELSE Commands
Begin(ps, table) == [p \in Procs |-> IF p \notin ps THEN table[p]
                                     ELSE IF ps = Commands THEN [Idle EXCEPT !.pc = "call"]
                                     ELSE Open]
CancelAll(ps) == [p \in Procs |-> IF p \in ps THEN Cancel(cmd[p]) ELSE cmd[p]]
AllEnded(ps) == \A p \in ps : cmd[p].pc \in {"none", "ended"}
AllOk(ps) == \A p \in ps : cmd[p].pc = "ended" /\ cmd[p].res = "ok"
Failed(ps) == \E p \in ps : cmd[p].pc = "ended" /\ cmd[p].res # "ok"

After == [resolve |-> {"probe"}, probe |-> {"encoder", "hls"}, encoder |-> {"hls"},
          retry |-> {"hls"}]

StartStream ==
    /\ hstart = "new" /\ hclose = "none"
    /\ hstart' = "starting" /\ hstate' = "starting"
    /\ startup' = "resolve" /\ cmd' = Begin(Commands, cmd)
    /\ UNCHANGED <<hresult, verify, monitor, hclose, window, herror, ready, finished, dir, hclosed>>

\* A stage is over: what it answered is checked, and the next one begins.
Advance ==
    /\ startup \in Batches /\ AllOk(Asked(startup))
    /\ \/ \E s \in After[startup] :
             /\ startup' = s
             /\ cmd' = Begin(Asked(s), [p \in Procs |-> Idle])
             /\ dir' = IF s = "hls" THEN "made" ELSE dir
       \/ startup' = "error" /\ UNCHANGED <<cmd, dir>>
    /\ UNCHANGED <<call, verify, monitor, hclose, window, shown, hclosed>>

\* A command fails: its batch is cancelled; an encoder may be tried in its other mode, but not
\* after a process that could not be ended.
\* Mutant: after any failure.
RetriesAlways == startup = "encoder"
Retries == startup = "encoder" /\ \A p \in Procs : cmd[p].kill # "stuck"
StageFails ==
    /\ \/ startup \in Batches /\ Failed(Asked(startup))
       \/ startup = "hls" /\ cmd[Main].pc = "ended" /\ ~cmd[Main].listed
    /\ \/ /\ Retries
          /\ startup' = "retry" /\ cmd' = Begin(Asked("retry"), [p \in Procs |-> Idle])
       \/ startup' = "unwind" /\ cmd' = CancelAll(Asked(startup))
    /\ UNCHANGED <<call, verify, monitor, hclose, window, shown, dir, hclosed>>

Unwound ==
    /\ startup \in {"unwind", "drop"} /\ AllEnded(Procs)
    /\ startup' = IF startup = "unwind" THEN "error" ELSE "cancelled"
    /\ UNCHANGED <<call, verify, monitor, hclose, cmd, window, shown, dir, hclosed>>

\* The conversion runs: it is watched.
Converting ==
    /\ startup = "hls" /\ cmd[Main].pc = "ended" /\ cmd[Main].listed
    /\ startup' = "wait" /\ monitor' = "watch"
    /\ UNCHANGED <<call, verify, hclose, cmd, window, shown, dir, hclosed>>

StartupEnds ==
    /\ startup = "wait" /\ ready
    /\ startup' = IF herror THEN "error" ELSE "ok"
    /\ UNCHANGED <<call, verify, monitor, hclose, cmd, window, shown, dir, hclosed>>

\* start() is woken by the startup, by its time limit, or is cancelled.
StartEnds ==
    /\ hstart = "starting"
    /\ \/ startup = "ok" /\ hstart' = "done" /\ hresult' = "ok" /\ UNCHANGED <<herror, hclose>>
       \/ /\ startup # "ok"          \* the time limit, or the failure of the startup
          /\ hstart' = "closing" /\ hresult' = IF startup = "cancelled" THEN "cancelled" ELSE "error"
          /\ herror' = (herror \/ startup # "cancelled")
          /\ RequestStreamClose
    /\ UNCHANGED <<startup, verify, monitor, cmd, window, hstate, ready, finished, dir, hclosed>>

\* The caller of start() is cancelled; it does not wait for a close() of its own failure.
CancelStartStream ==
    /\ \/ /\ hstart = "starting" /\ hstart' = "closing"
          /\ RequestStreamClose
       \/ hstart = "closing" /\ hstart' = "done" /\ UNCHANGED hclose
    /\ hresult' = "cancelled"
    /\ UNCHANGED <<startup, verify, monitor, cmd, window, shown, dir, hclosed>>

StartReturns ==
    /\ hstart = "closing" /\ hclose = "done"
    /\ hstart' = "done"
    /\ UNCHANGED <<hresult, startup, verify, monitor, hclose, cmd, window, shown, dir, hclosed>>

-----------------------------------------------------------------------------
\* ffmpeg completes segments; the first ones leave the playlist.
Segment ==
    /\ cmd[Main].os = "running" /\ startup \in {"wait"} \cup Final
    /\ \/ window = "none" /\ window' = "fresh"
       \/ window = "fresh" /\ window' = "rolled"
    /\ UNCHANGED <<call, startup, verify, monitor, hclose, cmd, shown, dir, hclosed>>

MonitorFails ==
    /\ herror' = TRUE /\ hstate' = "failed" /\ ready' = TRUE /\ finished' = TRUE
    /\ monitor' = "stop"
    /\ Set(Main, Killed(cmd[Main]))
    /\ UNCHANGED verify

\* One round of _monitor.
Exited == cmd[Main].os = "gone"
\* Mutant: a complete playlist is enough.
CompleteUnverified == window # "none"
Complete == window # "none" /\ ready
Poll ==
    /\ monitor = "watch"
    /\ \/ MonitorFails               \* a limit, a damaged playlist, an incomplete video
       \/ /\ window # "none" /\ ~ready /\ verify = "none"
          /\ verify' = "run" /\ cmd' = Begin(Commands, cmd)
          /\ UNCHANGED <<monitor, shown>>
       \/ /\ window # "none" /\ ~ready /\ verify = "ok"
          /\ ~(Exited /\ cmd[Main].res # "ok")
          /\ hstate' = "streaming" /\ ready' = TRUE
          /\ UNCHANGED <<monitor, verify, cmd, herror, finished>>
       \/ /\ Exited /\ cmd[Main].res = "ok" /\ Complete
          /\ hstate' = "finished" /\ finished' = TRUE /\ monitor' = "done"
          /\ UNCHANGED <<verify, cmd, herror, ready>>
    /\ UNCHANGED <<call, startup, hclose, window, dir, hclosed>>

MonitorStops ==
    /\ monitor = "stop" /\ cmd[Main].kill \in {"done", "stuck"}
    /\ monitor' = "done"
    /\ UNCHANGED <<call, startup, verify, hclose, cmd, window, shown, dir, hclosed>>

Verified ==
    /\ verify = "run"
    /\ \/ AllOk(Commands) /\ verify' \in {"ok", "error"} /\ UNCHANGED cmd
       \/ Failed(Commands) /\ verify' = "unwind" /\ cmd' = CancelAll(Commands)
    /\ UNCHANGED <<call, startup, monitor, hclose, window, shown, dir, hclosed>>

VerifyUnwound ==
    /\ verify \in {"unwind", "drop"} /\ AllEnded(Commands)
    /\ verify' = IF verify = "unwind" THEN "error" ELSE "cancelled"
    /\ UNCHANGED <<call, startup, monitor, hclose, cmd, window, shown, dir, hclosed>>

-----------------------------------------------------------------------------
\* _cleanup.  It cancels the tasks; a wait_for whose result is there keeps it (swallow).
Unwinding(t) == t \in Batches \cup {"hls", "run", "unwind"}
Swallow == startup \in {"encoder", "retry"}
CleanupBegins ==
    /\ hclose = "begin"
    /\ hclose' = "tasks"
    /\ monitor' = IF monitor = "none" THEN "none" ELSE "done"
    /\ \/ /\ Swallow
          /\ \E p \in Asked(startup) : cmd[p].pc = "run" /\ \E c \in Answers(cmd[p]) : Set(p, c)
          /\ UNCHANGED <<startup, verify>>
       \/ /\ cmd' = CancelAll((IF Unwinding(startup) THEN Procs ELSE {})
                              \cup (IF Unwinding(verify) THEN Commands ELSE {}))
          /\ startup' = IF Unwinding(startup) THEN "drop"
                        ELSE IF startup = "wait" THEN "cancelled" ELSE startup
          /\ verify' = IF Unwinding(verify) THEN "drop" ELSE verify
    /\ UNCHANGED <<call, window, shown, dir, hclosed>>

\* It waits for the tasks, for the processes being created, and stops the listed ones.
TasksEnded ==
    /\ hclose = "tasks" /\ startup \in Final /\ verify \in Final
    /\ hstart # "starting"                          \* its caller was woken before
    /\ hclose' = "spawning"
    /\ UNCHANGED <<call, startup, verify, monitor, cmd, window, shown, dir, hclosed>>

\* Mutant: processes that are being created are not waited for.
NotSpawning ==
    /\ hclose = "spawning"
    /\ cmd' = [p \in Procs |-> IF cmd[p].listed THEN Killed(cmd[p]) ELSE cmd[p]]
    /\ hclose' = "jobs"
    /\ UNCHANGED <<call, startup, verify, monitor, window, shown, dir, hclosed>>
SpawningEnded ==
    /\ hclose = "spawning" /\ \A p \in Procs : cmd[p].os # "pending"
    /\ cmd' = [p \in Procs |-> IF cmd[p].listed THEN Killed(cmd[p]) ELSE cmd[p]]
    /\ hclose' = "jobs"
    /\ UNCHANGED <<call, startup, verify, monitor, window, shown, dir, hclosed>>

\* Mutant: it waits until each process is really gone.
JobsGone ==
    /\ hclose = "jobs" /\ \A p \in Procs : cmd[p].listed => cmd[p].kill = "done"
    /\ hclose' = "main"
    /\ UNCHANGED <<call, startup, verify, monitor, cmd, window, shown, dir, hclosed>>
JobsStopped ==
    /\ hclose = "jobs" /\ \A p \in Procs : cmd[p].listed => cmd[p].kill \in {"done", "stuck"}
    /\ hclose' = "main"                             \* _jobs.clear()
    /\ UNCHANGED <<call, startup, verify, monitor, cmd, window, shown, dir, hclosed>>

\* A conversion that cannot be stopped raises: the directory stays.
CleanupEnds ==
    /\ hclose = "main"
    /\ dir' \in IF dir # "made" \/ cmd[Main].kill = "stuck" THEN {IF dir = "made" THEN "left" ELSE dir}
                ELSE {"removed"} \cup (IF "disk" \in StreamFaults THEN {"left"} ELSE {})
    /\ hclose' = "done" /\ hclosed' = TRUE
    /\ hstate' = IF herror THEN "failed" ELSE "closed"
    /\ ready' = TRUE /\ finished' = TRUE
    /\ UNCHANGED <<call, startup, verify, monitor, cmd, window, herror>>

-----------------------------------------------------------------------------
CloseStream ==
    /\ RequestStreamClose
    /\ UNCHANGED <<call, startup, verify, monitor, cmd, window, shown, dir, hclosed>>
StreamCall == StartStream \/ CancelStartStream

CommandOwn(p) == Call(p) \/ Answer(p) \/ Terminate(p) \/ CommandEnds(p)
StreamOwn ==
    \/ Advance \/ StageFails \/ Unwound \/ Converting \/ StartupEnds \/ StartEnds \/ StartReturns
    \/ Poll \/ MonitorStops \/ Verified \/ VerifyUnwound
    \/ CleanupBegins \/ TasksEnded \/ SpawningEnded \/ JobsStopped \/ CleanupEnds
StreamNext ==
    \/ StreamCall \/ CloseStream \/ StreamOwn \/ Segment
    \/ \E p \in Procs : CommandOwn(p) \/ Spawned(p) \/ ProcessEnds(p)

StreamSpec == HInit /\ [][StreamNext]_hvars

\* asyncio runs what is ready, its timers fire, the kernel creates and kills.
StreamFairness == WF_hvars(StreamOwn \/ \E p \in Procs : CommandOwn(p) \/ Spawned(p))

-----------------------------------------------------------------------------
\* What the stream has: process groups, the ones being created, the directory, its monitor.  A group
\* that survived SIGKILL, or a directory that could not be removed, is not held but lost.
StreamHolds ==
    {p \in Procs : cmd[p].os \in {"pending"} \cup Running /\ cmd[p].kill # "stuck"}
    \cup {d \in {"directory"} : dir = "made"} \cup {m \in {"monitor"} : monitor \in {"watch", "stop"}}

\* Whatever was cancelled, failed or timed out, and how often: once the stream says closed no
\* process of it lives or is still being created, and its directory is gone.
StreamClosedIsGone == hclosed => StreamHolds = {}

\* Whatever is cancelled, refused or fails: a process leaves _jobs only when its group is gone, or
\* when the cleanup gives up one that survived SIGKILL; and one that is being created is listed or
\* was not created.
ListedUntilGone ==
    [][\A p \in Procs :
         /\ p \in Jobs /\ p \notin Jobs' =>
              cmd[p].os = "gone" \/ (hclose = "jobs" /\ cmd[p].kill = "stuck")
         /\ cmd[p].os = "pending" /\ cmd'[p].os # "pending" =>
              p \in Jobs' \/ (cmd'[p].os = "none" /\ cmd'[p].pc = "ended")]_hvars

\* The directory is removed only after every process that could write to it.
MediaRemovedLast ==
    dir = "removed" => \A p \in Procs : cmd[p].os \notin Running \/ cmd[p].kill = "stuck"

\* A stream that says it finished, and was verified, has a conversion that ended well.
FinishedIsWhole ==
    hstate = "finished" => cmd[Main].os = "gone" /\ cmd[Main].res = "ok" /\ verify = "ok" /\ dir = "made"

StreamView == [st |-> IF hstart = "closing" THEN "starting"
                      ELSE IF hstart = "done" THEN (IF hresult = "ok" THEN "up" ELSE "over") ELSE hstart,
               asked |-> hclose # "none", held |-> StreamHolds # {}, failed |-> herror,
               closed |-> IF ~hclosed THEN "no" ELSE IF dir = "left" THEN "raised" ELSE "clean"]
StreamResource == INSTANCE Owned WITH r <- StreamView
StreamIsOwned == StreamResource!Spec

\* start() ends in its time limit, and a close() that was asked for ends.
StreamSettled == hstart \in {"new", "done"} /\ (hclose # "none" => hclosed)
StreamEnds == []<>StreamSettled
=============================================================================
