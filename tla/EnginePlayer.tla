---------------------------- MODULE EnginePlayer ----------------------------
(***************************************************************************)
(* The owner of one `airplayvideo-engine --native` process: class          *)
(* NativeEnginePlayer of service/native_engine.py.                         *)
(*                                                                         *)
(*   wstart    start(): new -> spawn -> done, through "adopt" when it is   *)
(*             cancelled while the process is created, and "stop" while it *)
(*             awaits close(); wresult is what the caller got;             *)
(*   launch    the task that creates the process;  child  the process:     *)
(*             running, or how it ended;  out  its events not yet read;    *)
(*   reader, watchdog, wclose  the tasks _read, _deadline and _cleanup;    *)
(*   wstop     _stop_requested;  wsent  _sent_signals;                     *)
(*   wdone     _finished_status ("full" 200, "cut" 0);                     *)
(*   config    the private request file exists.                            *)
(*                                                                         *)
(* Code between two awaits is one action.                                  *)
(***************************************************************************)
EXTENDS Naturals, Sequences

VARIABLES wstart, wresult, launch, child, adopted, out, reader, watchdog, wclose,
          wstop, wsent, wdone, wfailed, config, wclosed

task == <<wstart, wresult, adopted, config>>
process == <<launch, child, out>>
ended == <<wsent, wdone, wfailed>>
wvars == <<task, process, reader, watchdog, wclose, wstop, ended, wclosed>>

Alive == {"running", "playing"}
Ends == {"ok", "error", "term", "kill"}     \* exit codes 0, another one, -15 and -9
Events == {"rate", "full", "cut", "fatal"}

WTypeOK ==
    /\ wstart \in {"new", "spawn", "adopt", "stop", "done"}
    /\ wresult \in {"none", "ok", "error", "cancelled"}
    /\ launch \in {"none", "pending", "made", "failed"}
    /\ child \in {"none"} \cup Alive \cup Ends
    /\ out \in Seq(Events)
    /\ reader \in {"none", "read", "done"}
    /\ watchdog \in {"none", "sleep", "done"}
    /\ wclose \in {"none", "begin", "launch", "wait", "reader", "done"}
    /\ wsent \subseteq {"term", "kill"}
    /\ wdone \in {"none", "full", "cut"}
    /\ {adopted, wstop, wfailed, config, wclosed} \subseteq BOOLEAN

WInit ==
    /\ wstart = "new" /\ wresult = "none" /\ adopted = FALSE /\ config = FALSE
    /\ launch = "none" /\ child = "none" /\ out = <<>>
    /\ reader = "none" /\ watchdog = "none" /\ wclose = "none"
    /\ wstop = FALSE /\ wsent = {} /\ wdone = "none" /\ wfailed = FALSE
    /\ wclosed = FALSE

-----------------------------------------------------------------------------
\* close(): it is awaited by its caller, the cleanup is one task for all callers.
RequestWorkerClose ==
    /\ wstop' = TRUE
    /\ wclose' = IF wclose = "none" THEN "begin" ELSE wclose

\* What _record_exit makes of an exit code.  A signal of ours is no failure.
RecordExit(c) ==
    \/ c # "ok" /\ ~(wstop /\ c \in wsent)
    \/ c = "ok" /\ ~wstop /\ wdone = "none"

WorkerStart ==
    /\ wstart = "new" /\ wclose = "none"
    /\ wstart' = "spawn" /\ config' = TRUE /\ launch' = "pending"
    /\ UNCHANGED <<wresult, adopted, child, out, reader, watchdog, wclose, wstop, ended, wclosed>>

Launched ==
    /\ launch = "pending"
    /\ \/ launch' = "made" /\ child' = "running"
       \/ launch' = "failed" /\ UNCHANGED child
    /\ UNCHANGED <<task, out, reader, watchdog, wclose, wstop, ended, wclosed>>

\* start() goes on after the process was created, or was not.
Adopt ==
    /\ wstart = "spawn" /\ launch \in {"made", "failed"}
    /\ adopted' = (launch = "made")
    /\ \/ /\ launch = "made" /\ wclose = "none"
          /\ wstart' = "done" /\ wresult' = "ok"
          /\ reader' = "read" /\ watchdog' = "sleep"
          /\ UNCHANGED <<wclose, wstop, wfailed>>
       \/ /\ launch = "failed" \/ wclose # "none"
          /\ wstart' = "stop" /\ wresult' = "error"
          /\ wfailed' = (wfailed \/ launch = "failed")
          /\ RequestWorkerClose
          /\ UNCHANGED <<reader, watchdog>>
    /\ UNCHANGED <<config, process, wsent, wdone, wclosed>>

\* The caller of start() is cancelled.
CancelStart ==
    /\ \/ wstart = "spawn" /\ wstart' = "adopt" /\ UNCHANGED wresult
       \/ wstart = "stop" /\ wstart' \in {"stop", "done"} /\ wresult' = "cancelled"
    /\ UNCHANGED <<adopted, config, process, reader, watchdog, wclose, wstop, ended, wclosed>>

AdoptCancelled ==
    /\ wstart = "adopt" /\ launch \in {"made", "failed"}
    /\ adopted' = (launch = "made")
    /\ wstart' = "stop" /\ wresult' = "cancelled"
    /\ RequestWorkerClose
    /\ UNCHANGED <<config, process, reader, watchdog, ended, wclosed>>

StartRaises ==
    /\ wstart = "stop" /\ wclose = "done"
    /\ wstart' = "done"
    /\ UNCHANGED <<wresult, adopted, config, process, reader, watchdog, wclose, wstop, ended,
                   wclosed>>

-----------------------------------------------------------------------------
\* The process: it plays, then ends by itself, on SIGTERM, by a failure or a crash.
Plays ==
    /\ child = "running"
    /\ child' = "playing" /\ out' = <<"rate">>
    /\ UNCHANGED <<task, launch, reader, watchdog, wclose, wstop, ended, wclosed>>

Exits ==
    /\ child \in Alive
    /\ \/ child = "playing" /\ out' = Append(out, "full") /\ child' = "ok"
       \/ "term" \in wsent /\ out' = Append(out, "cut") /\ child' = "ok"
       \/ out' = Append(out, "fatal") /\ child' = "error"
       \/ child' = "error" /\ UNCHANGED out
       \/ "term" \in wsent /\ child' = "term" /\ UNCHANGED out
       \/ "kill" \in wsent /\ child' = "kill" /\ UNCHANGED out
    /\ UNCHANGED <<task, launch, reader, watchdog, wclose, wstop, ended, wclosed>>

\* _read: one event, and the end of the output with the exit of the process.
Read(e) ==
    /\ reader = "read" /\ out # <<>> /\ e = Head(out)
    /\ out' = Tail(out)
    /\ wfailed' = (wfailed \/ e = "fatal")
    /\ wdone' = IF e \in {"full", "cut"} THEN e ELSE wdone
    /\ UNCHANGED <<task, launch, child, reader, watchdog, wclose, wstop, wsent, wclosed>>

ReadEnd ==
    /\ reader = "read" /\ out = <<>> /\ child \in Ends
    /\ wfailed' = (wfailed \/ RecordExit(child))
    /\ reader' = "done"
    /\ RequestWorkerClose
    /\ UNCHANGED <<task, process, watchdog, wsent, wdone, wclosed>>

\* The worker outlives its time: _deadline.
Overtime ==
    /\ watchdog = "sleep"
    /\ watchdog' = "done" /\ wfailed' = TRUE
    /\ RequestWorkerClose
    /\ UNCHANGED <<task, process, reader, wsent, wdone, wclosed>>

-----------------------------------------------------------------------------
\* _cleanup: the watchdog, the process (terminated, then killed), the reader.
CloseBegins ==
    /\ wclose = "begin"
    /\ watchdog' = IF watchdog = "sleep" THEN "done" ELSE watchdog
    /\ wclose' = "launch"
    /\ UNCHANGED <<task, process, reader, wstop, ended, wclosed>>

\* start() was woken first: it waited for the launch before this task did.
CloseAdopts ==
    /\ wclose = "launch" /\ launch # "pending"
    /\ wstart \notin {"spawn", "adopt"}
    /\ adopted' = (launch = "made")
    /\ wclose' = IF launch = "made" THEN "wait" ELSE "reader"
    /\ wsent' = IF child \in Alive THEN wsent \cup {"term"} ELSE wsent
    /\ UNCHANGED <<wstart, wresult, config, process, reader, watchdog, wstop, wdone, wfailed,
                   wclosed>>

Kill ==
    /\ wclose = "wait" /\ child \in Alive /\ "kill" \notin wsent
    /\ wsent' = wsent \cup {"kill"}
    /\ UNCHANGED <<task, process, reader, watchdog, wclose, wstop, wdone, wfailed, wclosed>>

CloseReaps ==
    /\ wclose = "wait" /\ child \in Ends
    /\ wfailed' = (wfailed \/ RecordExit(child))
    /\ wclose' = "reader"
    /\ UNCHANGED <<task, process, reader, watchdog, wstop, wsent, wdone, wclosed>>

CloseEnds ==
    /\ wclose = "reader"
    /\ reader' = IF reader = "read" THEN "done" ELSE reader
    /\ config' = FALSE
    /\ wclose' = "done" /\ wclosed' = TRUE
    /\ UNCHANGED <<wstart, wresult, adopted, process, watchdog, wstop, ended>>

-----------------------------------------------------------------------------
\* close() by the session, which may also cancel start().
WorkerCall == WorkerStart \/ CancelStart
CloseWorker ==
    /\ RequestWorkerClose
    /\ UNCHANGED <<task, process, reader, watchdog, ended, wclosed>>

WorkerOwn ==
    \/ Adopt \/ AdoptCancelled \/ StartRaises \/ ReadEnd
    \/ CloseBegins \/ CloseAdopts \/ CloseReaps \/ CloseEnds
WorkerNext ==
    \/ WorkerCall \/ CloseWorker \/ WorkerOwn \/ Launched \/ Plays \/ Exits \/ Overtime \/ Kill
    \/ \E e \in Events : Read(e)

WorkerSpec == WInit /\ [][WorkerNext]_wvars

\* asyncio runs what is ready, its timers fire, the kernel creates and kills.
WorkerFairness ==
    WF_wvars(\/ WorkerOwn \/ Launched \/ Overtime \/ Kill \/ \E e \in Events : Read(e)
             \/ "kill" \in wsent /\ Exits)

-----------------------------------------------------------------------------
\* Everything the worker has: a process, one that is being created, its request file.
WorkerHolds ==
    {x \in {"process", "launch", "request"} :
        \/ x = "process" /\ child \in Alive
        \/ x = "launch" /\ launch = "pending"
        \/ x = "request" /\ config}

\* closed is set only when the process was reaped, whenever start() was cancelled or
\* close() called, and then nothing of the worker is left.
WorkerClosedIsGone == wclosed => WorkerHolds = {}

\* A stop does not hide that the engine had failed: failed covers every exit code that is
\* not a signal of ours, read or not read.
NoHiddenFailure == wclosed /\ adopted /\ child \notin {"ok"} \cup wsent => wfailed

WorkerView == [st |-> CASE wstart = "new" -> "new" [] wstart \in {"spawn", "adopt", "stop"} -> "starting"
                        [] wstart = "done" -> IF wresult = "ok" THEN "up" ELSE "over",
               asked |-> wstop, held |-> WorkerHolds # {}, failed |-> wfailed,
               closed |-> IF wclosed THEN "clean" ELSE "no"]
WorkerResource == INSTANCE Owned WITH r <- WorkerView
WorkerIsOwned == WorkerResource!Spec

\* start() ends when the kernel has answered; every worker that was started is closed, by
\* its owner, by its own end or by the watchdog.
WorkerSettled == (wstart # "new" => wstart = "done" /\ wclosed) /\ (wclose # "none" => wclosed)
WorkerEnds == []<>WorkerSettled
=============================================================================
