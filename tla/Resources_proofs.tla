--------------------------- MODULE Resources_proofs ---------------------------
(***************************************************************************)
(* The two owners of processes of a direct video leave nothing when they   *)
(* are closed, say what has become of them, and are to the session what    *)
(* Owned promises: for any number of commands.                             *)
(***************************************************************************)
EXTENDS MCResources, TLAPS

-----------------------------------------------------------------------------
(* The worker *)

\* Only a worker that was started has anything; a process was created, and is what was created.
Begun ==
    /\ wstart = "new" <=> launch = "none"
    /\ launch = "none" => ~config /\ watchdog = "none" /\ reader = "none"
    /\ child # "none" <=> launch = "made"
    /\ adopted => launch = "made"
    /\ wstart = "stop" => wresult \in {"error", "cancelled"}

\* close() was called once its task exists, and it has closed when that is done.
Called == (wstop <=> wclose # "none") /\ (wclosed <=> wclose = "done")

\* What the cleanup has dealt with stays so: the watchdog, start(), the process, the reader and
\* the request file.
Dealt ==
    /\ wclose \notin {"none", "begin"} => watchdog # "sleep"
    /\ wclose \in {"wait", "reader", "done"} => launch # "pending" /\ wstart \notin {"spawn", "adopt"}
    /\ wclose \in {"reader", "done"} =>
          child \notin Alive /\ (child \notin {"none", "ok"} \cup wsent => wfailed)
    /\ wclose = "done" => reader # "read" /\ ~config

WorkerInv == Begun /\ Called /\ Dealt

LEMMA WorkerInit == WInit => WTypeOK /\ WorkerInv
  <1> SUFFICES ASSUME WInit PROVE WTypeOK /\ WorkerInv OBVIOUS
  <1>1. WTypeOK
    <2>1. {adopted, wstop, wfailed, config, wclosed} \subseteq BOOLEAN BY Zenon DEF WInit
    <2>2. out \in Seq(Events) BY DEF WInit
    <2> QED BY <2>1, <2>2 DEF WInit, WTypeOK
  <1>2. Begun /\ Called /\ Dealt BY DEF WInit, Begun, Called, Dealt, Alive
  <1> QED BY <1>1, <1>2 DEF WorkerInv

\* Every step of the worker keeps its types.
LEMMA WorkerTyped ==
  ASSUME WTypeOK, [WorkerNext]_wvars
  PROVE  WTypeOK'
  <1> USE DEF WTypeOK, Alive, Ends, Events, task, process, ended, RequestWorkerClose
  <1>1. CASE UNCHANGED wvars BY <1>1 DEF wvars
  <1>2. CASE WorkerStart BY <1>2 DEF WorkerStart
  <1>3. CASE CancelStart BY <1>3 DEF CancelStart
  <1>4. CASE CloseWorker BY <1>4 DEF CloseWorker
  <1>5. CASE Adopt BY <1>5 DEF Adopt
  <1>6. CASE AdoptCancelled BY <1>6 DEF AdoptCancelled
  <1>7. CASE StartRaises BY <1>7 DEF StartRaises
  <1>8. CASE ReadEnd BY <1>8 DEF ReadEnd, RecordExit
  <1>9. CASE CloseBegins BY <1>9 DEF CloseBegins
  <1>10. CASE CloseAdopts BY <1>10 DEF CloseAdopts
  <1>11. CASE CloseReaps BY <1>11 DEF CloseReaps, RecordExit
  <1>12. CASE CloseEnds
    <2>1. config' \in BOOLEAN /\ wclosed' \in BOOLEAN BY <1>12, Zenon DEF CloseEnds
    <2>2. reader' \in {"none", "read", "done"} BY <1>12 DEF CloseEnds
    <2>3. wclose' = "done" /\ UNCHANGED <<wstart, wresult, adopted, process, watchdog, wstop, ended>>
      BY <1>12 DEF CloseEnds
    <2> QED BY <2>1, <2>2, <2>3
  <1>13. CASE Launched BY <1>13 DEF Launched
  <1>14. CASE Plays BY <1>14 DEF Plays
  <1>15. CASE Exits
    <2>1. out' = out \/ \E e \in Events : out' = Append(out, e) BY <1>15 DEF Exits
    <2>2. out' \in Seq(Events) BY <2>1
    <2>3. child' \in Ends BY <1>15 DEF Exits
    <2>4. UNCHANGED <<task, launch, reader, watchdog, wclose, wstop, ended, wclosed>>
      BY <1>15 DEF Exits
    <2> HIDE DEF Events
    <2> QED BY <2>2, <2>3, <2>4
  <1>16. CASE Overtime BY <1>16 DEF Overtime
  <1>17. CASE Kill BY <1>17 DEF Kill
  <1>18. ASSUME NEW e \in Events, Read(e) PROVE WTypeOK' BY <1>18 DEF Read
  <1> QED
    BY <1>1, <1>2, <1>3, <1>4, <1>5, <1>6, <1>7, <1>8, <1>9, <1>10, <1>11, <1>12, <1>13, <1>14,
       <1>15, <1>16, <1>17, <1>18
    DEF WorkerNext, WorkerCall, WorkerOwn

\* Every step of the worker keeps its invariant.
LEMMA WorkerKept ==
  ASSUME WTypeOK, WorkerInv, [WorkerNext]_wvars
  PROVE  WorkerInv'
  <1> USE DEF WTypeOK, Alive, Ends, task, process, ended, RequestWorkerClose,
              WorkerInv, Begun, Called, Dealt
  <1>1. CASE UNCHANGED wvars BY <1>1 DEF wvars
  <1>2. CASE WorkerStart BY <1>2 DEF WorkerStart
  <1>3. CASE CancelStart BY <1>3 DEF CancelStart
  <1>4. CASE CloseWorker BY <1>4 DEF CloseWorker
  <1>5. CASE Adopt BY <1>5 DEF Adopt
  <1>6. CASE AdoptCancelled BY <1>6 DEF AdoptCancelled
  <1>7. CASE StartRaises BY <1>7 DEF StartRaises
  <1>8. CASE ReadEnd BY <1>8 DEF ReadEnd, RecordExit
  <1>9. CASE CloseBegins BY <1>9 DEF CloseBegins
  <1>10. CASE CloseAdopts BY <1>10 DEF CloseAdopts
  <1>11. CASE CloseReaps BY <1>11 DEF CloseReaps, RecordExit
  <1>12. CASE CloseEnds BY <1>12 DEF CloseEnds
  <1>13. CASE Launched BY <1>13 DEF Launched
  <1>14. CASE Plays BY <1>14 DEF Plays
  <1>15. CASE Exits BY <1>15 DEF Exits
  <1>16. CASE Overtime BY <1>16 DEF Overtime
  <1>17. CASE Kill BY <1>17 DEF Kill
  <1>18. ASSUME NEW e \in Events, Read(e) PROVE WorkerInv' BY <1>18 DEF Read
  <1> QED
    BY <1>1, <1>2, <1>3, <1>4, <1>5, <1>6, <1>7, <1>8, <1>9,
       <1>10, <1>11, <1>12, <1>13, <1>14, <1>15, <1>16, <1>17, <1>18
    DEF WorkerNext, WorkerCall, WorkerOwn

\* A worker that is closed has no process and none on its way, and says so only if nothing
\* of its own failed: for every interleaving of start, its cancellation, the process's end and
\* any number of closes.
THEOREM WorkerCorrect == WorkerSpec => [](WTypeOK /\ WorkerInv)
  <1>1. WTypeOK /\ WorkerInv /\ [WorkerNext]_wvars => WTypeOK' /\ WorkerInv'
    BY WorkerTyped, WorkerKept
  <1> QED BY <1>1, WorkerInit, PTL DEF WorkerSpec

\* How start() and close() of a worker go on.
WorkerProceeding ==
    /\ wstart = "new" => wstart' = "new" \/ (wstart' = "spawn" /\ ~wstop)
    /\ wstart # "new" => wstart' # "new"
    /\ wstart = "done" => wstart' = "done" /\ wresult' = wresult
    /\ wstart # "done" /\ wstart' = "done" /\ wresult' = "ok" => ~wclosed
    /\ wstop => wstop'
    /\ wfailed => wfailed'
    /\ wclosed => wclosed' /\ (wfailed' => wfailed)
    /\ wclosed' => wstop
LEMMA WorkerProceeds ==
  ASSUME WTypeOK, WorkerInv, [WorkerNext]_wvars
  PROVE  WorkerProceeding
  <1> USE DEF WTypeOK, task, process, ended, RequestWorkerClose, WorkerInv, Begun, Called, Dealt,
              WorkerProceeding
  <1>1. CASE UNCHANGED wvars BY <1>1 DEF wvars
  <1>2. CASE WorkerStart BY <1>2 DEF WorkerStart
  <1>3. CASE CancelStart BY <1>3 DEF CancelStart
  <1>4. CASE CloseWorker BY <1>4 DEF CloseWorker
  <1>5. CASE Adopt BY <1>5 DEF Adopt
  <1>6. CASE AdoptCancelled BY <1>6 DEF AdoptCancelled
  <1>7. CASE StartRaises BY <1>7 DEF StartRaises
  <1>8. CASE ReadEnd BY <1>8 DEF ReadEnd
  <1>9. CASE CloseBegins BY <1>9 DEF CloseBegins
  <1>10. CASE CloseAdopts BY <1>10 DEF CloseAdopts
  <1>11. CASE CloseReaps BY <1>11 DEF CloseReaps
  <1>12. CASE CloseEnds BY <1>12 DEF CloseEnds
  <1>13. CASE Launched BY <1>13 DEF Launched
  <1>14. CASE Plays BY <1>14 DEF Plays
  <1>15. CASE Exits BY <1>15 DEF Exits
  <1>16. CASE Overtime BY <1>16 DEF Overtime
  <1>17. CASE Kill BY <1>17 DEF Kill
  <1>18. ASSUME NEW e \in Events, Read(e) PROVE WorkerProceeding BY <1>18 DEF Read
  <1> QED
    BY <1>1, <1>2, <1>3, <1>4, <1>5, <1>6, <1>7, <1>8, <1>9,
       <1>10, <1>11, <1>12, <1>13, <1>14, <1>15, <1>16, <1>17, <1>18
    DEF WorkerNext, WorkerCall, WorkerOwn

\* What the invariant says of what a worker holds.
LEMMA WorkerHeld ==
  ASSUME WTypeOK, WorkerInv
  PROVE  /\ wstart = "new" => WorkerHolds = {}
         /\ wclosed => WorkerHolds = {}
  BY DEF WTypeOK, WorkerInv, Begun, Called, Dealt, WorkerHolds, Alive

\* To its session the worker is a resource: every step of it is a step of Owned.
THEOREM WorkerImplementsOwned == WorkerSpec => WorkerIsOwned
  <1> DEFINE Stage == CASE wstart = "new" -> "new" [] wstart \in {"spawn", "adopt", "stop"} -> "starting"
                        [] wstart = "done" -> IF wresult = "ok" THEN "up" ELSE "over"
             Held == WorkerHolds # {}
             Shut == IF wclosed THEN "clean" ELSE "no"
  <1>1. WInit => WorkerResource!Init
    <2> SUFFICES ASSUME WInit PROVE WorkerView = WorkerResource!Fresh BY DEF WorkerResource!Init
    <2>1. Held = FALSE BY WorkerInit, WorkerHeld DEF WInit
    <2>2. Stage = "new" BY DEF WInit
    <2>3. wstop = FALSE /\ wfailed = FALSE /\ Shut = "no" BY DEF WInit
    <2>4. WorkerView = [st |-> Stage, asked |-> wstop, held |-> Held, failed |-> wfailed, closed |-> Shut]
      BY DEF WorkerView
    <2> HIDE DEF Stage, Held, Shut
    <2> QED BY <2>1, <2>2, <2>3, <2>4 DEF WorkerResource!Fresh
  <1>2. WTypeOK /\ WorkerInv /\ (WTypeOK /\ WorkerInv)' /\ [WorkerNext]_wvars => WorkerResource!Next
    <2> SUFFICES ASSUME WTypeOK, WorkerInv, (WTypeOK /\ WorkerInv)', [WorkerNext]_wvars
                 PROVE  WorkerResource!Next
      OBVIOUS
    <2>0. WorkerProceeding BY WorkerProceeds
    <2>1. /\ Stage' \in {"new", "starting", "up", "over"}
          /\ \/ Stage' = Stage
             \/ Stage = "new" /\ Stage' = "starting" /\ ~wstop
             \/ Stage = "starting" /\ Stage' \in {"up", "over"}
          /\ Stage' = "up" /\ Stage # "up" => Shut = "no"
      BY <2>0 DEF WorkerProceeding, WTypeOK
    <2>2. Stage' = "new" \/ Shut' # "no" => ~Held'
      <3>1. (wstart' = "new" => WorkerHolds' = {}) /\ (wclosed' => WorkerHolds' = {})
        BY DEF WTypeOK, WorkerInv, Begun, Called, Dealt, WorkerHolds, Alive
      <3>2. Stage' = "new" => wstart' = "new" BY DEF WTypeOK
      <3> QED BY <3>1, <3>2
    <2>3. Shut' # "no" => wstop BY <2>0 DEF WorkerProceeding
    <2>4. (wstop => wstop') /\ (wfailed => wfailed') BY <2>0 DEF WorkerProceeding
    <2>5. Shut # "no" => Shut' = Shut /\ wfailed' = wfailed
      BY <2>0 DEF WorkerProceeding, WTypeOK
    <2>6. /\ wstop' \in BOOLEAN /\ Held' \in BOOLEAN /\ wfailed' \in BOOLEAN
          /\ Shut' \in {"no", "clean", "raised"}
      BY DEF WTypeOK
    <2>7. /\ WorkerView = [st |-> Stage, asked |-> wstop, held |-> Held, failed |-> wfailed,
                           closed |-> Shut]
          /\ WorkerView' = [st |-> Stage', asked |-> wstop', held |-> Held', failed |-> wfailed',
                            closed |-> Shut']
      BY DEF WorkerView
    <2> HIDE DEF Stage, Held, Shut
    <2>8. WorkerView' \in WorkerResource!Resources BY <2>1, <2>6, <2>7 DEF WorkerResource!Resources
    <2>9. WorkerResource!Legal(WorkerView')
      <3>1. /\ WorkerView.st = Stage /\ WorkerView.asked = wstop /\ WorkerView.failed = wfailed
            /\ WorkerView.closed = Shut
            /\ WorkerView'.st = Stage' /\ WorkerView'.asked = wstop' /\ WorkerView'.held = Held'
            /\ WorkerView'.failed = wfailed' /\ WorkerView'.closed = Shut'
        BY <2>7
      <3>2. /\ \/ WorkerView'.st = WorkerView.st
               \/ WorkerView.st = "new" /\ WorkerView'.st = "starting" /\ ~WorkerView.asked
               \/ WorkerView.st = "starting" /\ WorkerView'.st \in {"up", "over"}
            /\ WorkerView'.st = "up" /\ WorkerView.st # "up" => WorkerView.closed = "no"
            /\ WorkerView.asked => WorkerView'.asked
            /\ WorkerView'.st = "new" => ~WorkerView'.held
        BY <2>1, <2>2, <2>4, <3>1
      <3>3. /\ IF WorkerView.closed = "no" THEN WorkerView.failed => WorkerView'.failed
               ELSE WorkerView'.closed = WorkerView.closed /\ WorkerView'.failed = WorkerView.failed
            /\ WorkerView'.closed # "no" => WorkerView.asked /\ ~WorkerView'.held
        BY <2>2, <2>3, <2>4, <2>5, <3>1
      <3> QED BY <3>2, <3>3 DEF WorkerResource!Legal
    <2> QED BY <2>8, <2>9 DEF WorkerResource!Next
  <1> QED BY <1>1, <1>2, WorkerCorrect, PTL DEF WorkerSpec, WorkerIsOwned, WorkerResource!Spec

-----------------------------------------------------------------------------
(* The stream *)

\* A process is listed from its creation until its command has stopped it; only a listed one is
\* terminated, and what was terminated is gone.
Proper(c) ==
    /\ c.listed <=> c.os \in Running \cup {"gone"}
    /\ c.kill # "none" => c.listed
    /\ c.kill = "done" => c.os = "gone"
    /\ c.pc \in {"none", "call"} => c.os = "none"
    /\ c.pc \in {"spawn", "adopt"} => c.os = "pending"
    /\ c.pc \in {"run", "stop"} => c.listed
AllProper == \A p \in Procs : Proper(cmd[p])

\* A command that ended in its stage has left nothing, unless its process survived SIGKILL.
Over(c) == c.pc = "ended" => c.os = "none" \/ (c.kill = "stuck" /\ c.res # "ok")

\* The stages of the startup: only the commands of the current one have begun.
Staged ==
    /\ hstart = "new" <=> startup = "none"
    /\ startup = "none" => dir = "none" /\ \A p \in Procs : cmd[p].pc = "none"
    /\ startup \in Batches \cup {"hls"} =>
          \A p \in Procs \ Asked(startup) : cmd[p].pc = "none"
    /\ startup \in Batches => \A p \in Commands : Over(cmd[p])
    /\ startup = "hls" => dir = "made"
    /\ hstart = "closing" => hresult \in {"error", "cancelled"}

\* The conversion is watched once the startup waits for it, and verified once it is watched.
Beyond == {"wait", "ok", "error", "cancelled"}
Watched ==
    /\ monitor # "none" => startup \in Beyond /\ cmd[Main].pc = "ended"
    /\ verify # "none" => monitor # "none"
    /\ monitor # "none" /\ verify = "none" => \A p \in Commands : cmd[p].pc = "none"
    /\ monitor = "watch" => dir = "made" /\ (ready => verify = "ok")
    /\ ready => monitor # "none" \/ hclosed

\* The cleanup has ended the monitor, then the tasks, then the creation of processes, then the
\* processes, then removed the directory.
Cancelled == {"tasks", "spawning", "jobs", "main", "done"}
Ordered ==
    /\ hclosed => hclose = "done"
    /\ hclose = "done" => hclosed /\ dir # "made"
    /\ dir \in {"removed", "left"} => hclose = "done"
    /\ hclose \in Cancelled => monitor \in {"none", "done"}
    /\ hclose \in Cancelled \ {"tasks"} => hstart # "starting" /\ startup \in Final /\ verify \in Final
Emptied ==
    /\ hclose \in Cancelled /\ startup = "hls" => cmd[Main].os = "none"
    /\ hclose \in {"jobs", "main", "done"} => \A p \in Procs : cmd[p].os # "pending"
    /\ hclose \in {"main", "done"} =>
          \A p \in Procs : cmd[p].listed => cmd[p].kill \in {"done", "stuck"}

\* A stream that finished stays so until it is closed.
Finished == FinishedIsWhole /\ (hstate = "finished" => monitor = "done" /\ hclose # "done")

StreamInv == AllProper /\ Staged /\ Watched /\ Ordered /\ Emptied /\ Finished

\* How the record of a process goes on while it is about the same process.
Goes(c, d) ==
    /\ Proper(d)
    /\ c.pc \in {"none", "ended"} => d.pc = c.pc
    /\ c.os = "none" => d.os = "none"
    /\ d.os = "pending" => c.os = "pending"
    /\ c.os = "pending" /\ d.os # "pending" => d.listed \/ (d.os = "none" /\ d.pc = "ended")
    /\ c.listed /\ ~d.listed => c.os = "gone"
    /\ d.listed => c.listed \/ c.os = "pending"
    /\ c.kill \in {"done", "stuck"} /\ d.listed => d.kill \in {"done", "stuck"}
    /\ c.pc = "ended" /\ c.os = "gone" => d.os = "gone" /\ d.res = c.res

\* The record of a process to come: there is none yet, and none begins once the stream closes.
Coming(d) == Proper(d) /\ ~d.listed /\ (d.os = "pending" => hclose = "none")

\* What a step may do to the processes: a new one begins with its command, with a stage of the
\* startup, or to verify the conversion.
StageBegins == startup' # startup /\ startup' \in Batches \cup {"hls"}
Changed(p) ==
    /\ cmd'[p] \in Cmd
    /\ \/ Goes(cmd[p], cmd'[p])
       \/ /\ cmd[p].os = "none" /\ Coming(cmd'[p])
          /\ cmd[p].pc = "call" \/ StageBegins \/ (p # Main /\ verify' # verify)
Changes == cmd' \in [Procs -> Cmd] /\ \A p \in Procs : Changed(p)

LEMMA SameGoes == ASSUME NEW c \in Cmd, Proper(c) PROVE Goes(c, c)
  BY DEF Goes, Proper, Cmd, Running

LEMMA KilledGoes == ASSUME NEW c \in Cmd, Proper(c) PROVE Killed(c) \in Cmd /\ Goes(c, Killed(c))
  BY DEF Goes, Proper, Cmd, Running, Killed

\* A command that runs is stopped, with its answer or without one.
LEMMA StoppingGoes ==
  ASSUME NEW c \in Cmd, Proper(c), c.pc = "run", NEW res \in {"ok", "fail", "cancel"}
  PROVE  Stopping(c, res) \in Cmd /\ Goes(c, Stopping(c, res)) /\ Stopping(c, res).pc = "stop"
  <1>1. Killed(c) \in Cmd /\ Goes(c, Killed(c)) /\ Killed(c).listed BY KilledGoes DEF Killed, Proper, Cmd
  <1> DEFINE k == Killed(c)
  <1>2. Stopping(c, res) = [k EXCEPT !.pc = "stop", !.res = res] BY DEF Stopping
  <1> HIDE DEF k
  <1>3. k \in Cmd /\ Goes(c, k) /\ k.listed BY <1>1 DEF k
  <1>4. PICK d : d = Stopping(c, res) OBVIOUS
  <1>5. /\ d \in Cmd /\ d.pc = "stop" /\ d.res = res
        /\ d.os = k.os /\ d.kill = k.kill /\ d.listed = k.listed
    BY <1>2, <1>3, <1>4 DEF Cmd
  <1>6. Goes(c, d) BY <1>3, <1>5 DEF Goes, Proper, Running
  <1> QED BY <1>4, <1>5, <1>6

\* A command is cancelled wherever it is.
LEMMA CancelGoes == ASSUME NEW c \in Cmd, Proper(c) PROVE Cancel(c) \in Cmd /\ Goes(c, Cancel(c))
  <1>1. CASE c.pc = "spawn"
    <2>1. Cancel(c) = [c EXCEPT !.pc = "adopt", !.res = "cancel"] BY <1>1 DEF Cancel
    <2> QED BY <1>1, <2>1 DEF Goes, Proper, Cmd, Running
  <1>2. CASE c.pc = "run"
    <2>1. Cancel(c) = Stopping(c, "cancel") BY <1>2 DEF Cancel
    <2> QED BY <1>2, <2>1, StoppingGoes
  <1>3. CASE c.pc \in {"call", "adopt", "stop"}
    <2>1. Cancel(c) = [c EXCEPT !.pc = "ended", !.res = "cancel"] BY <1>3 DEF Cancel
    <2> QED BY <1>3, <2>1 DEF Goes, Proper, Cmd, Running
  <1>4. CASE c.pc \in {"none", "ended"}
    <2>1. Cancel(c) = c BY <1>4 DEF Cancel
    <2> QED BY <2>1, SameGoes
  <1> QED BY <1>1, <1>2, <1>3, <1>4 DEF Cmd

\* The records of new processes.
LEMMA ComingOnes ==
  /\ Idle \in Cmd /\ Coming(Idle) /\ Idle.pc = "none" /\ Idle.os = "none"
  /\ [Idle EXCEPT !.pc = "call"] \in Cmd /\ Coming([Idle EXCEPT !.pc = "call"])
  /\ Over([Idle EXCEPT !.pc = "call"])
  /\ Open \in Cmd /\ Coming(Open) /\ Over(Open)
  /\ hclose # "none" => Open.pc = "ended" /\ Open.os = "none"
  BY DEF Idle, Open, Cmd, Coming, Proper, Over, Running

\* A batch of new processes.
LEMMA Beginning ==
  ASSUME NEW ps \in SUBSET Procs, NEW table \in [Procs -> Cmd]
  PROVE  /\ Begin(ps, table) \in [Procs -> Cmd]
         /\ \A p \in Procs \ ps : Begin(ps, table)[p] = table[p]
         /\ \A p \in ps : /\ Begin(ps, table)[p] \in {[Idle EXCEPT !.pc = "call"], Open}
                          /\ Coming(Begin(ps, table)[p]) /\ Over(Begin(ps, table)[p])
  <1> DEFINE d == IF ps = Commands THEN [Idle EXCEPT !.pc = "call"] ELSE Open
  <1>1. d \in Cmd /\ Coming(d) /\ Over(d) /\ d \in {[Idle EXCEPT !.pc = "call"], Open} BY ComingOnes
  <1>2. Begin(ps, table) = [p \in Procs |-> IF p \notin ps THEN table[p] ELSE d] BY DEF Begin
  <1> HIDE DEF d
  <1> QED BY <1>1, <1>2

\* The processes of a stage.
LEMMA AskedFor ==
  ASSUME StreamAssumption
  PROVE  /\ \A stage \in Batches : Asked(stage) \subseteq Commands
         /\ Asked("hls") = {Main} /\ Main \notin Commands
         /\ \A stage : Asked(stage) \subseteq Procs
  <1>1. (CHOOSE p \in Commands : TRUE) \in Commands BY DEF StreamAssumption
  <1> QED BY <1>1 DEF Asked, Batches, Procs, Main, StreamAssumption

\* A step of one process.
OneProcess(p) == Call(p) \/ Answer(p) \/ Terminate(p) \/ CommandEnds(p) \/ Spawned(p) \/ ProcessEnds(p)
LEMMA OneChanges ==
  ASSUME HTypeOK, AllProper, NEW p \in Procs, OneProcess(p)
  PROVE  /\ cmd' = [cmd EXCEPT ![p] = cmd'[p]] /\ cmd' \in [Procs -> Cmd] /\ Changed(p)
         /\ p # Main /\ Over(cmd[p]) => Over(cmd'[p])
         /\ UNCHANGED <<call, startup, verify, monitor, hclose, window, shown, dir, hclosed>>
  <1> DEFINE c == cmd[p]
  <1>0. UNCHANGED <<call, startup, verify, monitor, hclose, window, shown, dir, hclosed>>
    BY DEF OneProcess, Call, Answer, Terminate, CommandEnds, Spawned, ProcessEnds
  <1>1. c \in Cmd /\ Proper(c) /\ cmd \in [Procs -> Cmd] BY DEF HTypeOK, AllProper
  <1>2. ASSUME NEW d \in Cmd, cmd' = [cmd EXCEPT ![p] = d],
               Goes(c, d) \/ (c.os = "none" /\ Coming(d) /\ c.pc = "call"), p # Main /\ Over(c) => Over(d)
        PROVE  /\ cmd' = [cmd EXCEPT ![p] = cmd'[p]] /\ cmd' \in [Procs -> Cmd] /\ Changed(p)
               /\ p # Main /\ Over(cmd[p]) => Over(cmd'[p])
               /\ UNCHANGED <<call, startup, verify, monitor, hclose, window, shown, dir, hclosed>>
    <2>1. cmd'[p] = d /\ cmd' \in [Procs -> Cmd] BY <1>1, <1>2
    <2> QED BY <1>0, <1>2, <2>1 DEF Changed
  <1>3. CASE Call(p)
    <2>1. c.pc = "call" /\ cmd' = [cmd EXCEPT ![p] = Open] BY <1>3 DEF Call, Set
    <2>2. c.os = "none" BY <1>1, <2>1 DEF Proper
    <2> QED BY <1>2, <2>1, <2>2, ComingOnes
  <1>4. CASE Answer(p)
    <2>1. PICK d \in Answers(c) : cmd' = [cmd EXCEPT ![p] = d] BY <1>4 DEF Answer, Set
    <2>2. c.pc = "run" BY <1>4 DEF Answer
    <2>3. d = Stopping(c, "fail") \/ d = Stopping(c, "ok") BY <2>1 DEF Answers
    <2>4. d \in Cmd /\ Goes(c, d) /\ d.pc = "stop" BY <1>1, <2>2, <2>3, StoppingGoes
    <2>5. Over(d) BY <2>4 DEF Over
    <2> QED BY <1>2, <2>1, <2>4, <2>5
  <1>5. CASE Terminate(p)
    <2>1. PICK d : /\ cmd' = [cmd EXCEPT ![p] = d]
                   /\ \/ d = [c EXCEPT !.kill = "done", !.os = "gone"]
                      \/ c.os = "running" /\ d = [c EXCEPT !.kill = "stuck"]
      BY <1>5 DEF Terminate, Set
    <2>2. c.kill = "term" BY <1>5 DEF Terminate
    <2>3. d \in Cmd BY <1>1, <2>1 DEF Cmd
    <2>4. Goes(c, d) BY <1>1, <2>1, <2>2 DEF Goes, Proper, Cmd, Running
    <2>5. Over(c) => Over(d) BY <1>1, <2>1, <2>2 DEF Over, Proper, Cmd, Running
    <2> QED BY <1>2, <2>1, <2>3, <2>4, <2>5
  <1>6. CASE CommandEnds(p)
    <2>1. PICK d : /\ cmd' = [cmd EXCEPT ![p] = d]
                   /\ \/ c.kill = "done" /\ d = [Idle EXCEPT !.pc = "ended", !.res = c.res]
                      \/ c.kill = "stuck" /\ d = [c EXCEPT !.pc = "ended", !.res = IF @ = "cancel" THEN @ ELSE "fail"]
      BY <1>6 DEF CommandEnds, Set
    <2>2. c.pc = "stop" BY <1>6 DEF CommandEnds
    <2>3. d \in Cmd BY <1>1, <2>1 DEF Cmd, Idle
    <2>4. Goes(c, d) BY <1>1, <2>1, <2>2 DEF Goes, Proper, Cmd, Running, Idle
    <2>5. Over(d) BY <1>1, <2>1 DEF Over, Idle, Cmd
    <2> QED BY <1>2, <2>1, <2>3, <2>4, <2>5
  <1>7. CASE Spawned(p)
    <2>1. c.os = "pending" BY <1>7 DEF Spawned
    <2>2. CASE cmd' = [cmd EXCEPT ![p] = Created(p)]
      <3>0. PICK d : d = Created(p) OBVIOUS
      <3> SUFFICES d \in Cmd /\ Goes(c, d) /\ (p # Main /\ Over(c) => Over(d))
        BY <1>2, <2>2, <3>0
      <3> DEFINE e == [c EXCEPT !.os = "running", !.listed = TRUE]
      <3>1. Created(p) = CASE e.pc = "spawn" -> [e EXCEPT !.pc = IF p = Main THEN "ended" ELSE "run"]
                           [] e.pc = "adopt" -> Stopping(e, "cancel")
                           [] OTHER -> e
        BY DEF Created
      <3>2. /\ e \in Cmd /\ e.os = "running" /\ e.listed /\ e.kill = "none" /\ e.pc = c.pc
            /\ c.pc \in {"spawn", "adopt", "ended"} /\ c.kill = "none"
        BY <1>1, <2>1 DEF Cmd, Proper, Running
      <3> HIDE DEF e
      <3>3. CASE c.pc = "spawn"
        <4>1. Created(p) = [e EXCEPT !.pc = IF p = Main THEN "ended" ELSE "run"] BY <3>1, <3>2, <3>3
        <4>2. /\ Created(p) \in Cmd /\ Created(p).os = "running" /\ Created(p).listed
              /\ Created(p).kill = "none" /\ Created(p).pc = IF p = Main THEN "ended" ELSE "run"
          BY <3>2, <4>1 DEF Cmd
        <4>3. Goes(c, Created(p)) BY <2>1, <3>2, <3>3, <4>2 DEF Goes, Proper, Running
        <4>4. p # Main => Over(Created(p)) BY <4>2 DEF Over
        <4> QED BY <3>0, <4>2, <4>3, <4>4
      <3>4. CASE c.pc = "adopt"
        <4>1. Created(p) = Stopping(e, "cancel") BY <3>1, <3>2, <3>4
        <4>2. Killed(e) = [e EXCEPT !.kill = "term"] BY <3>2 DEF Killed, Running
        <4>3. Created(p) = [[e EXCEPT !.kill = "term"] EXCEPT !.pc = "stop", !.res = "cancel"]
          BY <4>1, <4>2 DEF Stopping
        <4>4. /\ Created(p) \in Cmd /\ Created(p).os = "running" /\ Created(p).listed
              /\ Created(p).kill = "term" /\ Created(p).pc = "stop"
          BY <3>2, <4>3 DEF Cmd
        <4>5. Goes(c, Created(p)) BY <2>1, <3>2, <3>4, <4>4 DEF Goes, Proper, Running
        <4>6. Over(Created(p)) BY <4>4 DEF Over
        <4> QED BY <3>0, <4>4, <4>5, <4>6
      <3>5. CASE c.pc = "ended"
        <4>1. Created(p) = e BY <3>1, <3>2, <3>5
        <4>2. Goes(c, e) BY <2>1, <3>2, <3>5 DEF Goes, Proper, Running
        <4>3. ~Over(c) BY <2>1, <3>2, <3>5 DEF Over
        <4> QED BY <3>0, <3>2, <4>1, <4>2, <4>3
      <3> QED BY <3>2, <3>3, <3>4, <3>5
    <2>3. CASE cmd' = [cmd EXCEPT ![p] = [c EXCEPT !.pc = "ended", !.os = "none",
                                            !.res = IF c.pc = "spawn" THEN "fail" ELSE @]]
      <3>0. PICK d : d = [c EXCEPT !.pc = "ended", !.os = "none",
                                  !.res = IF c.pc = "spawn" THEN "fail" ELSE @]
        OBVIOUS
      <3>1. d \in Cmd /\ d.pc = "ended" /\ d.os = "none" /\ d.listed = c.listed /\ d.kill = c.kill
        <4>1. \A res \in {"ok", "fail", "cancel"} :
                 LET x == [c EXCEPT !.pc = "ended", !.os = "none", !.res = res]
                 IN  x \in Cmd /\ x.pc = "ended" /\ x.os = "none" /\ x.listed = c.listed /\ x.kill = c.kill
          BY <1>1 DEF Cmd
        <4>2. (IF c.pc = "spawn" THEN "fail" ELSE c.res) \in {"ok", "fail", "cancel"} BY <1>1 DEF Cmd
        <4> QED BY <3>0, <4>1, <4>2
      <3>2. c.listed = FALSE /\ c.kill = "none" BY <1>1, <2>1 DEF Proper, Running, Cmd
      <3>3. cmd' = [cmd EXCEPT ![p] = d] BY <2>3, <3>0
      <3>4. Goes(c, d) BY <1>1, <2>1, <3>1, <3>2 DEF Goes, Proper, Running
      <3>5. Over(d) BY <3>1 DEF Over
      <3> QED BY <1>2, <3>1, <3>3, <3>4, <3>5
    <2> QED BY <1>7, <2>2, <2>3 DEF Spawned, Set
  <1>8. CASE ProcessEnds(p)
    <2>1. c.os \in Running BY <1>8 DEF ProcessEnds
    <2>2. PICK d : /\ cmd' = [cmd EXCEPT ![p] = d]
                   /\ \/ p = Main /\ \E res \in {"ok", "fail"} : d = [c EXCEPT !.os = "gone", !.res = res]
                      \/ p # Main /\ \E os \in {"leaderless", "gone"} : d = [c EXCEPT !.os = os]
      BY <1>8 DEF ProcessEnds, Set
    <2>3. d \in Cmd BY <1>1, <2>2 DEF Cmd, Running
    <2>4. Goes(c, d) BY <1>1, <2>1, <2>2 DEF Goes, Proper, Cmd, Running
    <2>5. p # Main /\ Over(c) => Over(d) BY <1>1, <2>1, <2>2 DEF Over, Cmd, Running
    <2> QED BY <1>2, <2>2, <2>3, <2>4, <2>5
  <1> HIDE DEF c
  <1> QED BY <1>3, <1>4, <1>5, <1>6, <1>7, <1>8 DEF OneProcess

\* Where nothing changes, where commands are cancelled, and where a batch begins.
LEMMA StaysChanges == ASSUME HTypeOK, AllProper, cmd' = cmd PROVE Changes
  <1>1. \A p \in Procs : cmd[p] \in Cmd /\ Goes(cmd[p], cmd[p])
    BY SameGoes DEF HTypeOK, AllProper
  <1> QED BY <1>1 DEF Changes, Changed, HTypeOK

LEMMA CancelledChanges ==
  ASSUME HTypeOK, AllProper, NEW ps \in SUBSET Procs, cmd' = CancelAll(ps)
  PROVE  Changes
  <1>1. \A p \in Procs : /\ cmd[p] \in Cmd /\ Goes(cmd[p], cmd[p])
                       /\ Cancel(cmd[p]) \in Cmd /\ Goes(cmd[p], Cancel(cmd[p]))
    BY SameGoes, CancelGoes DEF HTypeOK, AllProper
  <1>2. \A p \in Procs : cmd'[p] = IF p \in ps THEN Cancel(cmd[p]) ELSE cmd[p] BY DEF CancelAll
  <1>3. cmd' \in [Procs -> Cmd] BY <1>1 DEF CancelAll
  <1> QED BY <1>1, <1>2, <1>3 DEF Changes, Changed

LEMMA BeginChanges ==
  ASSUME HTypeOK, AllProper, NEW ps \in SUBSET Procs, \A p \in ps : cmd[p].os = "none",
         \/ cmd' = Begin(ps, cmd) /\ (StageBegins \/ (Main \notin ps /\ verify' # verify))
         \/ /\ cmd' = Begin(ps, [p \in Procs |-> Idle]) /\ StageBegins
            /\ \A p \in Procs : cmd[p].os = "none"
  PROVE  Changes
  <1>1. cmd \in [Procs -> Cmd] /\ [p \in Procs |-> Idle] \in [Procs -> Cmd]
    BY ComingOnes DEF HTypeOK
  <1>2. PICK table \in [Procs -> Cmd] : cmd' = Begin(ps, table) BY <1>1
  <1>3. cmd' \in [Procs -> Cmd] /\ \A p \in ps : Coming(cmd'[p]) BY <1>2, Beginning
  <1>4. CASE cmd' = Begin(ps, cmd) /\ (StageBegins \/ (Main \notin ps /\ verify' # verify))
    <2>1. \A p \in Procs \ ps : cmd'[p] = cmd[p] BY <1>1, <1>4, Beginning
    <2>2. \A p \in Procs : Goes(cmd[p], cmd[p]) BY <1>1, SameGoes DEF AllProper
    <2> QED BY <1>3, <1>4, <2>1, <2>2 DEF Changes, Changed
  <1>5. CASE /\ cmd' = Begin(ps, [p \in Procs |-> Idle]) /\ StageBegins
             /\ \A p \in Procs : cmd[p].os = "none"
    <2>1. PICK blank : blank = [p \in Procs |-> Idle] OBVIOUS
    <2>2. blank \in [Procs -> Cmd] /\ cmd' = Begin(ps, blank) BY <1>1, <1>5, <2>1
    <2>3. \A p \in Procs \ ps : cmd'[p] = blank[p] BY <2>2, Beginning
    <2>4. \A p \in Procs \ ps : cmd'[p] = Idle BY <2>1, <2>3
    <2> QED BY <1>3, <1>5, <2>4, ComingOnes DEF Changes, Changed
  <1> QED BY <1>4, <1>5

\* A batch that went well, or whose encoder may be tried again, has left no process.
LEMMA StageLeavesNothing ==
  ASSUME StreamAssumption, HTypeOK, AllProper, Staged, startup \in Batches,
         AllOk(Asked(startup)) \/ (Retries /\ Failed(Asked(startup)))
  PROVE  \A p \in Procs : cmd[p].os = "none"
  <1>1. \A p \in Procs \ Asked(startup) : cmd[p].os = "none" BY DEF Staged, AllProper, Proper
  <1>2. Asked(startup) \subseteq Commands /\ Asked(startup) \subseteq Procs BY AskedFor DEF Procs
  <1>3. \A p \in Asked(startup) : cmd[p].pc = "ended" => cmd[p].os = "none" \/ cmd[p].kill = "stuck"
    BY <1>2 DEF Staged, Over
  <1>4. CASE AllOk(Asked(startup))
    <2>1. \A p \in Asked(startup) : cmd[p].pc = "ended" /\ cmd[p].res = "ok" BY <1>4 DEF AllOk
    <2>2. \A p \in Commands : Over(cmd[p]) BY DEF Staged
    <2>3. \A p \in Asked(startup) : cmd[p].os = "none" BY <1>2, <2>1, <2>2 DEF Over
    <2> QED BY <1>1, <2>3
  <1>5. CASE Retries /\ Failed(Asked(startup))
    <2>1. Asked(startup) = {CHOOSE p \in Commands : TRUE} BY <1>5 DEF Retries, Asked
    <2>2. \A p \in Asked(startup) : cmd[p].pc = "ended" BY <1>5, <2>1 DEF Failed
    <2>3. \A p \in Procs : cmd[p].kill # "stuck" BY <1>5 DEF Retries
    <2> QED BY <1>1, <1>2, <1>3, <2>2, <2>3
  <1> QED BY <1>4, <1>5

\* The conversion is being watched and not yet verified: the commands are all over.
LEMMA UnverifiedIsIdle ==
  ASSUME AllProper, Watched, monitor # "none", verify = "none"
  PROVE  \A p \in Commands : cmd[p].pc = "none" /\ cmd[p].os = "none"
  BY DEF Watched, AllProper, Proper, Procs

\* The only ways a step changes the processes.
LEMMA Processes ==
  ASSUME StreamAssumption, HTypeOK, AllProper, Staged, Watched, [StreamNext]_hvars
  PROVE  Changes
  <1>0. Commands \subseteq Procs BY DEF Procs
  <1>1. CASE cmd' = cmd BY <1>1, StaysChanges
  <1>2. ASSUME NEW p \in Procs, OneProcess(p) PROVE Changes
    <2>1. cmd' = [cmd EXCEPT ![p] = cmd'[p]] /\ cmd' \in [Procs -> Cmd] /\ Changed(p)
      BY <1>2, OneChanges
    <2>2. \A q \in Procs \ {p} : cmd'[q] = cmd[q] BY <2>1
    <2>3. \A q \in Procs : Goes(cmd[q], cmd[q]) BY SameGoes DEF HTypeOK, AllProper
    <2> QED BY <2>1, <2>2, <2>3 DEF Changes, Changed
  <1>3. CASE StartStream
    <2>1. \A p \in Procs : cmd[p].os = "none" BY <1>3 DEF StartStream, Staged, AllProper, Proper
    <2>2. StageBegins BY <1>3 DEF StartStream, Staged, StageBegins, Batches
    <2> QED BY <1>0, <1>3, <2>1, <2>2, BeginChanges DEF StartStream
  <1>4. CASE Advance
    <2>1. \A p \in Procs : cmd[p].os = "none" BY <1>4, StageLeavesNothing DEF Advance
    <2>2. \/ cmd' = cmd
          \/ \E s : cmd' = Begin(Asked(s), [p \in Procs |-> Idle]) /\ StageBegins
      BY <1>4 DEF Advance, StageBegins, After, Batches
    <2>3. \A stage : Asked(stage) \in SUBSET Procs BY AskedFor
    <2>4. ASSUME NEW s, cmd' = Begin(Asked(s), [p \in Procs |-> Idle]), StageBegins PROVE Changes
      BY <2>1, <2>3, <2>4, BeginChanges
    <2> QED BY <1>1, <2>2, <2>4
  <1>5. CASE StageFails
    <2>1. CASE Retries /\ cmd' = Begin(Asked("retry"), [p \in Procs |-> Idle]) /\ startup' = "retry"
      <3>1. startup \in Batches /\ Failed(Asked(startup)) BY <1>5, <2>1 DEF StageFails, Retries, Batches
      <3>2. \A p \in Procs : cmd[p].os = "none" BY <2>1, <3>1, StageLeavesNothing
      <3>3. Asked("retry") \in SUBSET Procs BY AskedFor
      <3>4. StageBegins BY <2>1 DEF Retries, StageBegins, Batches
      <3> QED BY <2>1, <3>2, <3>3, <3>4, BeginChanges
    <2>2. CASE cmd' = CancelAll(Asked(startup))
      <3>1. Asked(startup) \in SUBSET Procs BY AskedFor
      <3> QED BY <2>2, <3>1, CancelledChanges
    <2> QED BY <1>5, <2>1, <2>2 DEF StageFails
  <1>6. CASE Poll
    <2>1. CASE MonitorFails
      <3>1. Main \in Procs BY DEF Procs
      <3>2. \A p \in Procs : cmd[p] \in Cmd /\ Goes(cmd[p], cmd[p]) BY SameGoes DEF HTypeOK, AllProper
      <3>3. Killed(cmd[Main]) \in Cmd /\ Goes(cmd[Main], Killed(cmd[Main]))
        BY <3>1, KilledGoes DEF HTypeOK, AllProper
      <3>4. /\ cmd' \in [Procs -> Cmd] /\ cmd'[Main] = Killed(cmd[Main])
            /\ \A p \in Procs \ {Main} : cmd'[p] = cmd[p]
        BY <2>1, <3>1, <3>3 DEF MonitorFails, Set, HTypeOK
      <3> QED BY <3>2, <3>3, <3>4 DEF Changes, Changed
    <2>2. CASE monitor = "watch" /\ verify = "none" /\ verify' = "run" /\ cmd' = Begin(Commands, cmd)
      <3>1. \A p \in Commands : cmd[p].os = "none" BY <2>2, UnverifiedIsIdle
      <3> QED BY <1>0, <2>2, <3>1, BeginChanges, AskedFor
    <2> QED BY <1>1, <1>6, <2>1, <2>2 DEF Poll, shown
  <1>7. CASE Verified BY <1>0, <1>1, <1>7, CancelledChanges DEF Verified
  <1>8. CASE CleanupBegins
    <2>1. ASSUME NEW p \in Asked(startup), Swallow, cmd[p].pc = "run",
                 NEW c \in Answers(cmd[p]), Set(p, c)
          PROVE  Changes
      <3>1. p \in Procs BY <2>1, AskedFor
      <3>2. \A q \in Procs : cmd[q] \in Cmd /\ Goes(cmd[q], cmd[q]) BY SameGoes DEF HTypeOK, AllProper
      <3>3. c \in Cmd /\ Goes(cmd[p], c)
        BY <2>1, <3>1, <3>2, StoppingGoes DEF Answers, AllProper
      <3>4. /\ cmd' \in [Procs -> Cmd] /\ cmd'[p] = c
            /\ \A q \in Procs \ {p} : cmd'[q] = cmd[q]
        BY <2>1, <3>1, <3>3 DEF Set, HTypeOK
      <3> QED BY <3>2, <3>3, <3>4 DEF Changes, Changed
    <2>2. ASSUME NEW ps \in SUBSET Procs, cmd' = CancelAll(ps) PROVE Changes
      BY <2>2, CancelledChanges
    <2>3. (IF Unwinding(startup) THEN Procs ELSE {}) \cup (IF Unwinding(verify) THEN Commands ELSE {})
             \in SUBSET Procs
      BY <1>0
    <2> QED BY <1>8, <2>1, <2>2, <2>3 DEF CleanupBegins
  <1>9. CASE SpawningEnded
    <2>1. \A p \in Procs : /\ cmd[p] \in Cmd /\ Goes(cmd[p], cmd[p])
                         /\ Killed(cmd[p]) \in Cmd /\ Goes(cmd[p], Killed(cmd[p]))
      BY SameGoes, KilledGoes DEF HTypeOK, AllProper
    <2>2. cmd' = [p \in Procs |-> IF cmd[p].listed THEN Killed(cmd[p]) ELSE cmd[p]]
      BY <1>9 DEF SpawningEnded
    <2>3. cmd' \in [Procs -> Cmd] BY <2>1, <2>2
    <2> QED BY <2>1, <2>2, <2>3 DEF Changes, Changed
  <1>10. ASSUME \/ UNCHANGED hvars \/ CancelStartStream \/ CloseStream \/ Unwound \/ Converting
                \/ StartupEnds \/ StartEnds \/ StartReturns \/ MonitorStops \/ VerifyUnwound
                \/ TasksEnded \/ JobsStopped \/ CleanupEnds \/ Segment
         PROVE  cmd' = cmd
    BY <1>10 DEF hvars, CancelStartStream, CloseStream, Unwound, Converting, StartupEnds, StartEnds,
       StartReturns, MonitorStops, VerifyUnwound, TasksEnded, JobsStopped, CleanupEnds, Segment
  <1> QED
    BY <1>1, <1>2, <1>3, <1>4, <1>5, <1>6, <1>7, <1>8, <1>9, <1>10
    DEF StreamNext, StreamCall, StreamOwn, CommandOwn, OneProcess

LEMMA StreamTyped ==
  ASSUME HTypeOK, AllProper, Changes, [StreamNext]_hvars
  PROVE  HTypeOK'
  <1>0. cmd' \in [Procs -> Cmd] BY DEF Changes
  <1> USE <1>0 DEF HTypeOK, Batches, Final, call, shown, RequestStreamClose
  <1>1. CASE UNCHANGED hvars BY <1>1 DEF hvars
  <1>2. CASE StartStream BY <1>2 DEF StartStream
  <1>3. CASE CancelStartStream BY <1>3 DEF CancelStartStream
  <1>4. CASE CloseStream BY <1>4 DEF CloseStream
  <1>5. CASE Advance BY <1>5 DEF Advance, After
  <1>6. CASE StageFails BY <1>6 DEF StageFails, Retries
  <1>7. CASE Unwound BY <1>7 DEF Unwound
  <1>8. CASE Converting BY <1>8 DEF Converting
  <1>9. CASE StartupEnds BY <1>9 DEF StartupEnds
  <1>10. CASE StartEnds
    <2>1. herror' \in BOOLEAN BY <1>10, Zenon DEF StartEnds
    <2> QED BY <1>10, <2>1 DEF StartEnds
  <1>11. CASE StartReturns BY <1>11 DEF StartReturns
  <1>12. CASE Poll
    <2>1. CASE MonitorFails BY <1>12, <2>1 DEF Poll, MonitorFails
    <2>2. CASE UNCHANGED <<monitor, shown>> /\ verify' = "run" BY <1>12, <2>2 DEF Poll
    <2>3. CASE ready' = TRUE /\ UNCHANGED <<monitor, verify, herror, finished>> /\ hstate' = "streaming"
      BY <1>12, <2>3 DEF Poll
    <2>4. CASE finished' = TRUE /\ UNCHANGED <<verify, herror, ready>> /\ hstate' = "finished" /\ monitor' = "done"
      BY <1>12, <2>4 DEF Poll
    <2> QED BY <1>12, <2>1, <2>2, <2>3, <2>4 DEF Poll
  <1>13. CASE MonitorStops BY <1>13 DEF MonitorStops
  <1>14. CASE Verified BY <1>14 DEF Verified
  <1>15. CASE VerifyUnwound BY <1>15 DEF VerifyUnwound
  <1>16. CASE CleanupBegins BY <1>16 DEF CleanupBegins, Swallow, Unwinding
  <1>17. CASE TasksEnded BY <1>17 DEF TasksEnded
  <1>18. CASE SpawningEnded BY <1>18 DEF SpawningEnded
  <1>19. CASE JobsStopped BY <1>19 DEF JobsStopped
  <1>20. CASE CleanupEnds BY <1>20 DEF CleanupEnds
  <1>21. CASE Segment BY <1>21 DEF Segment
  <1>22. ASSUME NEW p \in Procs, OneProcess(p) PROVE HTypeOK'
    <2>1. UNCHANGED <<call, startup, verify, monitor, hclose, window, shown, dir, hclosed>>
      BY <1>22, OneChanges
    <2> QED BY <2>1
  <1> QED
    BY <1>1, <1>2, <1>3, <1>4, <1>5, <1>6, <1>7, <1>8, <1>9, <1>10, <1>11, <1>12,
       <1>13, <1>14, <1>15, <1>16, <1>17, <1>18, <1>19, <1>20, <1>21, <1>22
    DEF StreamNext, StreamCall, StreamOwn, CommandOwn, OneProcess

\* What follows for the processes of a stream that closes: none begins.
LEMMA NoneBegins ==
  ASSUME HTypeOK, AllProper, Changes, hclose # "none", NEW p \in Procs
  PROVE  /\ cmd[p].os = "none" => cmd'[p].os = "none"
         /\ cmd'[p].os = "pending" => cmd[p].os = "pending"
         /\ cmd'[p].listed => cmd[p].listed \/ cmd[p].os = "pending"
         /\ cmd'[p].listed /\ cmd[p].kill \in {"done", "stuck"} => cmd'[p].kill \in {"done", "stuck"}
  BY DEF HTypeOK, AllProper, Changes, Changed, Goes, Coming, Proper, Cmd, Running

\* The processes keep the shape of their records.
LEMMA ProperKept == ASSUME Changes PROVE AllProper'
  BY DEF Changes, Changed, Goes, Coming, AllProper

\* The order of the cleanup.
LEMMA OrderedKept ==
  ASSUME HTypeOK, AllProper, Ordered, Emptied, [StreamNext]_hvars
  PROVE  Ordered'
  <1>0. hclose \in Cancelled /\ startup = "hls" => ~cmd[Main].listed
    BY DEF Emptied, AllProper, Proper, Procs, Running
  <1> USE DEF Batches, Final, call, shown, RequestStreamClose, Cancelled, Ordered
  <1>1. CASE UNCHANGED hvars BY <1>1 DEF hvars
  <1>2. CASE StartStream BY <1>2 DEF StartStream
  <1>3. CASE CancelStartStream BY <1>3 DEF CancelStartStream
  <1>4. CASE CloseStream BY <1>4 DEF CloseStream
  <1>5. CASE Advance BY <1>5 DEF Advance, After
  <1>6. CASE StageFails BY <1>6 DEF StageFails, Retries
  <1>7. CASE Unwound BY <1>7 DEF Unwound
  <1>8. CASE Converting BY <1>0, <1>8 DEF Converting
  <1>9. CASE StartupEnds BY <1>9 DEF StartupEnds
  <1>10. CASE StartEnds BY <1>10 DEF StartEnds
  <1>11. CASE StartReturns BY <1>11 DEF StartReturns
  <1>12. CASE Poll BY <1>12 DEF Poll, MonitorFails
  <1>13. CASE MonitorStops BY <1>13 DEF MonitorStops
  <1>14. CASE Verified BY <1>14 DEF Verified
  <1>15. CASE VerifyUnwound BY <1>15 DEF VerifyUnwound
  <1>16. CASE CleanupBegins BY <1>16 DEF CleanupBegins, Swallow, Unwinding
  <1>17. CASE TasksEnded BY <1>17 DEF TasksEnded
  <1>18. CASE SpawningEnded BY <1>18 DEF SpawningEnded
  <1>19. CASE JobsStopped BY <1>19 DEF JobsStopped
  <1>20. CASE CleanupEnds BY <1>20 DEF CleanupEnds
  <1>21. CASE Segment BY <1>21 DEF Segment
  <1>22. ASSUME NEW p \in Procs, OneProcess(p) PROVE Ordered'
    <2>1. UNCHANGED <<call, startup, verify, monitor, hclose, window, shown, dir, hclosed>>
      BY <1>22, OneChanges
    <2> QED BY <2>1
  <1> QED
    BY <1>1, <1>2, <1>3, <1>4, <1>5, <1>6, <1>7, <1>8, <1>9, <1>10, <1>11, <1>12,
       <1>13, <1>14, <1>15, <1>16, <1>17, <1>18, <1>19, <1>20, <1>21, <1>22
    DEF StreamNext, StreamCall, StreamOwn, CommandOwn, OneProcess

\* Which step writes what.
Moves ==
    /\ \/ hclose' = hclose \/ (hclose = "none" /\ hclose' = "begin")
       \/ CleanupBegins \/ TasksEnded \/ SpawningEnded \/ JobsStopped \/ CleanupEnds
    /\ \/ startup' = startup
       \/ StartStream \/ Advance \/ StageFails \/ Unwound \/ Converting \/ StartupEnds \/ CleanupBegins
    /\ monitor' = monitor \/ Converting \/ Poll \/ MonitorStops \/ CleanupBegins
    /\ verify' = verify \/ Poll \/ Verified \/ VerifyUnwound \/ CleanupBegins
    /\ dir' = dir \/ Advance \/ CleanupEnds
    /\ ready' = ready \/ Poll \/ CleanupEnds
    /\ hstate' = hstate \/ StartStream \/ Poll \/ CleanupEnds
    /\ herror' = herror \/ StartEnds \/ Poll
    /\ hclosed' = hclosed \/ CleanupEnds
    /\ \/ hstart' = hstart /\ hresult' = hresult
       \/ StartStream \/ CancelStartStream \/ StartEnds \/ StartReturns
    /\ cmd' = cmd \/ (\E p \in Procs : OneProcess(p)) \/ StartStream \/ Advance \/ StageFails
       \/ Poll \/ Verified \/ CleanupBegins \/ SpawningEnded

LEMMA StreamMoves == ASSUME HTypeOK, AllProper, [StreamNext]_hvars PROVE Moves
  <1> USE DEF Moves, call, shown, RequestStreamClose
  <1>1. CASE UNCHANGED hvars BY <1>1 DEF hvars
  <1>2. CASE StartStream BY <1>2 DEF StartStream
  <1>3. CASE CancelStartStream BY <1>3 DEF CancelStartStream
  <1>4. CASE CloseStream BY <1>4 DEF CloseStream
  <1>5. CASE Advance BY <1>5 DEF Advance
  <1>6. CASE StageFails BY <1>6 DEF StageFails
  <1>7. CASE Unwound BY <1>7 DEF Unwound
  <1>8. CASE Converting BY <1>8 DEF Converting
  <1>9. CASE StartupEnds BY <1>9 DEF StartupEnds
  <1>10. CASE StartEnds BY <1>10 DEF StartEnds
  <1>11. CASE StartReturns BY <1>11 DEF StartReturns
  <1>12. CASE Poll BY <1>12 DEF Poll
  <1>13. CASE MonitorStops BY <1>13 DEF MonitorStops
  <1>14. CASE Verified BY <1>14 DEF Verified
  <1>15. CASE VerifyUnwound BY <1>15 DEF VerifyUnwound
  <1>16. CASE CleanupBegins BY <1>16 DEF CleanupBegins
  <1>17. CASE TasksEnded BY <1>17 DEF TasksEnded
  <1>18. CASE SpawningEnded BY <1>18 DEF SpawningEnded
  <1>19. CASE JobsStopped BY <1>19 DEF JobsStopped
  <1>20. CASE CleanupEnds BY <1>20 DEF CleanupEnds
  <1>21. CASE Segment BY <1>21 DEF Segment
  <1>22. ASSUME NEW p \in Procs, OneProcess(p) PROVE Moves
    <2>1. UNCHANGED <<call, startup, verify, monitor, hclose, window, shown, dir, hclosed>>
      BY <1>22, OneChanges
    <2> QED BY <1>22, <2>1
  <1> QED
    BY <1>1, <1>2, <1>3, <1>4, <1>5, <1>6, <1>7, <1>8, <1>9, <1>10, <1>11, <1>12,
       <1>13, <1>14, <1>15, <1>16, <1>17, <1>18, <1>19, <1>20, <1>21, <1>22
    DEF StreamNext, StreamCall, StreamOwn, CommandOwn, OneProcess

\* What the stream has when it closes: no conversion is started, nothing is being created, every
\* process is stopped.
LEMMA EmptiedKept ==
  ASSUME StreamAssumption, HTypeOK, StreamInv, Changes, [StreamNext]_hvars
  PROVE  Emptied'
  <1>1. Moves /\ AllProper /\ Staged /\ Ordered /\ Emptied BY StreamMoves DEF StreamInv
  <1>2. Main \in Procs BY DEF Procs
  <1>3. hclose' \in Cancelled /\ startup' = "hls" => cmd'[Main].os = "none"
    <2> SUFFICES ASSUME hclose' \in Cancelled, startup' = "hls" PROVE cmd'[Main].os = "none" OBVIOUS
    <2>1. ~CleanupBegins BY DEF CleanupBegins, Swallow, Unwinding, Batches
    <2>2. hclose \in Cancelled
      BY <1>1, <2>1 DEF Moves, Cancelled, TasksEnded, SpawningEnded, JobsStopped, CleanupEnds
    <2>3. startup = "hls" \/ Advance
      BY <1>1, <2>1 DEF Moves, StartStream, StageFails, Unwound, Converting, StartupEnds
    <2>4. cmd[Main].os = "none"
      <3>1. CASE startup = "hls" BY <1>1, <2>2, <3>1 DEF Emptied
      <3>2. CASE Advance
        <4>1. startup \in Batches /\ AllOk(Asked(startup)) BY <3>2 DEF Advance
        <4> QED BY <1>1, <1>2, <4>1, StageLeavesNothing
      <3> QED BY <2>3, <3>1, <3>2
    <2> QED BY <1>1, <1>2, <2>2, <2>4, NoneBegins DEF Cancelled
  <1>4. hclose' \in {"jobs", "main", "done"} => \A p \in Procs : cmd'[p].os # "pending"
    <2> SUFFICES ASSUME hclose' \in {"jobs", "main", "done"}, NEW p \in Procs
                 PROVE  cmd'[p].os # "pending"
      OBVIOUS
    <2>1. hclose \in {"jobs", "main", "done"} \/ SpawningEnded
      BY <1>1 DEF Moves, CleanupBegins, TasksEnded, JobsStopped, CleanupEnds
    <2>2. hclose # "none" /\ cmd[p].os # "pending" BY <1>1, <2>1 DEF Emptied, SpawningEnded
    <2> QED BY <1>1, <2>2, NoneBegins
  <1>5. hclose' \in {"main", "done"} =>
           \A p \in Procs : cmd'[p].listed => cmd'[p].kill \in {"done", "stuck"}
    <2> SUFFICES ASSUME hclose' \in {"main", "done"}, NEW p \in Procs, cmd'[p].listed
                 PROVE  cmd'[p].kill \in {"done", "stuck"}
      OBVIOUS
    <2>1. hclose \in {"main", "done"} \/ JobsStopped
      BY <1>1 DEF Moves, CleanupBegins, TasksEnded, SpawningEnded, CleanupEnds
    <2>2. /\ hclose \in {"jobs", "main", "done"}
          /\ cmd[p].listed => cmd[p].kill \in {"done", "stuck"}
      BY <1>1, <2>1 DEF Emptied, JobsStopped
    <2>3. cmd[p].os # "pending" BY <1>1, <2>2 DEF Emptied
    <2> QED BY <1>1, <2>2, <2>3, NoneBegins
  <1> QED BY <1>3, <1>4, <1>5 DEF Emptied

\* A process that was not asked for does not begin, unless a stage does.
LEMMA NotAsked ==
  ASSUME HTypeOK, AllProper, Changes, ~StageBegins, NEW p \in Procs, cmd[p].pc \in {"none", "ended"},
         p = Main \/ verify' = verify
  PROVE  Goes(cmd[p], cmd'[p]) /\ cmd'[p].pc = cmd[p].pc
  BY DEF Changes, Changed, Goes

\* What the startup has begun.
LEMMA StagedKept ==
  ASSUME StreamAssumption, HTypeOK, StreamInv, Changes, [StreamNext]_hvars
  PROVE  Staged'
  <1>1. Moves /\ AllProper /\ Staged /\ Watched /\ Ordered BY StreamMoves DEF StreamInv
  <1>2. Main \in Procs /\ Commands \subseteq Procs BY DEF Procs
  <1>3. hstart' = "new" <=> startup' = "none"
    <2>1. hstart' = "new" => hstart = "new" /\ ~StartStream
      BY <1>1 DEF Moves, StartStream, CancelStartStream, StartEnds, StartReturns
    <2>2. startup' = "none" => startup = "none" /\ ~StartStream
      BY <1>1 DEF Moves, StartStream, Advance, After, Batches, StageFails, Unwound, Converting,
         StartupEnds, CleanupBegins, Unwinding
    <2>3. hstart = "new" <=> startup = "none" BY <1>1 DEF Staged
    <2>4. hstart = "new" /\ ~StartStream => hstart' = "new"
      BY <1>1 DEF Moves, CancelStartStream, StartEnds, StartReturns
    <2>5. startup = "none" /\ ~StartStream => startup' = "none"
      BY <1>1 DEF Moves, Advance, Batches, StageFails, Retries, Unwound, Converting, StartupEnds,
         CleanupBegins, Unwinding, Swallow
    <2> QED BY <2>1, <2>2, <2>3, <2>4, <2>5
  <1>4. startup' = startup /\ startup \in {"none", "hls"} \cup Batches =>
           /\ verify' = verify /\ ~StageBegins /\ monitor = "none"
           /\ ~StartStream /\ ~Poll /\ ~Verified
    <2> SUFFICES ASSUME startup' = startup, startup \in {"none", "hls"} \cup Batches
                 PROVE  /\ verify' = verify /\ ~StageBegins /\ monitor = "none"
                        /\ ~StartStream /\ ~Poll /\ ~Verified
      OBVIOUS
    <2>1. monitor = "none" /\ verify = "none" BY <1>1 DEF Watched, Beyond, Batches
    <2>2. ~StageBegins /\ ~StartStream /\ ~Poll /\ ~Verified /\ ~VerifyUnwound
      BY <1>1, <2>1 DEF StageBegins, StartStream, Staged, Batches, Poll, Verified, VerifyUnwound
    <2>3. CleanupBegins => verify' = verify BY <2>1 DEF CleanupBegins, Unwinding, Batches
    <2> QED BY <1>1, <2>1, <2>2, <2>3 DEF Moves
  <1>5. startup' \in Batches \cup {"hls"} /\ startup' # startup =>
           /\ \E table \in [Procs -> Cmd] :
                 /\ cmd' = Begin(Asked(startup'), table)
                 /\ \A p \in Procs \ Asked(startup') : table[p].pc = "none"
           /\ startup' = "hls" => dir' = "made"
    <2> SUFFICES ASSUME startup' \in Batches \cup {"hls"}, startup' # startup
                 PROVE  /\ \E table \in [Procs -> Cmd] :
                               /\ cmd' = Begin(Asked(startup'), table)
                               /\ \A p \in Procs \ Asked(startup') : table[p].pc = "none"
                        /\ startup' = "hls" => dir' = "made"
      OBVIOUS
    <2>1. PICK blank : blank = [p \in Procs |-> Idle] OBVIOUS
    <2>2. blank \in [Procs -> Cmd] /\ \A p \in Procs : blank[p].pc = "none" BY <2>1, ComingOnes
    <2>3. \/ StartStream \/ Advance \/ StageFails
      BY <1>1 DEF Moves, Batches, Unwound, Converting, StartupEnds, CleanupBegins, Unwinding
    <2>4. CASE StartStream
      <3>1. startup' = "resolve" /\ cmd' = Begin(Commands, cmd) /\ startup = "none"
        BY <1>1, <2>4 DEF StartStream, Staged
      <3>2. cmd \in [Procs -> Cmd] /\ \A p \in Procs : cmd[p].pc = "none"
        BY <1>1, <3>1 DEF Staged, HTypeOK
      <3>3. Asked("resolve") = Commands BY DEF Asked
      <3> QED BY <3>1, <3>2, <3>3
    <2>5. CASE Advance
      <3>1. cmd' = Begin(Asked(startup'), blank) /\ (startup' = "hls" => dir' = "made")
        BY <2>1, <2>5 DEF Advance, Batches
      <3> QED BY <2>2, <3>1
    <2>6. CASE StageFails
      <3>1. startup' = "retry" /\ cmd' = Begin(Asked("retry"), blank)
        BY <2>1, <2>6 DEF StageFails, Batches
      <3> QED BY <2>2, <3>1
    <2> QED BY <2>3, <2>4, <2>5, <2>6
  <1>6. startup' = "none" => dir' = "none" /\ \A p \in Procs : cmd'[p].pc = "none"
    <2> SUFFICES ASSUME startup' = "none" PROVE dir' = "none" /\ \A p \in Procs : cmd'[p].pc = "none"
      OBVIOUS
    <2>1. startup = "none"
      BY <1>1 DEF Moves, StartStream, Advance, After, Batches, StageFails, Unwound, Converting,
         StartupEnds, CleanupBegins, Unwinding
    <2>2. dir = "none" /\ \A p \in Procs : cmd[p].pc = "none" BY <1>1, <2>1 DEF Staged
    <2>3. dir' = "none" BY <1>1, <2>1, <2>2 DEF Moves, Advance, Batches, CleanupEnds
    <2> QED BY <1>1, <1>4, <2>1, <2>2, <2>3, NotAsked
  <1>7. startup' \in Batches \cup {"hls"} => \A p \in Procs \ Asked(startup') : cmd'[p].pc = "none"
    <2>1. CASE startup' = startup
      <3> SUFFICES ASSUME startup \in Batches \cup {"hls"}, NEW p \in Procs \ Asked(startup)
                   PROVE  cmd'[p].pc = "none"
        BY <2>1
      <3>1. cmd[p].pc = "none" BY <1>1 DEF Staged
      <3> QED BY <1>1, <1>4, <2>1, <3>1, NotAsked
    <2>2. ASSUME startup' # startup, startup' \in Batches \cup {"hls"}, NEW p \in Procs \ Asked(startup')
          PROVE  cmd'[p].pc = "none"
      <3>1. PICK table \in [Procs -> Cmd] : /\ cmd' = Begin(Asked(startup'), table)
                                            /\ table[p].pc = "none"
        BY <1>5, <2>2
      <3> QED BY <3>1 DEF Begin
    <2> QED BY <2>1, <2>2
  <1>8. startup' \in Batches => \A p \in Commands : Over(cmd[p])'
    <2>1. ASSUME startup' = startup, startup \in Batches, NEW p \in Commands PROVE Over(cmd[p])'
      <3>1. Over(cmd[p]) BY <1>1, <2>1 DEF Staged
      <3>2. CASE cmd' = cmd BY <3>1, <3>2 DEF Over
      <3>3. ASSUME NEW q \in Procs, OneProcess(q) PROVE Over(cmd[p])'
        <4>1. /\ cmd' = [cmd EXCEPT ![q] = cmd'[q]]
              /\ q # Main /\ Over(cmd[q]) => Over(cmd'[q])
          BY <1>1, <3>3, OneChanges
        <4>2. p \in Procs /\ p # Main BY <1>2, AskedFor
        <4>3. CASE q = p BY <3>1, <4>1, <4>2, <4>3
        <4>4. CASE q # p
          <5>1. cmd'[p] = cmd[p] BY <4>1, <4>2, <4>4 DEF HTypeOK
          <5> QED BY <3>1, <5>1
        <4> QED BY <4>3, <4>4
      <3>4. CASE CleanupBegins
        <4>1. Unwinding(startup) /\ startup' # "drop" BY <2>1 DEF Unwinding, Batches
        <4>2. PICK q \in Procs : \E c \in Answers(cmd[q]) : cmd' = [cmd EXCEPT ![q] = c]
          BY <2>1, <3>4, <4>1, AskedFor DEF CleanupBegins, Set
        <4>3. PICK c \in Answers(cmd[q]) : cmd' = [cmd EXCEPT ![q] = c] BY <4>2
        <4>4. c = Stopping(cmd[q], "fail") \/ c = Stopping(cmd[q], "ok") BY DEF Answers
        <4>5. p \in Procs BY <1>2
        <4>6. CASE q = p
          <5>1. cmd'[p] = Stopping(cmd[p], "fail") \/ cmd'[p] = Stopping(cmd[p], "ok")
            BY <4>3, <4>4, <4>5, <4>6 DEF HTypeOK
          <5>2. cmd[p] \in Cmd BY <4>5 DEF HTypeOK
          <5>3. cmd'[p].pc = "stop" BY <5>1, <5>2 DEF Stopping, Killed, Cmd
          <5> QED BY <5>3 DEF Over
        <4>7. CASE q # p
          <5>1. cmd'[p] = cmd[p] BY <4>3, <4>5, <4>7 DEF HTypeOK
          <5> QED BY <3>1, <5>1
        <4> QED BY <4>6, <4>7
      <3>5. ~Advance /\ ~StageFails /\ ~SpawningEnded
        BY <1>1, <2>1 DEF Advance, After, Batches, StageFails, Retries, SpawningEnded, Ordered, Cancelled, Final
      <3> QED BY <1>1, <1>4, <2>1, <3>2, <3>3, <3>4, <3>5 DEF Moves
    <2>2. ASSUME startup' # startup, startup' \in Batches, NEW p \in Commands PROVE Over(cmd[p])'
      <3>1. PICK table \in [Procs -> Cmd] :
               /\ cmd' = Begin(Asked(startup'), table)
               /\ \A q \in Procs \ Asked(startup') : table[q].pc = "none"
        BY <1>5, <2>2
      <3>2. PICK ps \in SUBSET Procs : ps = Asked(startup') BY AskedFor
      <3>3. cmd' = Begin(ps, table) BY <3>1, <3>2
      <3>4. p \in ps => Over(cmd'[p]) BY <3>3, Beginning
      <3>5. p \notin ps => cmd'[p] = table[p] /\ table[p].pc = "none"
        BY <1>2, <3>1, <3>2, <3>3, Beginning
      <3> QED BY <3>4, <3>5 DEF Over
    <2> QED BY <2>1, <2>2
  <1>9. startup' = "hls" => dir' = "made"
    <2>1. CASE startup' = startup
      BY <1>1, <2>1 DEF Moves, Staged, Advance, Batches, CleanupEnds, Ordered, Cancelled, Final
    <2> QED BY <1>5, <2>1
  <1>10. hstart' = "closing" => hresult' \in {"error", "cancelled"}
    BY <1>1 DEF Moves, Staged, StartStream, CancelStartStream, StartEnds, StartReturns
  <1> QED BY <1>3, <1>6, <1>7, <1>8, <1>9, <1>10 DEF Staged

\* The startup does not begin again.
LEMMA BeyondKept ==
  ASSUME Moves, ~StartStream, startup \in Beyond
  PROVE  startup' \in Beyond /\ ~StageBegins /\ ~Converting /\ ~Advance
  BY DEF Moves, Beyond, Batches, StageBegins, Advance, StageFails, Retries, Unwound, Converting,
     StartupEnds, CleanupBegins, Unwinding

\* The monitor watches a conversion, and what it says was verified.
LEMMA WatchedKept ==
  ASSUME StreamAssumption, HTypeOK, StreamInv, Changes, [StreamNext]_hvars
  PROVE  Watched'
  <1>1. Moves /\ AllProper /\ Staged /\ Watched /\ Ordered /\ Emptied BY StreamMoves DEF StreamInv
  <1>2. Main \in Procs /\ Main \notin Commands /\ Commands \subseteq Procs BY AskedFor DEF Procs
  <1>3. monitor # "none" => /\ startup \in Beyond /\ startup' \in Beyond /\ cmd[Main].pc = "ended"
                            /\ monitor' # "none"
                            /\ ~StageBegins /\ ~Converting /\ ~Advance /\ ~StartStream
    <2> SUFFICES ASSUME monitor # "none"
                 PROVE  /\ startup \in Beyond /\ startup' \in Beyond /\ cmd[Main].pc = "ended"
                        /\ monitor' # "none"
                        /\ ~StageBegins /\ ~Converting /\ ~Advance /\ ~StartStream
      OBVIOUS
    <2>1. startup \in Beyond /\ cmd[Main].pc = "ended" BY <1>1 DEF Watched
    <2>2. ~StartStream BY <1>1, <2>1 DEF StartStream, Staged, Beyond
    <2>3. monitor' # "none" BY <1>1 DEF Moves, Converting, Poll, MonitorFails, MonitorStops, CleanupBegins
    <2> QED BY <1>1, <2>1, <2>2, <2>3, BeyondKept
  <1>4. monitor = "none" => \/ monitor' = "none"
                            \/ Converting /\ verify' = "none" /\ cmd' = cmd /\ monitor' = "watch"
    <2> SUFFICES ASSUME monitor = "none"
                 PROVE  \/ monitor' = "none"
                        \/ Converting /\ verify' = "none" /\ cmd' = cmd /\ monitor' = "watch"
      OBVIOUS
    <2>1. verify = "none" BY <1>1 DEF Watched
    <2> QED BY <1>1, <2>1 DEF Moves, Converting, Poll, MonitorStops, CleanupBegins
  <1>5. Converting => /\ startup = "hls" /\ startup' \in Beyond /\ cmd[Main].pc = "ended"
                      /\ dir = "made" /\ ~ready /\ dir' = dir /\ ready' = ready
    <2> SUFFICES ASSUME Converting
                 PROVE  /\ startup = "hls" /\ startup' \in Beyond /\ cmd[Main].pc = "ended"
                        /\ dir = "made" /\ ~ready /\ dir' = dir /\ ready' = ready
      OBVIOUS
    <2>1. /\ startup = "hls" /\ startup' \in Beyond /\ cmd[Main].pc = "ended" /\ cmd[Main].listed
          /\ dir' = dir /\ ready' = ready
      BY DEF Converting, Beyond, shown
    <2>2. dir = "made" BY <1>1, <2>1 DEF Staged
    <2>3. monitor = "none" BY <1>3, <2>1 DEF Beyond
    <2>4. cmd[Main].os # "none" BY <1>1, <1>2, <2>1 DEF AllProper, Proper, Running
    <2>5. ~hclosed BY <1>1, <2>1, <2>4 DEF Ordered, Emptied, Cancelled
    <2> QED BY <1>1, <2>1, <2>2, <2>3, <2>5 DEF Watched
  <1>6. monitor' # "none" => startup' \in Beyond /\ cmd'[Main].pc = "ended"
    <2>1. monitor # "none" => cmd'[Main].pc = "ended" BY <1>1, <1>2, <1>3, NotAsked
    <2> QED BY <1>3, <1>4, <1>5, <2>1
  <1>7. verify' # "none" => monitor' # "none"
    <2>1. monitor = "none" => verify' = "none"
      BY <1>1 DEF Moves, Watched, Poll, Verified, VerifyUnwound, CleanupBegins, Unwinding, Batches
    <2> QED BY <1>3, <2>1
  <1>8. monitor' # "none" /\ verify' = "none" => \A p \in Commands : cmd'[p].pc = "none"
    <2> SUFFICES ASSUME monitor' # "none", verify' = "none", NEW p \in Commands
                 PROVE  cmd'[p].pc = "none"
      OBVIOUS
    <2>1. CASE monitor = "none"
      <3>1. Converting /\ cmd' = cmd BY <1>4, <2>1
      <3>2. p \in Procs \ Asked("hls") BY <1>2, AskedFor
      <3>3. startup = "hls" BY <3>1 DEF Converting
      <3> QED BY <1>1, <3>1, <3>2, <3>3 DEF Staged
    <2>2. CASE monitor # "none"
      <3>1. verify = "none"
        BY <1>1 DEF Moves, Poll, MonitorFails, Verified, VerifyUnwound, CleanupBegins
      <3>2. cmd[p].pc = "none" BY <1>1, <2>2, <3>1 DEF Watched
      <3> QED BY <1>1, <1>2, <1>3, <2>2, <3>1, <3>2, NotAsked
    <2> QED BY <2>1, <2>2
  <1>9. monitor' = "watch" => dir' = "made" /\ (ready' => verify' = "ok")
    <2> SUFFICES ASSUME monitor' = "watch" PROVE dir' = "made" /\ (ready' => verify' = "ok") OBVIOUS
    <2>1. CASE monitor = "none" BY <1>4, <1>5, <2>1
    <2>2. CASE monitor # "none"
      <3>1. monitor = "watch" /\ ~CleanupBegins
        BY <1>1, <1>3, <2>2 DEF Moves, Poll, MonitorStops, CleanupBegins
      <3>2. ~CleanupEnds BY <1>1, <3>1 DEF CleanupEnds, Ordered, Cancelled
      <3>3. dir' = "made" BY <1>1, <1>3, <2>2, <3>1, <3>2 DEF Moves, Watched
      <3>4. ready' => verify' = "ok"
        <4>1. ready => verify = "ok" BY <1>1, <3>1 DEF Watched
        <4>2. CASE Poll BY <3>1, <4>1, <4>2 DEF Poll, MonitorFails, shown
        <4>3. CASE ~Poll BY <1>1, <3>1, <3>2, <4>1, <4>3 DEF Moves, Verified, VerifyUnwound
        <4> QED BY <4>2, <4>3
      <3> QED BY <3>3, <3>4
    <2> QED BY <2>1, <2>2
  <1>10. ready' => monitor' # "none" \/ hclosed'
    <2>1. ready => monitor # "none" \/ hclosed BY <1>1 DEF Watched
    <2>2. Poll => monitor # "none" BY DEF Poll
    <2>3. CleanupEnds => hclosed' BY DEF CleanupEnds
    <2>4. hclosed => hclosed' BY <1>1, <2>3 DEF Moves
    <2> QED BY <1>1, <1>3, <2>1, <2>2, <2>3, <2>4 DEF Moves
  <1> QED BY <1>6, <1>7, <1>8, <1>9, <1>10 DEF Watched

\* A stream finishes when its conversion has ended well, and what it was does not change.
LEMMA FinishedKept ==
  ASSUME StreamAssumption, HTypeOK, StreamInv, Changes, [StreamNext]_hvars
  PROVE  Finished'
  <1>1. Moves /\ AllProper /\ Watched /\ Ordered /\ Finished BY StreamMoves DEF StreamInv
  <1>2. Main \in Procs BY DEF Procs
  <1> SUFFICES ASSUME hstate' = "finished"
               PROVE  /\ cmd'[Main].os = "gone" /\ cmd'[Main].res = "ok" /\ verify' = "ok" /\ dir' = "made"
                      /\ monitor' = "done" /\ hclose' # "done"
    BY DEF Finished, FinishedIsWhole
  <1>3. ~StartStream /\ ~CleanupEnds BY DEF StartStream, CleanupEnds
  <1>4. CASE Poll
    <2>1. /\ monitor = "watch" /\ hclose' = hclose /\ dir' = dir BY <1>4 DEF Poll
    <2>2. hstate # "finished" BY <1>1, <2>1 DEF Finished
    <2>3. /\ Exited /\ cmd[Main].res = "ok" /\ Complete /\ monitor' = "done"
          /\ UNCHANGED <<verify, cmd>>
      BY <1>4, <2>2 DEF Poll, MonitorFails, shown
    <2>4. verify = "ok" /\ dir = "made" BY <1>1, <2>1, <2>3 DEF Watched, Complete
    <2>5. hclose # "done" BY <1>1, <2>1 DEF Ordered, Cancelled
    <2> QED BY <2>1, <2>3, <2>4, <2>5 DEF Exited
  <1>5. CASE ~Poll
    <2>1. hstate = "finished" BY <1>1, <1>3, <1>5 DEF Moves
    <2>2. /\ cmd[Main].os = "gone" /\ cmd[Main].res = "ok" /\ verify = "ok" /\ dir = "made"
          /\ monitor = "done" /\ hclose # "done"
      BY <1>1, <2>1 DEF Finished, FinishedIsWhole
    <2>3. startup \in Beyond /\ cmd[Main].pc = "ended" BY <1>1, <2>2 DEF Watched
    <2>4. ~StageBegins /\ ~Converting /\ ~Advance BY <1>1, <1>3, <2>3, BeyondKept
    <2>5. cmd'[Main].os = "gone" /\ cmd'[Main].res = "ok"
      BY <1>1, <1>2, <2>2, <2>3, <2>4, NotAsked DEF Goes
    <2>6. verify' = "ok"
      BY <1>1, <1>5, <2>2 DEF Moves, Verified, VerifyUnwound, CleanupBegins, Unwinding, Batches
    <2>7. dir' = "made" BY <1>1, <1>3, <2>2, <2>4 DEF Moves
    <2>8. monitor' = "done" BY <1>1, <1>5, <2>2, <2>4 DEF Moves, MonitorStops, CleanupBegins
    <2>9. hclose' # "done"
      BY <1>1, <1>3, <2>2 DEF Moves, CleanupBegins, TasksEnded, SpawningEnded, JobsStopped
    <2> QED BY <2>5, <2>6, <2>7, <2>8, <2>9
  <1> QED BY <1>4, <1>5

LEMMA StreamInit == ASSUME HInit PROVE HTypeOK /\ StreamInv
  <1>1. Idle \in Cmd /\ Proper(Idle) BY DEF Idle, Cmd, Proper, Running
  <1>2. \A p \in Procs : cmd[p] = Idle BY DEF HInit
  <1>3. HTypeOK BY <1>1 DEF HInit, HTypeOK, Batches, Final
  <1>4. AllProper BY <1>1, <1>2 DEF AllProper
  <1>5. Staged BY <1>2 DEF HInit, Staged, Batches, Idle
  <1>6. Watched /\ Ordered /\ Emptied /\ Finished
    BY DEF HInit, Watched, Ordered, Emptied, Finished, FinishedIsWhole, Cancelled
  <1> QED BY <1>3, <1>4, <1>5, <1>6 DEF StreamInv

\* The stream keeps account of its processes, its tasks and its directory, whatever fails and
\* wherever it is cancelled: for any number of commands.
THEOREM StreamCorrect == StreamSpec => [](HTypeOK /\ StreamInv)
  <1>1. ASSUME HTypeOK, StreamInv, [StreamNext]_hvars PROVE (HTypeOK /\ StreamInv)'
    <2>1. StreamAssumption BY StreamAssumption
    <2>2. AllProper /\ Staged /\ Watched /\ Ordered /\ Emptied BY <1>1 DEF StreamInv
    <2>3. Changes BY <1>1, <2>1, <2>2, Processes
    <2> QED BY <1>1, <2>1, <2>2, <2>3, StreamTyped, ProperKept, StagedKept, WatchedKept, OrderedKept,
               EmptiedKept, FinishedKept
            DEF StreamInv
  <1> QED BY <1>1, StreamInit, PTL DEF StreamSpec

\* How start() and close() of a stream go on.
StreamProceeding ==
    /\ hstart = "new" => hstart' = "new" \/ (hstart' = "starting" /\ hclose = "none")
    /\ hstart # "new" => hstart' # "new"
    /\ hstart = "done" => hstart' = "done" /\ hresult' = hresult
    /\ hstart # "done" /\ hstart' = "done" /\ hresult' = "ok" => ~hclosed
    /\ hclose # "none" => hclose' # "none"
    /\ herror => herror'
    /\ hclosed => hclosed' /\ dir' = dir /\ (herror' => herror)
    /\ hclosed' => hclose # "none"
LEMMA StreamProceeds ==
  ASSUME HTypeOK, StreamInv, [StreamNext]_hvars
  PROVE  StreamProceeding
  <1>1. Moves /\ Staged /\ Watched /\ Ordered BY StreamMoves DEF StreamInv
  <1>2. hstart = "new" => hstart' = "new" \/ (hstart' = "starting" /\ hclose = "none")
    BY <1>1 DEF Moves, StartStream, CancelStartStream, StartEnds, StartReturns
  <1>3. hstart # "new" => hstart' # "new"
    BY <1>1 DEF Moves, StartStream, CancelStartStream, StartEnds, StartReturns
  <1>4. hstart = "done" => hstart' = "done" /\ hresult' = hresult
    BY <1>1 DEF Moves, StartStream, CancelStartStream, StartEnds, StartReturns
  <1>5. hstart # "done" /\ hstart' = "done" /\ hresult' = "ok" => ~hclosed
    <2>1. hclosed => hstart # "starting" BY <1>1 DEF Ordered, Cancelled
    <2>2. hstart = "closing" => hresult # "ok" BY <1>1 DEF Staged
    <2> QED BY <1>1, <2>1, <2>2 DEF Moves, StartStream, CancelStartStream, StartEnds, StartReturns
  <1>6. hclose # "none" => hclose' # "none"
    BY <1>1 DEF Moves, CleanupBegins, TasksEnded, SpawningEnded, JobsStopped, CleanupEnds
  <1>7. herror => herror' BY <1>1, Zenon DEF Moves, StartEnds, Poll, MonitorFails, shown
  <1>8. hclosed => hclosed' /\ dir' = dir /\ (herror' => herror)
    <2> SUFFICES ASSUME hclosed PROVE hclosed' /\ dir' = dir /\ (herror' => herror) OBVIOUS
    <2>1. hclose = "done" /\ startup \notin Batches /\ hstart # "starting" /\ monitor # "watch"
      BY <1>1 DEF Ordered, Cancelled, Final, Batches
    <2>2. ~CleanupEnds /\ ~Advance /\ ~StartEnds /\ ~Poll
      BY <2>1 DEF CleanupEnds, Advance, StartEnds, Poll
    <2>3. hclosed' /\ dir' = dir /\ herror' = herror BY <1>1, <2>2, Zenon DEF Moves
    <2> QED BY <2>3
  <1>9. hclosed' => hclose # "none" BY <1>1 DEF Moves, CleanupEnds, Ordered
  <1> QED BY <1>2, <1>3, <1>4, <1>5, <1>6, <1>7, <1>8, <1>9 DEF StreamProceeding

\* What the invariant says of what a stream holds, and of the processes of one that removed its
\* directory.
LEMMA StreamHeld ==
  ASSUME HTypeOK, StreamInv
  PROVE  /\ hstart = "new" => StreamHolds = {}
         /\ hclosed => StreamHolds = {}
         /\ MediaRemovedLast
  <1>1. AllProper /\ Staged /\ Watched /\ Ordered /\ Emptied BY DEF StreamInv
  <1>2. hclose = "done" =>
           \A p \in Procs : cmd[p].os # "pending" /\ (cmd[p].os \in Running => cmd[p].kill = "stuck")
    <2> SUFFICES ASSUME hclose = "done", NEW p \in Procs
                 PROVE  cmd[p].os # "pending" /\ (cmd[p].os \in Running => cmd[p].kill = "stuck")
      OBVIOUS
    <2>1. cmd[p].os # "pending" /\ (cmd[p].listed => cmd[p].kill \in {"done", "stuck"})
      BY <1>1 DEF Emptied
    <2> QED BY <1>1, <2>1 DEF AllProper, Proper, Running
  <1>3. hstart = "new" => StreamHolds = {}
    <2> SUFFICES ASSUME hstart = "new" PROVE StreamHolds = {} OBVIOUS
    <2>1. startup = "none" /\ dir = "none" /\ \A p \in Procs : cmd[p].pc = "none" BY <1>1 DEF Staged
    <2>2. monitor = "none" BY <1>1, <2>1 DEF Watched, Beyond
    <2>3. \A p \in Procs : cmd[p].os = "none" BY <1>1, <2>1 DEF AllProper, Proper
    <2> QED BY <2>1, <2>2, <2>3 DEF StreamHolds, Running
  <1>4. hclosed => StreamHolds = {}
    <2> SUFFICES ASSUME hclosed PROVE StreamHolds = {} OBVIOUS
    <2>1. hclose = "done" /\ dir # "made" /\ monitor \in {"none", "done"} BY <1>1 DEF Ordered, Cancelled
    <2> QED BY <1>2, <2>1 DEF StreamHolds
  <1>5. MediaRemovedLast BY <1>1, <1>2 DEF MediaRemovedLast, Ordered
  <1> QED BY <1>3, <1>4, <1>5

\* To its session the stream is a resource: every step of it is a step of Owned.
THEOREM StreamImplementsOwned == StreamSpec => StreamIsOwned
  <1> DEFINE Stage == IF hstart = "closing" THEN "starting"
                      ELSE IF hstart = "done" THEN (IF hresult = "ok" THEN "up" ELSE "over") ELSE hstart
             Asks == hclose # "none"
             Held == StreamHolds # {}
             Shut == IF ~hclosed THEN "no" ELSE IF dir = "left" THEN "raised" ELSE "clean"
  <1>1. HInit => StreamResource!Init
    <2> SUFFICES ASSUME HInit PROVE StreamView = StreamResource!Fresh BY DEF StreamResource!Init
    <2>1. Held = FALSE BY StreamInit, StreamHeld DEF HInit
    <2>2. Stage = "new" BY DEF HInit
    <2>3. Asks = FALSE /\ herror = FALSE /\ Shut = "no" BY DEF HInit
    <2>4. StreamView = [st |-> Stage, asked |-> Asks, held |-> Held, failed |-> herror, closed |-> Shut]
      BY DEF StreamView
    <2> HIDE DEF Stage, Asks, Held, Shut
    <2> QED BY <2>1, <2>2, <2>3, <2>4 DEF StreamResource!Fresh
  <1>2. HTypeOK /\ StreamInv => (hstart = "new" \/ hclosed => StreamHolds = {}) BY StreamHeld
  <1>3. (HTypeOK /\ StreamInv)' => (hstart = "new" \/ hclosed => StreamHolds = {})' BY <1>2, PTL
  <1>4. HTypeOK /\ StreamInv /\ (HTypeOK /\ StreamInv)' /\ [StreamNext]_hvars => StreamResource!Next
    <2> SUFFICES ASSUME HTypeOK, StreamInv, (HTypeOK /\ StreamInv)', [StreamNext]_hvars
                 PROVE  StreamResource!Next
      OBVIOUS
    <2>1. StreamProceeding BY StreamProceeds
    <2>2. /\ Stage' \in {"new", "starting", "up", "over"}
          /\ \/ Stage' = Stage
             \/ Stage = "new" /\ Stage' = "starting" /\ ~Asks
             \/ Stage = "starting" /\ Stage' \in {"up", "over"}
          /\ Stage' = "up" /\ Stage # "up" => Shut = "no"
      BY <2>1 DEF StreamProceeding, HTypeOK
    <2>3. Stage' = "new" \/ Shut' # "no" => ~Held'
      <3>1. (hstart' = "new" => StreamHolds' = {}) /\ (hclosed' => StreamHolds' = {})
        BY <1>3
      <3>2. Stage' = "new" => hstart' = "new" BY DEF HTypeOK
      <3> QED BY <3>1, <3>2
    <2>4. Shut' # "no" => Asks BY <2>1 DEF StreamProceeding
    <2>5. (Asks => Asks') /\ (herror => herror') BY <2>1 DEF StreamProceeding
    <2>6. Shut # "no" => Shut' = Shut /\ herror' = herror
      BY <2>1 DEF StreamProceeding, HTypeOK
    <2>7. /\ Asks' \in BOOLEAN /\ Held' \in BOOLEAN /\ herror' \in BOOLEAN
          /\ Shut' \in {"no", "clean", "raised"}
      BY DEF HTypeOK
    <2>8. /\ StreamView = [st |-> Stage, asked |-> Asks, held |-> Held, failed |-> herror,
                           closed |-> Shut]
          /\ StreamView' = [st |-> Stage', asked |-> Asks', held |-> Held', failed |-> herror',
                            closed |-> Shut']
      BY DEF StreamView
    <2> HIDE DEF Stage, Asks, Held, Shut
    <2>9. StreamView' \in StreamResource!Resources BY <2>2, <2>7, <2>8 DEF StreamResource!Resources
    <2>10. StreamResource!Legal(StreamView')
      <3>1. /\ StreamView.st = Stage /\ StreamView.asked = Asks /\ StreamView.failed = herror
            /\ StreamView.closed = Shut
            /\ StreamView'.st = Stage' /\ StreamView'.asked = Asks' /\ StreamView'.held = Held'
            /\ StreamView'.failed = herror' /\ StreamView'.closed = Shut'
        BY <2>8
      <3>2. /\ \/ StreamView'.st = StreamView.st
               \/ StreamView.st = "new" /\ StreamView'.st = "starting" /\ ~StreamView.asked
               \/ StreamView.st = "starting" /\ StreamView'.st \in {"up", "over"}
            /\ StreamView'.st = "up" /\ StreamView.st # "up" => StreamView.closed = "no"
            /\ StreamView.asked => StreamView'.asked
            /\ StreamView'.st = "new" => ~StreamView'.held
        BY <2>2, <2>3, <2>5, <3>1
      <3>3. /\ IF StreamView.closed = "no" THEN StreamView.failed => StreamView'.failed
               ELSE StreamView'.closed = StreamView.closed /\ StreamView'.failed = StreamView.failed
            /\ StreamView'.closed # "no" => StreamView.asked /\ ~StreamView'.held
        BY <2>3, <2>4, <2>5, <2>6, <3>1
      <3> QED BY <3>2, <3>3 DEF StreamResource!Legal
    <2> QED BY <2>9, <2>10 DEF StreamResource!Next
  <1> QED BY <1>1, <1>4, StreamCorrect, PTL DEF StreamSpec, StreamIsOwned, StreamResource!Spec

-----------------------------------------------------------------------------
(* Both resources, each by itself *)

\* Where one of them steps the other one stays.
LEMMA EachByItself == MCSpec => StreamSpec /\ WorkerSpec
  <1>1. MCInit => HInit /\ WInit BY DEF MCInit
  <1>2. [MCNext]_mcvars => [StreamNext]_hvars /\ [WorkerNext]_wvars BY DEF MCNext, mcvars
  <1> QED BY <1>1, <1>2, PTL DEF MCSpec, StreamSpec, WorkerSpec

\* Once a resource says it is closed nothing of it is left: no process lives, none is still being
\* created, the request file is gone and the directory too, after every process that could write to it.
THEOREM ClosedIsGoneProved == MCSpec => []ClosedIsGone
  <1>1. HTypeOK /\ StreamInv => HTypeOK /\ StreamClosedIsGone /\ MediaRemovedLast
    BY StreamHeld DEF StreamClosedIsGone
  <1>2. WTypeOK /\ WorkerInv => WTypeOK /\ WorkerClosedIsGone BY WorkerHeld DEF WorkerClosedIsGone
  <1>3. HTypeOK /\ StreamInv /\ WTypeOK /\ WorkerInv => ClosedIsGone BY <1>1, <1>2 DEF ClosedIsGone
  <1> QED BY <1>3, EachByItself, StreamCorrect, WorkerCorrect, PTL

\* A stream that says it finished has a verified conversion that ended well; a worker that was
\* closed says failed whenever its engine ended otherwise than well or by a signal of its owner.
THEOREM StatusIsTrueProved == MCSpec => []StatusIsTrue
  <1>1. HTypeOK /\ StreamInv => FinishedIsWhole BY DEF StreamInv, Finished
  <1>2. WTypeOK /\ WorkerInv => NoHiddenFailure
    BY DEF WTypeOK, WorkerInv, Begun, Called, Dealt, NoHiddenFailure
  <1>3. HTypeOK /\ StreamInv /\ WTypeOK /\ WorkerInv => StatusIsTrue BY <1>1, <1>2 DEF StatusIsTrue
  <1> QED BY <1>3, EachByItself, StreamCorrect, WorkerCorrect, PTL

\* A process leaves _jobs only when its group is gone, or when it survived SIGKILL and the cleanup
\* gives it up; one that was being created is listed or was not created, whatever is cancelled
\* meanwhile.
THEOREM ListedUntilGoneProved == MCSpec => ListedUntilGone
  <1> DEFINE Kept(p) == /\ p \in Jobs /\ p \notin Jobs' =>
                             cmd[p].os = "gone" \/ (hclose = "jobs" /\ cmd[p].kill = "stuck")
                        /\ cmd[p].os = "pending" /\ cmd'[p].os # "pending" =>
                             p \in Jobs' \/ (cmd'[p].os = "none" /\ cmd'[p].pc = "ended")
  <1>1. HTypeOK /\ StreamInv /\ [StreamNext]_hvars => [\A p \in Procs : Kept(p)]_hvars
    <2> SUFFICES ASSUME HTypeOK, StreamInv, [StreamNext]_hvars, NEW p \in Procs PROVE Kept(p)
      OBVIOUS
    <2>1. Changes BY StreamAssumption, Processes DEF StreamInv
    <2>2. Goes(cmd[p], cmd'[p]) \/ (cmd[p].os = "none" /\ Proper(cmd[p]))
      BY <2>1 DEF Changes, Changed, StreamInv, AllProper
    <2>3. Proper(cmd[p]) BY DEF StreamInv, AllProper
    <2>4. CASE hclose \in {"main", "done"}
      <3>1. p \notin Jobs /\ cmd[p].os # "pending" BY <2>4 DEF Jobs, StreamInv, Emptied
      <3> QED BY <3>1
    <2>5. CASE hclose' \in {"main", "done"} /\ hclose \notin {"main", "done"}
      <3>1. JobsStopped
        BY <2>5, StreamMoves
        DEF StreamInv, Moves, CleanupBegins, TasksEnded, SpawningEnded, CleanupEnds
      <3>2. hclose = "jobs" /\ (cmd[p].listed => cmd[p].kill \in {"done", "stuck"})
        BY <3>1 DEF JobsStopped
      <3>3. cmd[p].os # "pending" BY <3>2 DEF StreamInv, Emptied
      <3> QED BY <2>3, <3>2, <3>3 DEF Jobs, Proper
    <2>6. CASE hclose' \notin {"main", "done"} /\ hclose \notin {"main", "done"}
      <3>1. (p \in Jobs <=> cmd[p].listed) /\ (p \in Jobs' <=> cmd'[p].listed)
        BY <2>6 DEF Jobs
      <3> QED BY <2>2, <3>1 DEF Goes, Proper, Running
    <2> QED BY <2>4, <2>5, <2>6
  <1> QED BY <1>1, EachByItself, StreamCorrect, PTL DEF StreamSpec, ListedUntilGone

\* To their session both are what Owned says.
THEOREM PartsAreOwnedProved == MCSpec => PartsAreOwned
  BY EachByItself, StreamImplementsOwned, WorkerImplementsOwned, PTL DEF PartsAreOwned
=============================================================================
