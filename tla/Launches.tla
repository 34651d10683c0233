------------------------------ MODULE Launches ------------------------------
(***************************************************************************)
(* Launches of the live Capitals game: class CapitalsLauncher of           *)
(* service/capitals.py, with what it uses of the store and the controller. *)
(*                                                                         *)
(*   saved, disk  the record in memory and the one in the settings file;   *)
(*   worker   run() tasks, each looking for the game while a window is     *)
(*            open; task is self.task, the only one that is not forgotten; *)
(*   manual   play_manual tasks, one slot per explicit launch;             *)
(*   calls    callers of kick, cancel, stop_pending (with the Stop that    *)
(*            follows it) and close;                                       *)
(*   ctl      the controller: what plays where, and its generation.        *)
(*                                                                         *)
(* Code between two awaits is one action.  self.generation and             *)
(* self.manual_epoch are compared with == only, so a task keeps a flag,    *)
(* live, that says whether its copy is still the current one.  The clock   *)
(* is the step of a window from "open" to "over" and the free choice of a  *)
(* catalog being fresh.                                                    *)
(***************************************************************************)
EXTENDS Naturals, FiniteSets

CONSTANTS
    TVs,
    MaxGame,        \* bound: games that follow one another
    Slots,          \* bound: explicit launches in progress at a time
    Callers,        \* bound: commands in progress at a time
    Workers,        \* bound: run() tasks that have not ended at a time
    MaxGeneration,  \* bound: Play and Stop calls between two restarts
    KickTargets,    \* the sets of TVs that a kick,
    PressTargets,   \* an explicit launch
    Joins,          \* (with or without join)
    OtherTargets,   \* or a Play of something else may name
    StopTargets,    \* what a Stop may name
    Faults,         \* of "crash": the process ends without close(), "save": the disk
                    \* is full, and "patience": a Stop gives up
    All,            \* the argument of a Stop without receiver
    None

ASSUME LaunchesAssumption ==
    /\ MaxGame \in Nat
    /\ MaxGeneration \in Nat
    /\ All \notin TVs
    /\ None \notin Workers
    /\ KickTargets \cup PressTargets \cup OtherTargets \subseteq (SUBSET TVs) \ {{}}
    /\ Joins \subseteq BOOLEAN
    /\ StopTargets \subseteq TVs \cup {All}
    /\ Faults \subseteq {"crash", "save", "patience"}

VARIABLES saved, disk, full, phase, closing, task, worker, manual, edges, calls, ctl, game

vars == <<saved, disk, full, phase, closing, task, worker, manual, edges, calls, ctl, game>>
record == <<saved, disk>>

Games == 1..MaxGame
Other == MaxGame + 1        \* a source that is not a game; 0 is no source
Generations == 0..MaxGeneration

\* "ended" stands for idle, expired and error, which differ in their text.
Saved == [status : {"checking", "started", "ended"},
          until : {"none", "open", "over"},     \* deadline against the clock
          tvs : SUBSET TVs,
          attempted : 0..MaxGame]

\* What a task waits for, or "begin" when it is ready to run from its start.
Waits == {"fetch", "lock", "stop", "vpn", "play", "adding"}
Worker == [pc : Waits \cup {"none", "begin", "sleep", "unwind"},
           live : BOOLEAN,                      \* generation == self.generation
           locked : BOOLEAN,                    \* holds Controller.lock
           end : {"cancel", "error"},           \* why it unwinds
           game : 0..MaxGame,
           gen : Generations]                   \* stopped_generation
Manual == [pc : Waits \cup {"none", "queued", "command", "halt", "unwind"},
           live : BOOLEAN,                      \* epoch == self.manual_epoch
           holds : SUBSET {"manual", "command", "control"},
           end : {"cancel", "error"},
           tvs : SUBSET TVs,
           join : BOOLEAN,
           asked : Generations,                 \* the generation in its key
           base : Generations,                  \* the least of owned_generations
           gen : Generations,
           game : 0..MaxGame,
           want : SUBSET TVs,                   \* expected_targets
           on : Workers \cup {None}]            \* the worker stop_worker awaits
Call == [op : {"none", "kick", "cancel", "stop", "close"},
         pc : {"idle", "lock", "halt", "drain"},
         tvs : SUBSET TVs,                      \* of a kick
         tv : TVs \cup {All},                   \* of a Stop
         on : Workers \cup {None},
         drains : SUBSET Slots]                 \* what stop_manual awaits

Blank == [status |-> "ended", until |-> "none", tvs |-> {}, attempted |-> 0]
NoWorker == [pc |-> "none", live |-> FALSE, locked |-> FALSE, end |-> "cancel",
             game |-> 0, gen |-> 0]
NoManual == [pc |-> "none", live |-> FALSE, holds |-> {}, end |-> "cancel", tvs |-> {},
             join |-> FALSE, asked |-> 0, base |-> 0, gen |-> 0, game |-> 0, want |-> {},
             on |-> None]
NoCall == [op |-> "none", pc |-> "idle", tvs |-> {}, tv |-> All, on |-> None, drains |-> {}]
Quiet == [gen |-> 0, src |-> 0, tvs |-> {}]
NoEdges == [g \in Generations |-> g]

Init ==
    /\ saved = Blank /\ disk = Blank
    /\ full = FALSE
    /\ phase = "up" /\ closing = FALSE
    /\ task = None
    /\ worker = [w \in Workers |-> NoWorker]
    /\ manual = [s \in Slots |-> NoManual]
    /\ edges = NoEdges
    /\ calls = [c \in Callers |-> NoCall]
    /\ ctl = Quiet
    /\ game = 0

-----------------------------------------------------------------------------
\* The record.  persist writes the file, then memory; neither changes if that fails.
Persist(new) == ~full /\ saved' = new /\ disk' = new
PersistFails == full /\ UNCHANGED record

With(status) == [saved EXCEPT !.status = status, !.until = "none"]

\* What __init__ makes of the file.
Load(d) ==
    [d EXCEPT !.status =
        IF d.until = "open" THEN "checking"
        ELSE IF d.until = "over" \/ @ = "checking" THEN "ended" ELSE @]

\* Locks.
Busy(s) == manual[s].pc # "none"
Free(lock) ==
    /\ \A s \in Slots : lock \notin manual[s].holds
    /\ lock = "command" => \A c \in Callers : calls[c].pc \notin {"halt", "drain"}
    /\ lock = "control" => \A w \in Workers : ~worker[w].locked

Fresh(g) == g = game

\* Mutant: a worker goes on while the service closes.
ActiveClosing(w) ==
    worker[w].live /\ saved.status = "checking" /\ saved.until # "none"

Active(w) == ~closing /\ worker[w].live /\ saved.status = "checking" /\ saved.until # "none"
Unexpired(w) == Active(w) /\ saved.until # "over"

\* manual_current follows the edges of completed launches.
Rebase[g \in Generations] ==
    IF g = ctl.gen \/ edges[g] = g THEN g ELSE Rebase[edges[g]]

\* Mutant: a queued launch goes on whatever was stopped or played meanwhile.
CurrentAnyway(s) == ~closing /\ manual[s].live

Current(s) == ~closing /\ manual[s].live /\ Rebase[manual[s].gen] = ctl.gen

\* A task in which an exception is raised: it still holds its locks.
Unwinding(w, end) ==
    IF worker[w].pc = "none" THEN worker[w]
    ELSE [NoWorker EXCEPT !.pc = "unwind", !.end = end, !.live = worker[w].live,
                          !.locked = worker[w].locked]
ManualUnwinding(s, end) ==
    IF manual[s].pc = "none" THEN manual[s]
    ELSE [manual[s] EXCEPT !.pc = "unwind", !.end = end, !.base = 0, !.gen = 0, !.game = 0,
                           !.want = {}, !.on = None]

\* Mutant: the task is forgotten and not cancelled.
ForgottenOnly == [w \in Workers |-> [worker[w] EXCEPT !.live = FALSE]]

\* stop_worker, up to its gather: the current generation ends and self.task, if any,
\* is cancelled.
Forgotten ==
    [w \in Workers |->
        [IF w = task THEN Unwinding(w, "cancel") ELSE worker[w] EXCEPT !.live = FALSE]]
StopWorker == task' = None /\ worker' = Forgotten
Halted(w) == w # None => worker[w].pc = "none"

\* create_task(self.run(self.generation))
NewWorker ==
    LET free == {w \in Workers : worker[w].pc = "none"}
    IN  /\ free # {}
        /\ task' = CHOOSE w \in free : TRUE
        /\ worker' = [worker EXCEPT ![task'] = [NoWorker EXCEPT !.pc = "begin", !.live = TRUE]]
TaskDone == task # None => worker[task].pc = "none"

\* A task that has ended, and those that stop_manual waits for.
Drops(s) == calls' = [c \in Callers |-> [calls[c] EXCEPT !.drains = @ \ {s}]]
WorkerEnds(w) == worker' = [worker EXCEPT ![w] = NoWorker]
ManualEnds(s) ==
    /\ manual' = [manual EXCEPT ![s] = NoManual]
    /\ edges' = IF \E r \in Slots \ {s} : Busy(r) THEN edges ELSE NoEdges
    /\ Drops(s)

\* The controller, as Playback describes it: Stop and Play take a new generation at
\* once; a Stop ends what it finds, the rest of a Play compares generations.
Stopped(c) == [gen |-> c.gen + 1, src |-> 0, tvs |-> {}]
Pending == UNION ({manual[s].want : s \in {r \in Slots : manual[r].pc = "play"}}
                  \cup {saved.tvs : w \in {v \in Workers : worker[v].pc = "play"}})
UserStopped(r) ==
    IF r = All \/ (ctl.tvs \subseteq {r} /\ r \in ctl.tvs) THEN Stopped(ctl)
    ELSE IF r \in ctl.tvs \cup Pending
         THEN [ctl EXCEPT !.gen = @ + 1, !.tvs = @ \ {r}]
         ELSE ctl
CanStop == ctl.gen < MaxGeneration

PlayBegins == ctl.gen < MaxGeneration /\ ctl' = [ctl EXCEPT !.gen = @ + 1]
Adds(g, gen, targets) ==
    /\ ctl.gen = gen /\ ctl.src = g
    /\ \E t \in targets \ ctl.tvs : ctl' = [ctl EXCEPT !.tvs = @ \cup {t}]
Switches(g, gen) ==
    /\ ctl.gen = gen
    /\ ctl' = [ctl EXCEPT !.src = g, !.tvs = {}]

\* Mutant: a Play that returned is taken for one on every TV.
PlaysSomewhere(g, gen, targets) == ctl.src = g

Plays(g, gen, targets) == ctl.gen = gen /\ ctl.src = g /\ ctl.tvs = targets

-----------------------------------------------------------------------------
\* A run() task.  Each step is what it does when an await returns; lock waits for
\* configuration_lock and Controller.lock, which everybody takes together or in
\* this order, so that Controller.lock stands for both.
Resumes(w, pc) == worker[w].pc = pc /\ (pc = "lock" => Free("control"))
Sleeps(w) == worker' = [worker EXCEPT ![w] = [NoWorker EXCEPT !.pc = "sleep", !.live = TRUE]]
Moves(w, pc) == worker' = [worker EXCEPT ![w].pc = pc]

WorkerBegins(w) ==
    /\ worker[w].pc \in {"begin", "sleep"}
    /\ Unexpired(w)
    /\ Moves(w, "fetch")
    /\ UNCHANGED <<record, full, phase, closing, task, manual, edges, calls, ctl, game>>

\* unexpired() or active() is false: the task returns.
WorkerReturns(w) ==
    /\ \E pc \in {"begin", "sleep", "fetch", "lock", "stop", "vpn", "adding"} : Resumes(w, pc)
    /\ worker[w].pc = "adding" => Plays(worker[w].game, worker[w].gen, saved.tvs)
    /\ \/ ~Active(w) /\ UNCHANGED record
       \/ /\ Active(w) /\ saved.until = "over" /\ worker[w].pc # "adding"
          /\ Persist(With("ended"))
    /\ WorkerEnds(w)
    /\ UNCHANGED <<full, phase, closing, task, manual, edges, calls, ctl, game>>

\* check_once, after refresh: no answer or no game, several games, the game.
WorkerFetches(w) ==
    /\ Resumes(w, "fetch") /\ Unexpired(w)
    /\ \/ Sleeps(w) /\ UNCHANGED record
       \/ WorkerEnds(w) /\ Persist(With("ended"))
       \/ /\ game # 0
          /\ worker' = [worker EXCEPT ![w].pc = "lock", ![w].game = game]
          /\ UNCHANGED record
    /\ UNCHANGED <<full, phase, closing, task, manual, edges, calls, ctl, game>>

\* Under the locks: something else is running, or the game was attempted before.
WorkerDefers(w) ==
    /\ Resumes(w, "lock") /\ Unexpired(w)
    /\ \/ Sleeps(w) /\ UNCHANGED record
       \/ /\ ctl.tvs \subseteq saved.tvs /\ Fresh(worker[w].game)
          /\ saved.attempted = worker[w].game
          /\ Persist(With("started")) \/ Persist(With("ended"))
          /\ WorkerEnds(w)
    /\ UNCHANGED <<full, phase, closing, task, manual, edges, calls, ctl, game>>

\* Mutant: the record of the game is written and not looked at.
WorkerClaimsAgain(w) ==
    /\ Resumes(w, "lock") /\ Unexpired(w)
    /\ ctl.tvs \subseteq saved.tvs /\ Fresh(worker[w].game)
    /\ Persist([saved EXCEPT !.attempted = worker[w].game])
    /\ LET idle == ctl.src = 0
       IN  /\ idle \/ CanStop
           /\ ctl' = IF idle THEN ctl ELSE Stopped(ctl)
           /\ worker' = [worker EXCEPT ![w].pc = IF idle THEN "vpn" ELSE "stop",
                                       ![w].locked = TRUE, ![w].gen = ctl'.gen]
    /\ UNCHANGED <<full, phase, closing, task, manual, edges, calls, game>>

\* Claim before Stop, VPN and Play.
WorkerClaims(w) ==
    /\ Resumes(w, "lock") /\ Unexpired(w)
    /\ ctl.tvs \subseteq saved.tvs /\ Fresh(worker[w].game)
    /\ saved.attempted # worker[w].game
    /\ Persist([saved EXCEPT !.attempted = worker[w].game])
    /\ LET idle == ctl.src = 0
       IN  /\ idle \/ CanStop
           /\ ctl' = IF idle THEN ctl ELSE Stopped(ctl)
           /\ worker' = [worker EXCEPT ![w].pc = IF idle THEN "vpn" ELSE "stop",
                                       ![w].locked = TRUE, ![w].gen = ctl'.gen]
    /\ UNCHANGED <<full, phase, closing, task, manual, edges, calls, game>>

WorkerStopped(w) ==
    /\ Resumes(w, "stop") /\ ctl.gen = worker[w].gen
    /\ Unexpired(w) /\ Fresh(worker[w].game)
    /\ Moves(w, "vpn")
    /\ UNCHANGED <<record, full, phase, closing, task, manual, edges, calls, ctl, game>>

WorkerPlays(w) ==
    /\ Resumes(w, "vpn") /\ Unexpired(w)
    /\ ctl.gen = worker[w].gen /\ Fresh(worker[w].game)
    /\ PlayBegins
    /\ worker' = [worker EXCEPT ![w].pc = "play", ![w].gen = ctl'.gen]
    /\ UNCHANGED <<record, full, phase, closing, task, manual, edges, calls, game>>

\* play_locked goes on: the new stream replaces the old one, then a TV at a time.
\* saved.tvs is the set the task read when it claimed: only a caller that has first
\* stopped the task changes it.
WorkerAdds(w) ==
    /\ \/ Resumes(w, "play") /\ Switches(worker[w].game, worker[w].gen) /\ Moves(w, "adding")
       \/ /\ Resumes(w, "adding") /\ Adds(worker[w].game, worker[w].gen, saved.tvs)
          /\ UNCHANGED worker
    /\ UNCHANGED <<record, full, phase, closing, task, manual, edges, calls, game>>

WorkerPlayed(w) ==
    /\ Resumes(w, "adding") /\ Active(w)
    /\ Plays(worker[w].game, worker[w].gen, saved.tvs)
    /\ Persist(With("started"))
    /\ WorkerEnds(w)
    /\ UNCHANGED <<full, phase, closing, task, manual, edges, calls, ctl, game>>

\* The handlers of run(), once the locks are released.
WorkerHandles(w, end) ==
    /\ IF end = "error" /\ Active(w)
       THEN Persist(With("ended")) \/ PersistFails
       ELSE UNCHANGED record
    /\ WorkerEnds(w)

\* A check, a save or an awaited call raises.  In a Play the engine is closed first.
WorkerFails(w) ==
    /\ \/ /\ \E pc \in {"begin", "sleep", "fetch", "lock", "stop", "vpn"} : Resumes(w, pc)
          /\ WorkerHandles(w, "error")
       \/ /\ worker[w].pc \in {"play", "adding"}
          /\ worker' = [worker EXCEPT ![w] = Unwinding(w, "error")]
          /\ UNCHANGED record
    /\ UNCHANGED <<full, phase, closing, task, manual, edges, calls, ctl, game>>

WorkerUnwinds(w) ==
    /\ worker[w].pc = "unwind"
    /\ WorkerHandles(w, worker[w].end)
    /\ UNCHANGED <<full, phase, closing, task, manual, edges, calls, ctl, game>>

WorkerSteps(w) ==
    \/ WorkerBegins(w) \/ WorkerReturns(w) \/ WorkerFetches(w) \/ WorkerDefers(w)
    \/ WorkerClaims(w) \/ WorkerStopped(w) \/ WorkerPlays(w) \/ WorkerAdds(w)
    \/ WorkerPlayed(w) \/ WorkerFails(w) \/ WorkerUnwinds(w)

-----------------------------------------------------------------------------
\* A play_manual task.
Continues(s, pc) == manual[s].pc = pc /\ (pc = "lock" => Free("control"))

\* play_current: an equal launch in progress is joined, not repeated.
Press(s, targets, join) ==
    /\ phase = "up" /\ ~closing /\ ~Busy(s)
    /\ \A r \in Slots :
         ~ (Busy(r) /\ manual[r].live /\ manual[r].tvs = targets /\ manual[r].join = join
            /\ manual[r].asked = ctl.gen)
    /\ manual' = [manual EXCEPT ![s] =
            [NoManual EXCEPT !.pc = "queued", !.live = TRUE, !.tvs = targets, !.join = join,
                             !.asked = ctl.gen, !.base = ctl.gen, !.gen = ctl.gen]]
    /\ UNCHANGED <<record, full, phase, closing, task, worker, edges, calls, ctl, game>>

ManualStarts(s) ==
    /\ Continues(s, "queued") /\ Free("manual") /\ Current(s)
    /\ manual' = [manual EXCEPT ![s].pc = "command", ![s].holds = {"manual"},
                                ![s].base = ctl.gen, ![s].gen = ctl.gen]
    /\ UNCHANGED <<record, full, phase, closing, task, worker, edges, calls, ctl, game>>

ManualCommands(s) ==
    /\ Continues(s, "command") /\ Free("command") /\ Current(s)
    /\ StopWorker
    /\ manual' = [manual EXCEPT ![s].pc = "halt", ![s].holds = @ \cup {"command"},
                                ![s].on = task]
    /\ UNCHANGED <<record, full, phase, closing, edges, calls, ctl, game>>

ManualHalted(s) ==
    /\ Continues(s, "halt") /\ Halted(manual[s].on) /\ Current(s)
    /\ Persist([With("checking") EXCEPT !.tvs = manual[s].tvs])
    /\ manual' = [manual EXCEPT ![s].pc = "fetch", ![s].holds = {"manual"}, ![s].on = None]
    /\ UNCHANGED <<full, phase, closing, task, worker, edges, calls, ctl, game>>

ManualFetches(s) ==
    /\ Continues(s, "fetch") /\ Current(s) /\ game # 0
    /\ manual' = [manual EXCEPT ![s].pc = "lock", ![s].game = game]
    /\ UNCHANGED <<record, full, phase, closing, task, worker, edges, calls, ctl, game>>

\* Mutant: the TVs that play something else are not looked at.
MayLaunchAnywhere(s, same) ==
    /\ Continues(s, "lock") /\ Current(s) /\ Fresh(manual[s].game)
    /\ same => ctl.src = manual[s].game

\* Under the locks.  same: the browser still shows what the stream was started for.
MayLaunch(s, same) ==
    /\ Continues(s, "lock") /\ Current(s) /\ Fresh(manual[s].game)
    /\ same => ctl.src = manual[s].game
    /\ ctl.tvs \subseteq manual[s].tvs \/ (manual[s].join /\ same)

\* The TVs have it already.
ManualJoined(s) ==
    /\ MayLaunch(s, TRUE)
    /\ manual[s].tvs \subseteq ctl.tvs
    /\ manual[s].join \/ ctl.tvs = manual[s].tvs
    /\ Persist([With("started") EXCEPT !.attempted = manual[s].game])
    /\ ManualEnds(s)
    /\ UNCHANGED <<full, phase, closing, task, worker, ctl, game>>

ManualClaims(s) ==
    /\ \E same \in BOOLEAN :
         /\ MayLaunch(s, same)
         /\ LET idle == same \/ ctl.src = 0
            IN  /\ idle \/ CanStop
                /\ ctl' = IF idle THEN ctl ELSE Stopped(ctl)
                /\ manual' = [manual EXCEPT ![s].pc = IF idle THEN "vpn" ELSE "stop",
                                            ![s].holds = @ \cup {"control"},
                                            ![s].gen = IF idle THEN @ ELSE ctl'.gen]
    /\ Persist([saved EXCEPT !.attempted = manual[s].game])
    /\ UNCHANGED <<full, phase, closing, task, worker, edges, calls, game>>

ManualStopped(s) ==
    /\ Continues(s, "stop") /\ ctl.gen = manual[s].gen
    /\ Current(s) /\ Fresh(manual[s].game)
    /\ manual' = [manual EXCEPT ![s].pc = "vpn"]
    /\ UNCHANGED <<record, full, phase, closing, task, worker, edges, calls, ctl, game>>

\* play_locked; a Play of what already plays adds to its stream.
ManualPlays(s) ==
    /\ Continues(s, "vpn") /\ Current(s) /\ Fresh(manual[s].game)
    /\ PlayBegins
    /\ manual' = [manual EXCEPT ![s].pc = IF ctl.src = manual[s].game THEN "adding" ELSE "play",
                                ![s].gen = ctl'.gen,
                                ![s].want = manual[s].tvs \cup ctl.tvs]
    /\ UNCHANGED <<record, full, phase, closing, task, worker, edges, calls, game>>

ManualAdds(s) ==
    /\ \/ /\ Continues(s, "play") /\ Switches(manual[s].game, manual[s].gen)
          /\ manual' = [manual EXCEPT ![s].pc = "adding"]
       \/ /\ Continues(s, "adding") /\ Adds(manual[s].game, manual[s].gen, manual[s].want)
          /\ UNCHANGED manual
    /\ UNCHANGED <<record, full, phase, closing, task, worker, edges, calls, game>>

\* Queued launches may go on from the generations this one owned.
ManualPlayed(s) ==
    /\ Continues(s, "adding") /\ Current(s)
    /\ Plays(manual[s].game, manual[s].gen, manual[s].want)
    /\ Persist(With("started"))
    /\ manual' = [manual EXCEPT ![s] = NoManual]
    /\ edges' = IF \E r \in Slots \ {s} : Busy(r)
                THEN [g \in Generations |->
                        IF g \in manual[s].base .. manual[s].gen - 1 THEN manual[s].gen ELSE edges[g]]
                ELSE NoEdges
    /\ Drops(s)
    /\ UNCHANGED <<full, phase, closing, task, worker, ctl, game>>

\* The handlers of play_manual, once its locks are released.
ManualHandles(s, end) ==
    /\ IF ~closing /\ manual[s].live
       THEN \/ Persist(With("ended"))
            \/ IF end = "error" THEN full /\ saved' = With("ended") /\ UNCHANGED disk
               ELSE PersistFails
       ELSE UNCHANGED record
    /\ ManualEnds(s)

\* "error": a check, a save or an awaited call raises, or the 90 seconds are over,
\* which also ends the wait for a lock.  "cancel": the client that awaits the task is
\* cancelled, and the task with it.  In a Play the engine is closed first.
ManualFails(s, end) ==
    /\ \/ /\ manual[s].pc \in {"queued", "command", "halt", "fetch", "lock", "stop", "vpn"}
          /\ ManualHandles(s, end)
       \/ /\ manual[s].pc \in {"play", "adding"}
          /\ manual' = [manual EXCEPT ![s] = ManualUnwinding(s, end)]
          /\ UNCHANGED <<saved, disk, edges, calls>>
    /\ UNCHANGED <<full, phase, closing, task, worker, ctl, game>>

\* Mutant: the handler takes the command lock to save its result.
ManualUnwindsLocked(s) ==
    /\ manual[s].pc = "unwind" /\ Free("command")
    /\ ManualHandles(s, manual[s].end)
    /\ UNCHANGED <<full, phase, closing, task, worker, ctl, game>>

ManualUnwinds(s) ==
    /\ manual[s].pc = "unwind"
    /\ ManualHandles(s, manual[s].end)
    /\ UNCHANGED <<full, phase, closing, task, worker, ctl, game>>

ManualSteps(s) ==
    \/ ManualStarts(s) \/ ManualCommands(s) \/ ManualHalted(s) \/ ManualFetches(s)
    \/ ManualJoined(s) \/ ManualClaims(s) \/ ManualStopped(s) \/ ManualPlays(s)
    \/ ManualAdds(s) \/ ManualPlayed(s) \/ ManualFails(s, "error")
    \/ ManualUnwinds(s)

-----------------------------------------------------------------------------
\* Callers.
Idle(c) == phase = "up" /\ calls[c].pc = "idle"
Asks(c, call) == calls' = [calls EXCEPT ![c] = call]
Returns(c) == calls' = [calls EXCEPT ![c] = NoCall]
NewEpoch == manual' = [s \in Slots |-> [manual[s] EXCEPT !.live = FALSE]]

Kick(c, targets) ==
    /\ Idle(c)
    /\ Asks(c, [NoCall EXCEPT !.op = "kick", !.pc = "lock", !.tvs = targets])
    /\ UNCHANGED <<record, full, phase, closing, task, worker, manual, edges, ctl, game>>

Cancel(c) ==
    /\ Idle(c)
    /\ NewEpoch
    /\ Asks(c, [NoCall EXCEPT !.op = "cancel", !.pc = "lock"])
    /\ UNCHANGED <<record, full, phase, closing, task, worker, edges, ctl, game>>

\* Intents that a Stop of this TV matches.
MatchesManual(r) == \E s \in Slots : Busy(s) /\ (r = All \/ r \in manual[s].tvs)
MatchesWindow(r) ==
    saved.status = "checking" /\ saved.until # "none" /\ (r = All \/ r \in saved.tvs)

Stop(c, r) ==
    /\ Idle(c) /\ CanStop
    /\ IF MatchesManual(r) \/ MatchesWindow(r)
       THEN /\ NewEpoch
            /\ Asks(c, [NoCall EXCEPT !.op = "stop", !.pc = "lock", !.tv = r])
            /\ UNCHANGED ctl
       ELSE ctl' = UserStopped(r) /\ UNCHANGED <<manual, calls>>
    /\ UNCHANGED <<record, full, phase, closing, task, worker, edges, game>>

Close(c) ==
    /\ Idle(c) /\ ~closing
    /\ closing' = TRUE
    /\ NewEpoch
    /\ Asks(c, [NoCall EXCEPT !.op = "close", !.pc = "lock"])
    /\ UNCHANGED <<record, full, phase, task, worker, edges, ctl, game>>

Acquires(c) == calls[c].pc = "lock" /\ Free("command")

\* A kick that finds a manual launch, its own window, or a service that closes.
KickIsIdle(c) ==
    /\ Acquires(c) /\ calls[c].op = "kick"
    /\ \/ closing /\ UNCHANGED <<task, worker>>
       \/ ~closing /\ (\E s \in Slots : Busy(s)) /\ UNCHANGED <<task, worker>>
       \/ /\ ~closing /\ (\A s \in Slots : ~Busy(s))
          /\ saved.status = "checking" /\ saved.until = "open" /\ saved.tvs = calls[c].tvs
          /\ IF TaskDone THEN NewWorker ELSE UNCHANGED <<task, worker>>
    /\ Returns(c)
    /\ UNCHANGED <<record, full, phase, closing, manual, edges, ctl, game>>

\* Whoever else got the command lock cancels the worker and waits for it.
StopsWorker(c) ==
    /\ Acquires(c)
    /\ calls[c].op = "kick" =>
         /\ ~closing /\ \A s \in Slots : ~Busy(s)
         /\ ~(saved.status = "checking" /\ saved.until = "open" /\ saved.tvs = calls[c].tvs)
    /\ calls[c].op = "cancel" => ~closing
    /\ StopWorker
    /\ calls' = [calls EXCEPT ![c].pc = "halt", ![c].on = task]
    /\ UNCHANGED <<record, full, phase, closing, manual, edges, ctl, game>>

CancelRefused(c) ==
    /\ Acquires(c) /\ calls[c].op = "cancel" /\ closing
    /\ Returns(c)
    /\ UNCHANGED <<record, full, phase, closing, task, worker, manual, edges, ctl, game>>

AtHalt(c) == calls[c].pc = "halt" /\ Halted(calls[c].on)

KickArms(c) ==
    /\ AtHalt(c) /\ calls[c].op = "kick"
    /\ LET window == [saved EXCEPT !.status = "checking", !.until = "open", !.tvs = calls[c].tvs]
       IN  \/ ~closing /\ Persist(window) /\ NewWorker
           \/ ~closing /\ PersistFails /\ UNCHANGED <<task, worker>>
           \/ closing /\ UNCHANGED <<saved, disk, task, worker>>
    /\ Returns(c)
    /\ UNCHANGED <<full, phase, closing, manual, edges, ctl, game>>

\* stop_manual cancels every manual launch there is.
StopsManual(c) ==
    /\ AtHalt(c) /\ calls[c].op # "kick"
    /\ LET busy == {s \in Slots : Busy(s)}
       IN  /\ manual' = [s \in Slots |-> ManualUnwinding(s, "cancel")]
           /\ calls' = [calls EXCEPT ![c].pc = "drain", ![c].on = None, ![c].drains = busy]
    /\ UNCHANGED <<record, full, phase, closing, task, worker, edges, ctl, game>>

\* Mutant: the cancelled launches are not awaited.
AtDrainAtOnce(c) == calls[c].pc = "drain"

AtDrain(c) == calls[c].pc = "drain" /\ calls[c].drains = {}

\* The end of cancel, close and stop_pending, which the Stop itself follows unless
\* the save failed.
Drained(c) ==
    /\ AtDrain(c)
    /\ \/ calls[c].op = "close" /\ UNCHANGED <<saved, disk, ctl>>
       \/ calls[c].op = "cancel" /\ Persist(With("ended")) /\ UNCHANGED ctl
       \/ /\ calls[c].op = "stop" /\ CanStop
          /\ Persist(With("ended")) /\ ctl' = UserStopped(calls[c].tv)
       \/ calls[c].op # "close" /\ PersistFails /\ UNCHANGED ctl
    /\ Returns(c)
    /\ UNCHANGED <<full, phase, closing, task, worker, manual, edges, game>>

\* A Stop of supervisor_control gives up after REQUEST_SECONDS.
StopAbandoned(c) ==
    /\ "patience" \in Faults /\ calls[c].op = "stop"
    /\ Returns(c)
    /\ UNCHANGED <<record, full, phase, closing, task, worker, manual, edges, ctl, game>>

CallSteps(c) ==
    \/ KickIsIdle(c) \/ StopsWorker(c) \/ CancelRefused(c) \/ KickArms(c)
    \/ StopsManual(c) \/ Drained(c)

-----------------------------------------------------------------------------
\* Everything else.
\* A Stop that asks for no launch, such as that of close_browser.
BareStop ==
    /\ phase = "up" /\ CanStop
    /\ ctl' = Stopped(ctl)
    /\ UNCHANGED <<record, full, phase, closing, task, worker, manual, edges, calls, game>>

\* A Play of another source, under the controller's lock.
OtherPlay(targets) ==
    /\ phase = "up" /\ Free("control") /\ CanStop
    /\ ctl' = [gen |-> ctl.gen + 1, src |-> Other, tvs |-> targets]
    /\ UNCHANGED <<record, full, phase, closing, task, worker, manual, edges, calls, game>>

\* The media process ends.
EngineExits ==
    /\ ctl.src # 0
    /\ ctl' = [ctl EXCEPT !.src = 0, !.tvs = {}]
    /\ UNCHANGED <<record, full, phase, closing, task, worker, manual, edges, calls, game>>

DeadlinePasses ==
    /\ "open" \in {saved.until, disk.until}
    /\ saved' = [saved EXCEPT !.until = IF @ = "open" THEN "over" ELSE @]
    /\ disk' = [disk EXCEPT !.until = IF @ = "open" THEN "over" ELSE @]
    /\ UNCHANGED <<full, phase, closing, task, worker, manual, edges, calls, ctl, game>>

NextGame ==
    /\ game < MaxGame
    /\ game' = game + 1
    /\ UNCHANGED <<record, full, phase, closing, task, worker, manual, edges, calls, ctl>>

DiskFills ==
    /\ "save" \in Faults /\ phase = "up" /\ ~full
    /\ full' = TRUE
    /\ UNCHANGED <<saved, disk, phase, closing, task, worker, manual, edges, calls, ctl, game>>

\* The process is gone, after close() or at any time.
Down ==
    /\ phase' = "down" /\ closing' = FALSE /\ full' = FALSE
    /\ saved' = Blank
    /\ task' = None /\ worker' = [w \in Workers |-> NoWorker]
    /\ manual' = [s \in Slots |-> NoManual] /\ edges' = NoEdges
    /\ calls' = [c \in Callers |-> NoCall]
    /\ ctl' = Quiet
    /\ UNCHANGED <<disk, game>>
Crash == "crash" \in Faults /\ phase = "up" /\ Down
Exits == closing /\ (\A c \in Callers : calls[c].op # "close") /\ Down

\* __init__ and start, between which nothing else runs.
Restart ==
    /\ phase = "down" /\ phase' = "up"
    /\ saved' = Load(disk)
    /\ IF disk.until = "open" THEN NewWorker ELSE UNCHANGED <<task, worker>>
    /\ UNCHANGED <<full, disk, closing, manual, edges, calls, ctl, game>>

Next ==
    \/ \E w \in Workers : WorkerSteps(w)
    \/ \E s \in Slots :
         \/ ManualSteps(s) \/ ManualFails(s, "cancel")
         \/ \E targets \in PressTargets, join \in Joins : Press(s, targets, join)
    \/ \E c \in Callers :
         \/ \E targets \in KickTargets : Kick(c, targets)
         \/ \E r \in StopTargets : Stop(c, r)
         \/ Cancel(c) \/ Close(c) \/ CallSteps(c) \/ StopAbandoned(c)
    \/ BareStop \/ EngineExits \/ DeadlinePasses \/ NextGame \/ DiskFills
    \/ \E targets \in OtherTargets : OtherPlay(targets)
    \/ Crash \/ Exits \/ Restart

Spec == Init /\ [][Next]_vars

-----------------------------------------------------------------------------
Acquire(c) == KickIsIdle(c) \/ StopsWorker(c) \/ CancelRefused(c)

\* Every await returns, an asyncio.Lock is granted in the order of the requests, a
\* container that ended is started again, and close() is followed by the exit.
Fairness ==
    /\ \A w \in Workers :
         /\ WF_vars(WorkerSteps(w))
         /\ SF_vars(worker[w].pc = "lock" /\ WorkerSteps(w))
    /\ \A s \in Slots : WF_vars(ManualSteps(s))
    /\ \A c \in Callers : WF_vars(CallSteps(c)) /\ SF_vars(Acquire(c))
    /\ WF_vars(Restart) /\ WF_vars(Exits)

FairSpec == Spec /\ Fairness

\* Type correctness.
TypeOK ==
    /\ saved \in Saved /\ disk \in Saved /\ full \in BOOLEAN
    /\ phase \in {"up", "down"} /\ closing \in BOOLEAN
    /\ task \in Workers \cup {None}
    /\ worker \in [Workers -> Worker]
    /\ manual \in [Slots -> Manual]
    /\ edges \in [Generations -> Generations]
    /\ calls \in [Callers -> Call]
    /\ ctl \in [gen : Generations, src : 0..Other, tvs : SUBSET TVs]
    /\ game \in 0..MaxGame

\* No task that can still launch is lost: every worker that runs is self.task and of
\* the current generation, so that the next command can cancel it.
WorkerOwned ==
    \A w \in Workers :
        worker[w].pc \notin {"none", "unwind"} => task = w /\ worker[w].live

\* "An unrelated AirplayVideo TV ... can prevent the switch"
\* (docs/capitals-live-events.md): whatever happened between its check, its Stop, the
\* VPN and its Play, no step of a launch takes the stream from a TV that the launch
\* was not asked for.
OthersUntouched ==
    [][\A t \in ctl.tvs \ ctl'.tvs :
         calls' = calls /\ phase' = phase =>
             /\ \A w \in Workers : worker'[w] # worker[w] => t \in saved.tvs
             /\ \A s \in Slots : manual'[s] # manual[s] => t \in manual[s].tvs]_vars

\* "Stop and cancel take precedence over pending work" (docs/capitals-live-events.md):
\* when a cancel, a Stop or a close is through, no launch is under way; at most an
\* explicit one that was asked for since waits for its turn.
ReturnsQuiet ==
    [][\A c \in Callers : AtDrain(c) /\ calls'[c].pc = "idle" =>
         /\ \A w \in Workers : worker[w].pc \in {"none", "unwind"}
         /\ \A s \in Slots : manual[s].pc \in {"none", "queued", "command"}]_vars

\* "Shutdown cancels work without discarding an unexpired, explicit kick"
\* (capitals.py, close): once the service closes, only a cancel or a Stop that was
\* called before closes the window in the file.
CloseKeepsWindow ==
    [][closing /\ disk.until = "open" /\ disk'.until = "none" =>
         \E c \in Callers : calls[c].op \in {"cancel", "stop"} /\ calls[c].pc = "drain"]_vars

\* A launch that reports "started" has the game on all its TVs at that moment, with
\* no Stop and no other Play since its own Play.
StartedIsOnTVs ==
    [][saved'.status = "started" /\ saved # saved' /\ phase = "up" =>
         /\ \A s \in Slots : Busy(s) /\ manual'[s].pc = "none" =>
              manual[s].tvs \subseteq ctl.tvs /\ ctl.src = saved'.attempted
         /\ \A w \in Workers : worker[w].pc = "adding" /\ worker'[w].pc = "none" =>
              saved.tvs \subseteq ctl.tvs /\ ctl.src = saved'.attempted]_vars

\* "A game has at most one automatic attempt, including failed or interrupted starts"
\* (docs/capitals-live-events.md): a worker starts to stop and play for a game that
\* the file does not name yet, and names it; the file never goes back to an earlier
\* game, over crashes, restarts, new kicks and manual launches.
AtMostOneAttempt ==
    [][/\ disk'.attempted >= disk.attempted
       /\ \A w \in Workers :
            worker[w].pc = "lock" /\ worker'[w].pc \in {"stop", "vpn"} =>
                disk.attempted < worker[w].game /\ disk'.attempted = worker[w].game]_vars

\* "Stop requires one explicit paired receiver and also cancels its pending game launch"
\* (docs/capitals-live-events.md): a Stop of one TV cancels the explicit launches that
\* name it, and no other.
StopIsScoped ==
    [][\A c \in Callers : calls[c].op = "stop" /\ calls[c].pc = "halt" =>
         \A s \in calls'[c].drains : calls[c].tv = All \/ calls[c].tv \in manual[s].tvs]_vars

\* Every kick, cancel, Stop and close returns: no circle of waits between the command
\* lock, the manual lock, the controller's lock and the tasks they wait for.
Capped == ~CanStop /\ \E c \in Callers : calls[c].op = "stop"    \* by MaxGeneration
CommandsReturn == \A c \in Callers : calls[c].pc # "idle" ~> (calls[c].pc = "idle" \/ Capped)

\* "Checking" is left: a launch that was interrupted, cancelled, shut down or out of
\* time does not leave the status behind, unless it could not be saved.
StatusSettles ==
    (saved.status = "checking" /\ saved.until # "open")
        ~> (saved.status # "checking" \/ saved.until = "open" \/ full \/ Capped)

-----------------------------------------------------------------------------
(* What the runs check, by the question it answers.                        *)

\* The tasks that may still launch are those that the next command can cancel.
TasksOwned == TypeOK /\ WorkerOwned

\* Every command returns and every status settles.
CommandsSettle == CommandsReturn /\ StatusSettles
=============================================================================
