------------------------------ MODULE Playback ------------------------------
(***************************************************************************)
(* The playback lifecycle of the control service: class Controller of      *)
(* service/controller.py, the media processes it owns (class Stream of the *)
(* same file and, for direct YouTube video, class NativeSession), and the  *)
(* tasks of the event loop that work on them at the same time:             *)
(*                                                                         *)
(*   play    the one holder of Controller.lock (play, open_browser);       *)
(*   stops   callers of Controller.stop, which takes no lock;              *)
(*   failing tasks running stop_failed, one per stream;                    *)
(*   retiring  close() tasks that retire() created;                        *)
(*   engine  the media processes and the tasks that read their events.     *)
(*                                                                         *)
(* The event loop runs one task at a time, so the code between two awaits  *)
(* is one action here.  Awaiting a task that is already done does not      *)
(* suspend, which is why some continuations belong to the preceding action.*)
(***************************************************************************)
EXTENDS Naturals

CONSTANTS
    Receivers,      \* saved TVs
    Channels,       \* HDHomeRun channels: the key of a source is its channel
    Pages,          \* pages of one browser profile: they share one source key
    Clips,          \* generated videos: every Play of one has a fresh key
    Videos,         \* YouTube videos played directly, by a NativeSession
    ReceiverEvents, \* the events of one TV that an engine may report
    MaxStreams,     \* bound: media processes created in a behaviour
    MaxGeneration,  \* bound: Play and Stop calls in a behaviour
    Stoppers,       \* concurrent callers of stop
    All,            \* the argument of a Stop without receiver
    None

Streams == 1..MaxStreams
Sources == Channels \cup Pages \cup Clips \cup Videos

ASSUME PlaybackAssumption ==
    /\ MaxStreams \in Nat
    /\ MaxGeneration \in Nat
    /\ None \notin Streams \cup Sources \cup Receivers
    /\ All \notin Receivers
    /\ ReceiverEvents \subseteq {"connecting", "streaming", "stopped", "error"}
    /\ Videos \cap (Channels \cup Pages \cup Clips) = {}

VARIABLES
    ctl,        \* the attributes of the Controller
    engine,     \* the media processes
    retiring,   \* keys of Controller.retiring
    torn,       \* streams whose close task, created by retire, is done
    failing,    \* where the stop_failed task of each stream is
    play,       \* the task that holds Controller.lock
    stops       \* the tasks running Controller.stop

vars == <<ctl, engine, retiring, torn, failing, play, stops>>

Phases == {"idle", "preparing", "connecting", "playing", "error"}
Errors == {"none", "source", "receivers", "native"}
ReceiverStates == {"absent", "connecting", "streaming", "stopped", "error"}

Absent == [r \in Receivers |-> "absent"]

Ctl == [stream : Streams \cup {None},
        pending : Streams \cup {None},
        pendingTargets : SUBSET Receivers,
        generation : Nat,
        targets : SUBSET Receivers,
        receivers : [Receivers -> ReceiverStates],
        source : Sources \cup {None},
        phase : Phases,
        error : Errors]

\* A media process: "unused" (no Stream object yet), "created" (the object, no
\* process), "alive", "exited" (its last events are still to be read) and
\* "reaped" (its reader task, or the session's cleanup, has ended).
Engine == [src : Sources \cup {None},
           proc : {"unused", "created", "alive", "exited", "reaped"},
           ready : {"no", "yes", "failed"},     \* Stream.ready
           stopping : BOOLEAN,                  \* Stream.stopping
           sessions : SUBSET Receivers,         \* TVs it was told to send to
           leaving : SUBSET Receivers]          \* ... whose remove it has yet to read

PlayPCs == {"idle", "removing", "browse", "spawning", "closing", "warming",
            "replacing", "adding", "aborting", "preparing", "nreplacing",
            "nbrowser", "connecting", "preview"}

Play == [pc : PlayPCs,
         source : Sources \cup {None},
         target : SUBSET Receivers,
         gen : Nat,                          \* the generation of this call
         same : BOOLEAN,                     \* same_source; inactive in a preview
         new : Streams \cup {None},          \* the local variable pending
         active : Streams \cup {None},       \* the local variable active
         todo : SUBSET Receivers,            \* what its loop has still to visit
         cur : Receivers \cup {None},        \* the receiver of the last command
         wait : SUBSET Streams,              \* what finish_teardown awaits
         replaced : BOOLEAN,                 \* replaced of play_native
         cancelled : BOOLEAN,                \* its task has been cancelled
         why : Errors]                       \* the exception; prior_error
NoPlay == [pc |-> "idle", source |-> None, target |-> {}, gen |-> 0,
           same |-> FALSE, new |-> None, active |-> None, todo |-> {},
           cur |-> None, wait |-> {}, replaced |-> FALSE, cancelled |-> FALSE,
           why |-> "none"]

Stop == [pc : {"idle", "removing", "teardown"},
         receiver : Receivers \cup {All},
         gen : Nat,
         active : Streams \cup {None},
         wait : SUBSET Streams]
NoStop == [pc |-> "idle", receiver |-> All, gen |-> 0, active |-> None,
           wait |-> {}]

Init ==
    /\ ctl = [stream |-> None, pending |-> None, pendingTargets |-> {},
              generation |-> 0, targets |-> {}, receivers |-> Absent,
              source |-> None, phase |-> "idle", error |-> "none"]
    /\ engine = [s \in Streams |-> [src |-> None, proc |-> "unused",
                                    ready |-> "no", stopping |-> FALSE,
                                    sessions |-> {}, leaving |-> {}]]
    /\ retiring = {} /\ torn = {}
    /\ failing = [s \in Streams |-> "no"]
    /\ play = NoPlay
    /\ stops = [k \in Stoppers |-> NoStop]

-----------------------------------------------------------------------------
(* Parts of several handlers.                                              *)

Native(s) == engine[s].src \in Videos
Running(s) == engine[s].proc \in {"alive", "exited"}
Fresh == {s \in Streams : /\ engine[s].proc = "unused"
                          /\ \A t \in Streams : t < s => engine[t].proc # "unused"}

\* Mutant: commands reach a stream that is being closed.
AcceptsClosing(s) == s # None /\ Running(s)

\* Stream.command checks the process and stopping before it writes; a process
\* that is dead but not yet reaped may take the write or break the pipe.  A
\* stream that is None has no command method.
Accepts(s) == s # None /\ Running(s) /\ ~engine[s].stopping
Refuses(s) == s # None => engine[s].proc # "alive" \/ engine[s].stopping

\* The TVs a process sends to once an add is written; a dead one sends to none.
Joined(s, r) == IF engine[s].proc = "alive" THEN engine[s].sessions \cup {r} ELSE {}
\* Mutant: the remove command is never written.
LeftUnheard(s, r) == engine[s].leaving
\* The TVs whose remove is written and not yet read: the process sends to them until
\* it comes to the command, which Stream.command does not wait for.
Left(s, r) == engine[s].leaving \cup (engine[s].sessions \cap {r})

\* Mutant: close() does not wait for the process.
GoneAtOnce(s) == TRUE
\* Mutant: close() waits for a process that was never spawned.
GoneOnceReaped(s) == engine[s].proc = "reaped"

\* close() has nothing to wait for, or nothing any more.
Gone(s) == engine[s].proc \in {"created", "reaped"}

\* targets, receivers and source after a stream was given up.
Cleared(c) == [c EXCEPT !.targets = {}, !.receivers = Absent, !.source = None]
Resting(c) == IF c.stream # None /\ c.targets # {} THEN "playing" ELSE "idle"

TearingDown == retiring \ torn # {}

\* Mutant: finish_teardown awaits nothing.
UnfinishedNever(keys) == {}
\* Mutant: ... or awaits tasks that are done as if they were not.
UnfinishedAlways(keys) == keys

\* The tasks finish_teardown has to wait for when it starts with these keys.
Unfinished(keys) == keys \ torn

\* Mutant: the generation is not compared after an await.
CurrentUnchecked(c, p) == TRUE

\* Every later check of a Play: nobody superseded it.
Current(c, p) == c.generation = p.gen
\* ... and, while it warms a stream up, its stream is still the pending one.
StillPending(c, p) == Current(c, p) /\ c.pending = p.new
StillActive(c, p) == Current(c, p) /\ c.stream = p.active

SameSource(c, src) ==
    /\ c.stream # None /\ c.source # None
    /\ \/ src \in Channels /\ c.source = src
       \/ src \in Pages /\ c.source \in Pages

\* The end of both except clauses, once close() of the pending stream returned.
Ended(c, p) ==
    LET d == IF p.new # None /\ c.pending = p.new
             THEN [c EXCEPT !.pending = None, !.pendingTargets = {}] ELSE c
        e == IF p.source \notin Videos THEN d
             ELSE LET f == IF p.replaced THEN [Cleared(d) EXCEPT !.stream = None] ELSE d
                  IN [f EXCEPT !.error = IF p.why = "none" THEN @ ELSE p.why]
    IN IF Current(c, p) THEN [e EXCEPT !.phase = Resting(e)] ELSE d

\* Mutant: the except clause leaves the pending stream running.
FailedLeaking(c, p) ==
    ctl' = Ended(c, p) /\ play' = NoPlay /\ UNCHANGED engine

\* Both except clauses: close the stream that never became current, then end.
Failed(c, p) ==
    IF p.new # None /\ p.new # c.stream
    THEN /\ engine' = [engine EXCEPT ![p.new].stopping = TRUE]
         /\ IF Running(p.new)
            THEN ctl' = c /\ play' = [p EXCEPT !.pc = "aborting"]
            ELSE ctl' = Ended(c, p) /\ play' = NoPlay
    ELSE /\ ctl' = Ended(c, p) /\ play' = NoPlay
         /\ UNCHANGED engine

-----------------------------------------------------------------------------
(* Play: Controller.play_locked, under Controller.lock.                    *)

\* A TV that still has to be added when the loop reaches it.
Needs(c, r) == r \notin c.targets \/ c.receivers[r] = "error"

\* The loop over target, up to its next await: an add, or the return.
ConnectNext(c, p) ==
    LET need == {r \in p.todo : Needs(c, r)} IN
    \/ need = {} /\ ctl' = c /\ play' = NoPlay /\ UNCHANGED engine
    \/ \E r \in need, passed \in SUBSET (p.todo \ need) :
         LET d == [c EXCEPT !.targets = @ \cup {r}, !.receivers[r] = "connecting"]
         IN \/ /\ Accepts(p.active)
               /\ ctl' = d
               /\ engine' = [engine EXCEPT ![p.active].sessions = Joined(p.active, r),
                                           ![p.active].leaving = @ \ {r}]
               /\ play' = [p EXCEPT !.pc = "adding", !.cur = r,
                                    !.todo = (@ \ {r}) \ passed]
            \/ Refuses(p.active) /\ Failed(d, p)

Connect(c, p) ==
    ConnectNext([c EXCEPT !.source = p.source, !.phase = "connecting"],
                [p EXCEPT !.active = c.stream, !.todo = p.target])

\* The warm stream becomes the current one and its TVs are added.
Adopt(c, p) ==
    Connect([Cleared(c) EXCEPT !.stream = p.new, !.pending = None,
                               !.pendingTargets = {}], p)

\* After the browser shows the page: join the stream, or warm up a new one.
Launch(c, p) ==
    IF p.same THEN Connect(c, p)
    ELSE \E s \in Fresh :
           /\ engine' = [engine EXCEPT ![s].src = p.source, ![s].proc = "created"]
           /\ ctl' = [c EXCEPT !.phase = "preparing", !.pending = s,
                               !.pendingTargets = p.target]
           /\ play' = [p EXCEPT !.pc = "spawning", !.new = s]

\* The loop that removes the TVs a same-source Play no longer names.
RemoveNext(c, p) ==
    IF p.todo # {}
    THEN \E r \in p.todo :
           \/ /\ Accepts(p.active)
              /\ ctl' = c
              /\ engine' = [engine EXCEPT ![p.active].leaving = Left(p.active, r)]
              /\ play' = [p EXCEPT !.pc = "removing", !.cur = r, !.todo = @ \ {r}]
           \/ Refuses(p.active) /\ Failed(c, p)
    ELSE LET d == IF p.same THEN [c EXCEPT !.targets = @ \cap p.target] ELSE c
         IN IF p.source \in Pages
            THEN ctl' = d /\ play' = [p EXCEPT !.pc = "browse"] /\ UNCHANGED engine
            ELSE Launch(d, p)

\* play_native up to its first await: the session starts to prepare.
Prepare(c, p) ==
    \E s \in Fresh :
      /\ engine' = [engine EXCEPT ![s].src = p.source, ![s].proc = "alive"]
      /\ ctl' = [c EXCEPT !.phase = "preparing", !.pending = s,
                          !.pendingTargets = p.target]
      /\ play' = [p EXCEPT !.pc = "preparing", !.new = s]

PlayBegin(src, wanted, add) ==
    LET target == IF add THEN wanted \cup ctl.targets ELSE wanted
        same == SameSource(ctl, src)
        c == [ctl EXCEPT !.generation = @ + 1, !.error = "none"]
        p == [NoPlay EXCEPT !.source = src, !.target = target, !.same = same,
                            !.gen = c.generation, !.active = ctl.stream,
                            !.todo = IF same THEN ctl.targets \ target ELSE {}]
    IN /\ play.pc = "idle"
       /\ ctl.generation < MaxGeneration
       /\ same \/ Fresh # {}
       /\ IF src \in Videos
          THEN (\E r \in Receivers : target = {r}) /\ Prepare(c, p)
          ELSE RemoveNext(c, p)
       /\ UNCHANGED <<retiring, torn, failing, stops>>

\* The remove command has been sent.
PlayRemoved ==
    /\ play.pc = "removing"
    /\ \/ /\ StillActive(ctl, play)
          /\ RemoveNext([ctl EXCEPT !.receivers[play.cur] = "absent"], play)
       \/ ~StillActive(ctl, play) /\ Failed(ctl, play)
       \/ engine[play.active].proc # "alive" /\ Failed(ctl, play)
    /\ UNCHANGED <<retiring, torn, failing, stops>>

\* The browser has opened the page, or failed to.
PlayBrowsed ==
    /\ play.pc = "browse"
    /\ \/ Current(ctl, play) /\ Launch(ctl, play)
       \/ Failed(ctl, play)
    /\ UNCHANGED <<retiring, torn, failing, stops>>

\* Stream.start: the process exists, and is closed at once if a Stop came first.
AfterSpawn(stopping) == IF stopping THEN "closing" ELSE "warming"
PlaySpawned ==
    /\ play.pc = "spawning"
    /\ \/ /\ engine' = [engine EXCEPT ![play.new].proc = "alive"]
          /\ play' = [play EXCEPT !.pc = AfterSpawn(engine[play.new].stopping)]
          /\ UNCHANGED ctl
       \/ Failed(ctl, play)
    /\ UNCHANGED <<retiring, torn, failing, stops>>

PlayStartClosed ==
    /\ play.pc = "closing"
    /\ engine[play.new].proc = "reaped"
    /\ Failed(ctl, play)
    /\ UNCHANGED <<retiring, torn, failing, stops>>

\* What a replacement needs before it may touch the stream that is playing.
Warm(p) == engine[p.new].ready = "yes" /\ ~engine[p.new].stopping

\* The source is warm: retire the previous stream, wait for every teardown.
PlayWarmed ==
    /\ play.pc = "warming"
    /\ Warm(play) /\ StillPending(ctl, play)
    /\ LET old == {ctl.stream} \ {None}
           keys == retiring \cup old
           c == IF old = {} THEN ctl ELSE [Cleared(ctl) EXCEPT !.stream = None]
       IN IF Unfinished(keys) = {}
          THEN retiring' = {} /\ Adopt(c, play)
          ELSE /\ retiring' = keys
               /\ ctl' = c
               /\ play' = [play EXCEPT !.pc = "replacing", !.wait = keys]
               /\ UNCHANGED engine
    /\ UNCHANGED <<torn, failing, stops>>

\* A source that failed, took more than 25 seconds, or was superseded.
PlayNotWarmed ==
    /\ play.pc = "warming"
    /\ engine[play.new].ready = "no" \/ ~(Warm(play) /\ StillPending(ctl, play))
    /\ Failed(ctl, play)
    /\ UNCHANGED <<retiring, torn, failing, stops>>

PlayReplaced ==
    /\ play.pc = "replacing"
    /\ Unfinished(play.wait) = {}
    /\ retiring' = retiring \ play.wait
    /\ IF Current(ctl, play) THEN Adopt(ctl, play) ELSE Failed(ctl, play)
    /\ UNCHANGED <<torn, failing, stops>>

\* The add command has been sent.
PlayAdded ==
    /\ play.pc = "adding"
    /\ \/ StillActive(ctl, play) /\ ConnectNext(ctl, play)
       \/ ~StillActive(ctl, play) /\ Failed(ctl, play)
       \/ engine[play.active].proc # "alive" /\ Failed(ctl, play)
    /\ UNCHANGED <<retiring, torn, failing, stops>>

PlayAborted ==
    /\ play.pc = "aborting"
    /\ engine[play.new].proc = "reaped"
    /\ ctl' = Ended(ctl, play)
    /\ play' = NoPlay
    /\ UNCHANGED <<engine, retiring, torn, failing, stops>>

\* The task is cancelled, once, at the await where it is suspended ...
PlayCancelled ==
    /\ play.pc \notin {"idle", "aborting", "preview"}
    /\ Failed(ctl, [play EXCEPT !.cancelled = TRUE])
    /\ UNCHANGED <<retiring, torn, failing, stops>>

\* ... which may be the close() of an except clause that a failure has entered: the
\* rest of the clause is skipped, and nobody waits for the process, or kills it.
PlayAbandoned ==
    /\ play.pc = "aborting" /\ ~play.cancelled
    /\ play' = NoPlay
    /\ UNCHANGED <<ctl, engine, retiring, torn, failing, stops>>

-----------------------------------------------------------------------------
(* Direct video: the rest of Controller.play_native.                       *)

Raised(p) == [p EXCEPT !.why = "native"]

PlayPrepared ==
    /\ play.pc = "preparing"
    /\ Warm(play) /\ StillPending(ctl, play)
    /\ LET keys == retiring \cup ({ctl.stream} \ {None})
           c == [ctl EXCEPT !.stream = None]
           p == [play EXCEPT !.replaced = TRUE]
       IN /\ ctl' = c
          /\ IF Unfinished(keys) = {}
             THEN /\ retiring' = {}
                  /\ play' = [p EXCEPT !.pc = "nbrowser"]
             ELSE /\ retiring' = keys
                  /\ play' = [p EXCEPT !.pc = "nreplacing", !.wait = keys]
    /\ UNCHANGED <<engine, torn, failing, stops>>

\* prepare raised, once its session was closed, or the Play was superseded.
PlayNotPrepared ==
    /\ play.pc = "preparing"
    /\ \/ engine[play.new].proc = "reaped"
       \/ Warm(play) /\ ~StillPending(ctl, play)
    /\ Failed(ctl, Raised(play))
    /\ UNCHANGED <<retiring, torn, failing, stops>>

PlayNativeReplaced ==
    /\ play.pc = "nreplacing"
    /\ Unfinished(play.wait) = {}
    /\ retiring' = retiring \ play.wait
    /\ IF StillPending(ctl, play)
       THEN /\ play' = [play EXCEPT !.pc = "nbrowser"]
            /\ UNCHANGED <<ctl, engine>>
       ELSE Failed(ctl, Raised(play))
    /\ UNCHANGED <<torn, failing, stops>>

\* The browser is closed: the session connects, if it is still prepared.
PlayBrowserClosed ==
    /\ play.pc = "nbrowser"
    /\ \/ /\ StillPending(ctl, play)
          /\ LET c == [ctl EXCEPT !.source = play.source, !.targets = play.target,
                                  !.phase = "connecting",
                                  !.receivers = [r \in Receivers |->
                                    IF r \in play.target THEN "connecting" ELSE "absent"]]
             IN IF engine[play.new].proc = "alive" /\ ~engine[play.new].stopping
                THEN /\ ctl' = c
                     /\ engine' = [engine EXCEPT ![play.new].sessions = play.target]
                     /\ play' = [play EXCEPT !.pc = "connecting"]
                ELSE Failed(c, Raised(play))
       \/ ~StillPending(ctl, play) /\ Failed(ctl, Raised(play))
    /\ UNCHANGED <<retiring, torn, failing, stops>>

PlayConnected ==
    /\ play.pc = "connecting"
    /\ engine[play.new].proc = "alive" /\ ~engine[play.new].stopping
    /\ IF StillPending(ctl, play)
       THEN /\ ctl' = [ctl EXCEPT !.stream = play.new, !.pending = None,
                                  !.pendingTargets = {}, !.phase = "playing",
                                  !.receivers = [r \in Receivers |->
                                    IF r \in play.target THEN "streaming" ELSE "absent"]]
            /\ play' = NoPlay
            /\ UNCHANGED engine
       ELSE Failed(ctl, Raised(play))
    /\ UNCHANGED <<retiring, torn, failing, stops>>

\* connect raised: it failed, or the session was closed under it.
PlayNotConnected ==
    /\ play.pc = "connecting"
    /\ engine[play.new].proc = "reaped"
    /\ Failed(ctl, Raised(play))
    /\ UNCHANGED <<retiring, torn, failing, stops>>

\* watch_native: the session ended by itself.
WatchNative(s) ==
    /\ Native(s) /\ engine[s].proc = "reaped" /\ ctl.stream = s
    /\ \E error \in {"none", "native"} :
         ctl' = [Cleared(ctl) EXCEPT !.stream = None, !.error = error,
                   !.phase = IF error = "none" THEN "idle" ELSE "error"]
    /\ UNCHANGED <<engine, retiring, torn, failing, play, stops>>

-----------------------------------------------------------------------------
(* Preview: Controller.open_browser holds the same lock.                   *)

Inactive(c) == c.stream = None /\ c.pending = None /\ c.targets = {} /\ ~TearingDown

PreviewBegin(src) ==
    /\ play.pc = "idle"
    /\ play' = [NoPlay EXCEPT !.pc = "preview", !.source = src, !.why = ctl.error,
                              !.gen = ctl.generation, !.same = Inactive(ctl)]
    /\ UNCHANGED <<ctl, engine, retiring, torn, failing, stops>>

PreviewShown ==
    /\ play.pc = "preview"
    /\ LET c == [ctl EXCEPT !.source = IF @ \in Pages THEN play.source ELSE @]
       IN ctl' = IF play.same /\ Inactive(ctl) /\ Current(ctl, play)
                    /\ ctl.error = play.why
                 THEN [c EXCEPT !.error = "none",
                                !.phase = IF @ = "error" THEN "idle" ELSE @]
                 ELSE c
    /\ play' = NoPlay
    /\ UNCHANGED <<engine, retiring, torn, failing, stops>>

PreviewFailed ==
    /\ play.pc = "preview"
    /\ play' = NoPlay
    /\ UNCHANGED <<ctl, engine, retiring, torn, failing, stops>>

-----------------------------------------------------------------------------
(* Stop: Controller.stop takes no lock.  close_browser and close begin with*)
(* it.                                                                     *)

\* finish_teardown, as the last await of stop.
StopAwaits(k, s, keys) ==
    IF Unfinished(keys) = {}
    THEN /\ retiring' = {}
         /\ stops' = [stops EXCEPT ![k] = NoStop]
    ELSE /\ retiring' = keys
         /\ stops' = [stops EXCEPT ![k] = [s EXCEPT !.pc = "teardown", !.wait = keys,
                                                    !.active = None]]

\* A Stop for a TV in neither targets nor pending_targets returns at once: there
\* is no action for it.
Superseding(c) == [c EXCEPT !.generation = @ + 1, !.pending = None,
                            !.pendingTargets = {}]

\* One TV of several leaves; the stream goes on.
StopOne(k, r) ==
    LET c == Superseding(ctl)
        s == [NoStop EXCEPT !.receiver = r, !.gen = c.generation, !.active = ctl.stream]
    IN /\ stops[k].pc = "idle"
       /\ ctl.generation < MaxGeneration
       /\ r \in ctl.targets /\ ctl.targets # {r} /\ ctl.stream # None
       /\ ctl' = c
       /\ retiring' = retiring \cup ({ctl.pending} \ {None})
       /\ \/ /\ Accepts(ctl.stream)
             /\ engine' = [engine EXCEPT ![ctl.stream].leaving = Left(ctl.stream, r)]
             /\ stops' = [stops EXCEPT ![k] = [s EXCEPT !.pc = "removing"]]
          \/ /\ Refuses(ctl.stream)
             /\ stops' = [stops EXCEPT ![k] = NoStop]
             /\ UNCHANGED engine
       /\ UNCHANGED <<torn, failing, play>>

\* The remove command of StopOne has been sent, or its pipe broke.
StopRemoved(k) ==
    /\ stops[k].pc = "removing"
    /\ \/ /\ ctl' = IF Current(ctl, stops[k]) /\ ctl.stream = stops[k].active
                    THEN [ctl EXCEPT !.targets = @ \ {stops[k].receiver},
                                     !.receivers[stops[k].receiver] = "absent"]
                    ELSE ctl
          /\ StopAwaits(k, stops[k], retiring)
       \/ /\ engine[stops[k].active].proc # "alive"
          /\ stops' = [stops EXCEPT ![k] = NoStop]
          /\ UNCHANGED <<ctl, retiring>>
    /\ UNCHANGED <<engine, torn, failing, play>>

\* The stream stops, or the pending one does, or both.
StopWhole(k, r) ==
    LET whole == r = All \/ r \in ctl.targets
        gone == {ctl.pending} \cup (IF whole THEN {ctl.stream} ELSE {})
        c == Superseding(ctl)
        s == [NoStop EXCEPT !.receiver = r, !.gen = c.generation]
    IN /\ stops[k].pc = "idle"
       /\ ctl.generation < MaxGeneration
       /\ r \in {All} \cup ctl.targets \cup ctl.pendingTargets
       /\ ~(r \in ctl.targets /\ ctl.targets # {r} /\ ctl.stream # None)
       /\ ctl' = IF whole
                 THEN [Cleared(c) EXCEPT !.stream = None, !.phase = "idle"]
                 ELSE [c EXCEPT !.phase = Resting(c)]
       /\ StopAwaits(k, s, retiring \cup (gone \ {None}))
       /\ UNCHANGED <<engine, torn, failing, play>>

StopTornDown(k) ==
    /\ stops[k].pc = "teardown"
    /\ Unfinished(stops[k].wait) = {}
    /\ retiring' = retiring \ stops[k].wait
    /\ stops' = [stops EXCEPT ![k] = NoStop]
    /\ UNCHANGED <<ctl, engine, torn, failing, play>>

\* The caller is cancelled; the close tasks it waits for are shielded.
StopCancelled(k) ==
    /\ stops[k].pc # "idle"
    /\ stops' = [stops EXCEPT ![k] = NoStop]
    /\ UNCHANGED <<ctl, engine, retiring, torn, failing, play>>

\* A close() waits for the process s, which it has told to end.
Closing(s) ==
    \/ s \in retiring \ torn /\ engine[s].stopping
    \/ s = play.new /\ play.pc \in {"closing", "aborting"}
    \/ failing[s] = "closing"

\* The close task that retire created runs for the first time ...
CloseBegin(s) ==
    /\ s \in retiring /\ ~engine[s].stopping
    /\ engine' = [engine EXCEPT ![s].stopping = TRUE]
    /\ torn' = IF Gone(s) THEN torn \cup {s} ELSE torn
    /\ UNCHANGED <<ctl, retiring, failing, play, stops>>

\* ... and ends when the process is gone and its reader has ended.
CloseEnd(s) ==
    /\ s \in retiring \ torn /\ engine[s].stopping
    /\ Gone(s)
    /\ torn' = torn \cup {s}
    /\ UNCHANGED <<ctl, engine, retiring, failing, play, stops>>

-----------------------------------------------------------------------------
(* Media processes and Controller.event.                                   *)

\* media_ready, or the end of NativeSession.prepare.
Ready(s) ==
    /\ Running(s) /\ engine[s].ready = "no"
    /\ Native(s) => ~engine[s].stopping
    /\ engine' = [engine EXCEPT ![s].ready = "yes"]
    /\ UNCHANGED <<ctl, retiring, torn, failing, play, stops>>

\* source_error and fatal.
SourceError(s) ==
    /\ Running(s) /\ ~Native(s)
    /\ engine' = [engine EXCEPT ![s].ready = IF @ = "no" THEN "failed" ELSE @]
    /\ ctl' = IF ctl.stream = s
              THEN [ctl EXCEPT !.error = "source", !.phase = "error"] ELSE ctl
    /\ UNCHANGED <<retiring, torn, failing, play, stops>>

AllFailed(c) == c.targets # {} /\ \A r \in c.targets : c.receivers[r] = "error"

\* connecting, streaming, stopped and receiver_error of one TV, in any order: the
\* pipe may still hold events of a session that was removed.  A pending stream has
\* been told of no TV and reports none.
ReceiverEvent(s, r, state) ==
    LET c == [ctl EXCEPT !.receivers[r] = state,
                         !.phase = IF state = "streaming" THEN "playing" ELSE @]
    IN /\ Running(s) /\ ~Native(s)
       /\ s = ctl.stream /\ r \in ctl.targets
       /\ ctl' = c
       /\ failing' = IF state = "error" /\ AllFailed(c) /\ failing[s] = "no"
                     THEN [failing EXCEPT ![s] = "scheduled"] ELSE failing
       /\ UNCHANGED <<engine, retiring, torn, play, stops>>

\* run_stream comes to a remove command: the session is taken out of the map and its
\* threads are joined.
Removes(s, r) ==
    /\ r \in engine[s].leaving
    /\ engine' = [engine EXCEPT ![s].sessions = @ \ {r}, ![s].leaving = @ \ {r}]
    /\ UNCHANGED <<ctl, retiring, torn, failing, play, stops>>

\* The process ends: by itself, or because close() terminates it.
Exit(s) ==
    /\ engine[s].proc = "alive" /\ ~Native(s)
    /\ engine' = [engine EXCEPT ![s].proc = "exited", ![s].sessions = {},
                                ![s].leaving = {}]
    /\ UNCHANGED <<ctl, retiring, torn, failing, play, stops>>

\* The last act of read_events: process_exit.
Reap(s) ==
    /\ engine[s].proc = "exited"
    /\ engine' = [engine EXCEPT ![s].proc = "reaped", ![s].sessions = {},
                                ![s].leaving = {},
                                ![s].ready = IF @ = "no" THEN "failed" ELSE @]
    /\ IF ctl.stream = s /\ ~engine[s].stopping
       THEN \E complete \in {engine[s].src \in Clips, FALSE} :
              ctl' = [Cleared(ctl) EXCEPT !.stream = None,
                        !.phase = IF complete THEN "idle" ELSE "error",
                        !.error = IF complete THEN "none"
                                  ELSE IF @ = "none" THEN "source" ELSE @]
       ELSE UNCHANGED ctl
    /\ UNCHANGED <<retiring, torn, failing, play, stops>>

\* NativeSession._cleanup: after a close, a failed prepare or connect, or the
\* failure or completion that its monitor, started by prepare, has seen.
NativeEnd(s) ==
    /\ engine[s].proc = "alive" /\ Native(s)
    /\ engine[s].stopping \/ ~(play.pc = "preparing" /\ engine[s].ready = "yes")
    /\ engine' = [engine EXCEPT ![s].proc = "reaped", ![s].stopping = TRUE,
                                ![s].sessions = {}, ![s].leaving = {},
                                ![s].ready = IF @ = "no" THEN "failed" ELSE @]
    /\ UNCHANGED <<ctl, retiring, torn, failing, play, stops>>

\* stop_failed runs: the stream is closed if it is still the current one.
StopFailedBegin(s) ==
    /\ failing[s] = "scheduled"
    /\ IF ctl.stream = s
       THEN /\ ctl' = [ctl EXCEPT !.error = "receivers"]
            /\ engine' = [engine EXCEPT ![s].stopping = TRUE]
            /\ failing' = [failing EXCEPT ![s] = "closing"]
       ELSE /\ failing' = [failing EXCEPT ![s] = "no"]
            /\ UNCHANGED <<ctl, engine>>
    /\ UNCHANGED <<retiring, torn, play, stops>>

StopFailedEnd(s) ==
    /\ failing[s] = "closing" /\ engine[s].proc = "reaped"
    /\ ctl' = IF ctl.stream = s
              THEN [ctl EXCEPT !.stream = None, !.targets = {}, !.phase = "error"]
              ELSE ctl
    /\ failing' = [failing EXCEPT ![s] = "no"]
    /\ UNCHANGED <<engine, retiring, torn, play, stops>>

-----------------------------------------------------------------------------
Lock ==
    \/ \E src \in Sources, wanted \in (SUBSET Receivers) \ {{}}, add \in BOOLEAN :
         PlayBegin(src, wanted, add)
    \/ \E src \in Pages : PreviewBegin(src)

PlaySteps ==
    \/ PlayRemoved \/ PlayBrowsed \/ PlaySpawned \/ PlayStartClosed \/ PlayWarmed
    \/ PlayNotWarmed \/ PlayReplaced \/ PlayAdded \/ PlayAborted \/ PlayPrepared
    \/ PlayNotPrepared \/ PlayNativeReplaced \/ PlayBrowserClosed \/ PlayConnected
    \/ PlayNotConnected \/ PreviewShown \/ PreviewFailed

StopCalls(k) ==
    \E r \in Receivers \cup {All} :
        StopOne(k, r) \/ StopWhole(k, r)

StopSteps(k) == StopRemoved(k) \/ StopTornDown(k)

Tasks(s) == CloseBegin(s) \/ CloseEnd(s) \/ StopFailedBegin(s) \/ StopFailedEnd(s)
            \/ WatchNative(s)

Media(s) ==
    \/ Ready(s) \/ SourceError(s) \/ Exit(s) \/ Reap(s) \/ NativeEnd(s)
    \/ \E r \in Receivers, state \in ReceiverEvents :
         ReceiverEvent(s, r, state)
    \/ \E r \in Receivers : Removes(s, r)

Next ==
    \/ Lock \/ PlaySteps \/ PlayCancelled \/ PlayAbandoned
    \/ \E k \in Stoppers : StopCalls(k) \/ StopSteps(k) \/ StopCancelled(k)
    \/ \E s \in Streams : Tasks(s) \/ Media(s)

Spec == Init /\ [][Next]_vars

\* The loop runs every ready task; a browser, a preparation or a connection
\* answers or times out; a process that was told to end is killed after 20 s.
Fairness ==
    /\ WF_vars(PlaySteps)
    /\ \A k \in Stoppers : WF_vars(StopSteps(k))
    /\ \A s \in Streams :
         /\ WF_vars(CloseBegin(s)) /\ WF_vars(CloseEnd(s))
         /\ WF_vars(StopFailedBegin(s)) /\ WF_vars(StopFailedEnd(s))
         /\ WF_vars(WatchNative(s)) /\ WF_vars(Reap(s))
         /\ WF_vars(Closing(s) /\ Exit(s))
         /\ WF_vars((engine[s].stopping \/ play.pc = "preparing") /\ NativeEnd(s))

FairSpec == Spec /\ Fairness

-----------------------------------------------------------------------------
(* Correctness.                                                            *)

\* Every attribute, process and task has a value of its type.
TypeOK ==
    /\ ctl \in Ctl
    /\ engine \in [Streams -> Engine]
    /\ retiring \subseteq Streams /\ torn \subseteq Streams
    /\ failing \in [Streams -> {"no", "scheduled", "closing"}]
    /\ play \in Play
    /\ stops \in [Stoppers -> Stop]

\* A TV is sent media by one process at a time: whatever Stops and events come
\* while a source is replaced, "a late TEARDOWN from Stop must not reach a newly
\* connected session" (finish_teardown).
ExclusiveReceivers ==
    \A s, t \in Streams : s # t => engine[s].sessions \cap engine[t].sessions = {}

\* No media process is orphaned: one that runs and was not told to end is the current
\* or the pending stream, has a close task of its own, or belongs to the Play in
\* progress -- also when Stop came before the process had been spawned.
NoOrphan ==
    \A s \in Streams : Running(s) /\ ~engine[s].stopping =>
        \/ s \in {ctl.stream, ctl.pending}
        \/ s \in retiring \ torn
        \/ s = play.new

\* The TVs a process sends to until it is told something else.
Told(s) == engine[s].sessions \ engine[s].leaving

\* A TV that is sent media can be stopped by naming it: it is a target of the
\* current or the connecting stream, unless its remove is on its way or that stream
\* is being closed.
SessionsAreListed ==
    \A s \in Streams : Told(s) # {} =>
        \/ s \in {ctl.stream, ctl.pending} /\ Told(s) \subseteq ctl.targets
        \/ s \in retiring
        \/ engine[s].stopping

\* The current stream is not one that was given up: nobody but stop_failed, which
\* clears it next, or the end of a native session, which watch_native clears,
\* closes the stream that Play would join.
CurrentNotClosing ==
    \A s \in Streams : ctl.stream = s =>
        /\ s \notin retiring
        /\ engine[s].stopping => failing[s] = "closing" \/ Native(s)

Quiet ==
    /\ play.pc = "idle"
    /\ \A k \in Stoppers : stops[k].pc = "idle"
    /\ \A s \in Streams : failing[s] = "no"

\* When no call is in progress and nothing plays, nothing is shown as playing:
\* a cancelled or failed replacement advertises neither the retired source's TVs
\* nor its own.  What a Play abandoned by its caller leaves behind is a pending stream
\* that has been told to end, which the next Stop or Play takes.
RestingConsistent ==
    Quiet /\ ctl.stream = None =>
        /\ ctl.targets = {}
        /\ IF ctl.pending = None
           THEN ctl.pendingTargets = {} /\ ctl.phase \in {"idle", "error"}
           ELSE engine[ctl.pending].stopping

\* An engine that ended by itself does not stay the current stream.
DeadStreamCleared ==
    \A s \in Streams :
        Quiet /\ ctl.stream = s /\ engine[s].proc = "reaped" => Native(s)

\* A Play that a Stop or a later Play superseded commands no TV any more.
SupersededNeverAdds ==
    [][\A s \in Streams :
         ~(Told(s)' \subseteq Told(s)) => play'.gen = ctl'.generation]_vars

\* When a Stop returns and nothing was asked since, the TVs it names are silent; the
\* stream that goes on to other TVs has their remove before anything else it may be
\* told.
StopReturnsQuiet ==
    [][\A k \in Stoppers :
         /\ stops[k].pc # "idle" /\ stops'[k].pc = "idle"
         /\ Current(ctl, stops[k])
         /\ stops[k].pc = "removing" => ctl.stream = stops[k].active
         /\ stops[k].wait \subseteq torn
         =>
             \A s \in Streams, r \in Receivers :
                 stops[k].receiver \in {All, r} /\ r \in engine'[s].sessions =>
                     s = ctl'.stream /\ r \in engine'[s].leaving]_vars

\* Playback implements the lease of TVs to streams.
Holder(r) == IF \E s \in Streams : r \in engine[s].sessions
             THEN CHOOSE s \in Streams : r \in engine[s].sessions ELSE None
Lease == INSTANCE ReceiverLease WITH
           holder <- [r \in Receivers |-> Holder(r)],
           retired <- {s \in Streams : engine[s].stopping
                                       \/ engine[s].proc \in {"exited", "reaped"}}
ImplementsLease == Lease!LeaseSpec

\* Stop does not take the lock and always returns, and so does a Play.
StopReturns == \A k \in Stoppers : stops[k].pc # "idle" ~> stops[k].pc = "idle"
PlayReturns == play.pc # "idle" ~> play.pc = "idle"

\* The phase shown as "stopping" ends.
TeardownEnds == TearingDown ~> ~TearingDown

\* retire(): "Keep teardown owned even if its caller is cancelled": somebody waits for
\* every process that was told to end, and kills it if need be.
TeardownOwned ==
    \A s \in Streams : engine[s].stopping /\ Running(s) => Closing(s) \/ Native(s)

\* What was told to stop stops, a process spawned after its Stop included, unless a
\* cancellation took away the one call that waited for it.
ClosedIsReaped ==
    \A s \in Streams :
        engine[s].stopping /\ Running(s) ~>
            \/ engine[s].proc = "reaped"
            \/ engine[s].stopping /\ ~Native(s) /\ ~Closing(s)

-----------------------------------------------------------------------------
(* What the runs check, by the question it answers.                        *)

\* What the controller shows and what the processes do agree: a TV that is sent media
\* can be stopped by its name, and a controller at rest shows nothing of the past.
Consistent == TypeOK /\ SessionsAreListed /\ RestingConsistent

\* No process is lost, and none that was given up is joined by a later Play.
NoneLost == NoOrphan /\ CurrentNotClosing

\* Every Play and every Stop returns; every stream that was told to end does.
CallsReturn == StopReturns /\ PlayReturns
ClosesEnd == TeardownEnds /\ ClosedIsReaped
=============================================================================
