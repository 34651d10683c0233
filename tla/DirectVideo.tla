----------------------------- MODULE DirectVideo -----------------------------
(***************************************************************************)
(* One TV's direct video: class NativeSession of service/native_session.py *)
(* with the resources it owns, each of which is to it what module Owned    *)
(* says: the stream that prepares the media (module HlsStream), the        *)
(* listener that serves it (class NativeHLSOrigin) and the worker that     *)
(* makes the TV fetch it (module EnginePlayer).                            *)
(*                                                                         *)
(*   sstate   _state; "failed" with the reason in _failure and _error;     *)
(*   prepare, connect  the callers of prepare() and connect(), and what    *)
(*            they got;  ptask, ctask, watch, sclose  the tasks _prepare,  *)
(*            _connect, _monitor and _cleanup;                             *)
(*   producer, origin, player  the resources;  whole  the playlist still   *)
(*            has its first segment;  complete  the source is finished;    *)
(*   sent     the pieces of the first segment that the TV was sent,        *)
(*            ranges the ones that are remembered, begun all of it         *)
(*            (_beginning), spoilt  start_failed;                          *)
(*   accepted, connected  _receiver_ready, and _connected_at is set.       *)
(*                                                                         *)
(* Code between two awaits is one action.  A task that ended wakes its     *)
(* caller before _cleanup, which began to wait for it later, goes on.  The *)
(* TV and the clock are free.  A request is one step: one that was begun   *)
(* before the whole beginning was sent, and ends later, leaves only a      *)
(* range that nobody reads.                                                *)
(***************************************************************************)
EXTENDS Naturals, FiniteSets

CONSTANTS
    Pieces,         \* the first segment is the pieces 1..Pieces
    MaxRanges       \* 64: separate ranges of it that are remembered

ASSUME DirectAssumption == Pieces \in Nat \ {0} /\ MaxRanges \in Nat

VARIABLES sstate, prepare, connect, ptask, ctask, watch, sclose, sclosed,
          producer, origin, player, whole, complete, sent, ranges, begun, spoilt, accepted, connected

Producer == INSTANCE Owned WITH r <- producer
Origin == INSTANCE Owned WITH r <- origin
Player == INSTANCE Owned WITH r <- player

calls == <<prepare, connect>>
resources == <<producer, origin, player>>
media == <<whole, complete>>
served == <<sent, ranges, begun, spoilt>>
tv == <<accepted, connected>>
vars == <<sstate, calls, ptask, ctask, watch, sclose, sclosed, resources, media, served, tv>>

Outcomes == {"ok", "error", "cancelled"}
\* A caller is none, waits for its task, awaits close() to raise an outcome, or has it; or it
\* was cancelled while it awaited close(), and was told nothing else.
Caller == {"none", "wait"} \cup Outcomes \cup {"close-error", "close-cancelled", "abandoned"}
Refused == {"error", "cancelled"}

TypeOK ==
    /\ sstate \in {"new", "preparing", "prepared", "connecting", "streaming", "draining",
                   "completed", "failed", "stopping", "stopped"}
    /\ {prepare, connect} \subseteq Caller
    /\ ptask \in {"none", "begin", "start", "unwind"} \cup Outcomes
    /\ ctask \in {"none", "begin", "origin", "player", "ready", "unwind"} \cup Outcomes
    /\ watch \in {"none", "watch", "done"}
    /\ sclose \in {"none", "begin", "tasks", "player", "origin", "producer", "done"}
    /\ {producer, origin, player} \subseteq Producer!Resources
    /\ ranges \subseteq sent /\ sent \subseteq 1..Pieces
    /\ {sclosed, whole, complete, begun, spoilt, accepted, connected} \subseteq BOOLEAN

Init ==
    /\ sstate = "new"
    /\ prepare = "none" /\ connect = "none"
    /\ ptask = "none" /\ ctask = "none" /\ watch = "none" /\ sclose = "none"
    /\ sclosed = FALSE
    /\ Producer!Init /\ Origin!Init /\ Player!Init
    /\ whole = FALSE /\ complete = FALSE
    /\ sent = {} /\ ranges = {} /\ begun = FALSE /\ spoilt = FALSE
    /\ accepted = FALSE /\ connected = FALSE

Ended(t) == t \in {"none"} \cup Outcomes
Shut(resource) == resource.st = "new" \/ resource.closed # "no"
Usable == producer.st = "up" /\ ~producer.failed /\ producer.closed = "no"
Fail == sstate' = "failed"
RequestClose == sclose' = IF sclose = "none" THEN "begin" ELSE sclose

-----------------------------------------------------------------------------
\* prepare()
Prepare ==
    /\ sstate = "new" /\ sclose = "none"
    /\ sstate' = "preparing" /\ prepare' = "wait" /\ ptask' = "begin"
    /\ UNCHANGED <<connect, ctask, watch, sclose, sclosed, resources, media, served, tv>>

PrepareStarts ==
    /\ ptask = "begin"
    /\ \/ ptask' = "start" /\ Producer!Start
       \/ ptask' = "error" /\ UNCHANGED producer       \* the settings, or the directory
    /\ UNCHANGED <<sstate, calls, ctask, watch, sclose, sclosed, origin, player, media, served, tv>>

\* The stream is started, and its plan is read.
PrepareTaskEnds ==
    /\ ptask \in {"start", "unwind"} /\ producer.st \in {"up", "over"}
    /\ ptask' \in IF Usable THEN {"ok", "error"}
                  ELSE {IF producer.st = "over" /\ ptask = "unwind" THEN "cancelled" ELSE "error"}
    /\ UNCHANGED <<sstate, calls, ctask, watch, sclose, sclosed, resources, media, served, tv>>

Prepared ==
    /\ prepare = "wait" /\ ptask = "ok"
    /\ IF sclose = "none"
       THEN sstate' = "prepared" /\ prepare' = "ok" /\ watch' = "watch"
       ELSE prepare' = "close-error" /\ UNCHANGED <<sstate, watch>>
    /\ UNCHANGED sclose

NotPrepared ==
    /\ prepare = "wait" /\ ptask \in Refused
    /\ IF ptask = "error" THEN Fail ELSE UNCHANGED sstate
    /\ prepare' = IF ptask = "error" THEN "close-error" ELSE "close-cancelled"
    /\ RequestClose
    /\ UNCHANGED watch

\* The caller is cancelled.
CancelPrepare ==
    /\ prepare = "wait" /\ prepare' = "close-cancelled"
    /\ RequestClose
    /\ UNCHANGED <<sstate, watch>>

PrepareGoesOn ==
    /\ Prepared \/ NotPrepared \/ CancelPrepare
    /\ UNCHANGED <<connect, ptask, ctask, sclosed, resources, media, served, tv>>

\* What the caller of prepare() or connect() is told after close().
\* Mutant: a cancellation is always told as one.
RaisedAsItCame(outcome) == IF outcome = "close-error" THEN "error" ELSE "cancelled"
Raised(outcome) == IF outcome = "close-error" \/ sstate = "failed" THEN "error" ELSE "cancelled"
Waits(outcome) == outcome \in {"close-error", "close-cancelled"}
Raises ==
    /\ sclosed
    /\ \/ Waits(prepare) /\ prepare' = Raised(prepare) /\ UNCHANGED connect
       \/ Waits(connect) /\ connect' = Raised(connect) /\ UNCHANGED prepare
    /\ UNCHANGED <<sstate, ptask, ctask, watch, sclose, sclosed, resources, media, served, tv>>

\* The caller is cancelled there, by the first request or a later one: it raises at once, and
\* close() goes on as its own task.
Abandons ==
    /\ \/ Waits(prepare) /\ prepare' = "abandoned" /\ UNCHANGED connect
       \/ Waits(connect) /\ connect' = "abandoned" /\ UNCHANGED prepare
    /\ UNCHANGED <<sstate, ptask, ctask, watch, sclose, sclosed, resources, media, served, tv>>

-----------------------------------------------------------------------------
\* connect()
Connect ==
    /\ sstate = "prepared" /\ connect = "none" /\ sclose = "none"
    /\ sstate' = "connecting" /\ connect' = "wait" /\ ctask' = "begin"
    /\ UNCHANGED <<prepare, ptask, watch, sclose, sclosed, resources, media, served, tv>>

\* The media must still be whole, and enough of the session left.
ConnectStarts ==
    /\ ctask = "begin"
    /\ \/ Usable /\ whole /\ ctask' = "origin" /\ Origin!Start
       \/ ctask' = "error" /\ UNCHANGED origin
    /\ UNCHANGED <<sstate, calls, ptask, watch, sclose, sclosed, producer, player, media, served, tv>>

OriginStarted ==
    /\ ctask = "origin" /\ origin.st \in {"up", "over"}
    /\ \/ origin.st = "up" /\ ~origin.asked /\ ctask' = "player" /\ Player!Start
       \/ (origin.st = "over" \/ origin.asked) /\ ctask' = "error" /\ UNCHANGED player
    /\ UNCHANGED <<sstate, calls, ptask, watch, sclose, sclosed, producer, origin, media, served, tv>>

PlayerStarted ==
    /\ ctask = "player" /\ player.st \in {"up", "over"}
    /\ ctask' = IF player.st = "up" THEN "ready" ELSE "error"
    /\ UNCHANGED <<sstate, calls, ptask, watch, sclose, sclosed, resources, media, served, tv>>

\* The TV accepts the playback, or does not in time.
TVReady ==
    /\ ctask = "ready"
    /\ IF accepted THEN ctask' = "ok" /\ connected' = TRUE
                   ELSE ctask' = "error" /\ UNCHANGED connected
    /\ UNCHANGED <<sstate, calls, ptask, watch, sclose, sclosed, resources, media, served, accepted>>

ConnectUnwound ==
    /\ ctask = "unwind" /\ "starting" \notin {origin.st, player.st}
    /\ ctask' = "cancelled"
    /\ UNCHANGED <<sstate, calls, ptask, watch, sclose, sclosed, resources, media, served, tv>>

Connected ==
    /\ connect = "wait" /\ ctask = "ok"
    /\ connect' = IF sclose = "none" THEN "ok" ELSE "close-error"
    /\ UNCHANGED <<sstate, sclose>>

NotConnected ==
    /\ connect = "wait" /\ ctask \in Refused
    /\ IF ctask = "error" THEN Fail ELSE UNCHANGED sstate
    /\ connect' = IF ctask = "error" THEN "close-error" ELSE "close-cancelled"
    /\ RequestClose

CancelConnect ==
    /\ connect = "wait" /\ connect' = "close-cancelled"
    /\ RequestClose
    /\ UNCHANGED sstate

ConnectGoesOn ==
    /\ Connected \/ NotConnected \/ CancelConnect
    /\ UNCHANGED <<prepare, ptask, ctask, watch, sclosed, resources, media, served, tv>>

-----------------------------------------------------------------------------
\* _event: the TV plays.
Accept ==
    /\ player.st = "up" /\ player.closed = "no" /\ sstate = "connecting" /\ ~accepted
    /\ accepted' = TRUE /\ sstate' = "streaming"
    /\ UNCHANGED <<calls, ptask, ctask, watch, sclose, sclosed, resources, media, served, connected>>

\* _serve.  The TV asks for the playlist, which must still begin at the beginning, or for a
\* range of the first segment; ranges that touch are merged.
Playlist == spoilt' = (spoilt \/ ~whole) /\ UNCHANGED <<sent, ranges, begun>>

Blocks(s) == Cardinality({i \in s : i - 1 \notin s})
\* Mutant: a range that ends at the end of the segment is all of it.
MergedByEnd(all) == Pieces \in all
Merged(all) == all = 1..Pieces
Fetch ==
    \E low \in 1..Pieces, high \in 1..Pieces :
        LET all == ranges \cup (low..high) IN
        /\ low <= high
        /\ sent' = sent \cup (low..high)
        /\ begun' = Merged(all)
        /\ ranges' = IF begun' THEN {} ELSE IF Blocks(all) <= MaxRanges THEN all ELSE ranges
        /\ spoilt' = (spoilt \/ (~begun' /\ Blocks(all) > MaxRanges))

\* Later requests, and those after the monitor ended, change nothing that is read.
Request ==
    /\ origin.st = "up" /\ ~origin.asked /\ ~begun /\ watch = "watch"
    /\ Playlist \/ Fetch
    /\ UNCHANGED <<sstate, calls, ptask, ctask, watch, sclose, sclosed, resources, media, tv>>

-----------------------------------------------------------------------------
\* One round of _monitor.  The clock's conditions (a late TV, the session limit, the end of
\* the drain) may come true at any time.
Broken ==
    \/ producer.failed \/ producer.closed # "no"
    \/ player.closed # "no" \/ origin.closed # "no" \/ spoilt

Drained == sstate' = IF begun THEN "completed" ELSE "failed"

Monitor ==
    /\ watch = "watch" /\ sclose = "none"
    /\ \/ Fail /\ watch' = "done" /\ RequestClose
       \/ /\ ~Broken /\ complete /\ connected
          /\ \/ sstate # "draining" /\ sstate' = "draining" /\ UNCHANGED <<watch, sclose>>
             \/ sstate = "draining" /\ Drained /\ watch' = "done" /\ RequestClose
    /\ UNCHANGED <<calls, ptask, ctask, sclosed, resources, media, served, tv>>

-----------------------------------------------------------------------------
\* close() and _cleanup.
Close ==
    /\ sclose = "none" /\ sclose' = "begin"
    /\ UNCHANGED <<sstate, calls, ptask, ctask, watch, sclosed, resources, media, served, tv>>

\* The tasks are cancelled, each where it waits.  A wait_for whose result is there at that
\* moment returns it: the task goes on.
CancelPreparation ==
    ptask' \in CASE ptask = "begin" -> {"cancelled"}
                 [] ptask = "start" -> IF producer.st = "starting" THEN {"unwind"} ELSE {"start", "cancelled"}
                 [] OTHER -> {ptask}

CancelConnection ==
    /\ ctask' \in CASE ctask = "begin" -> {"cancelled"}
                    [] ctask = "origin" -> {IF origin.st = "starting" THEN "unwind" ELSE "cancelled"}
                    [] ctask = "player" -> {IF player.st = "starting" THEN "unwind" ELSE "cancelled"}
                    [] ctask = "ready" -> {"cancelled"} \cup (IF accepted THEN {"ok"} ELSE {})
                    [] OTHER -> {ctask}
    /\ connected' = (connected \/ (ctask = "ready" /\ ctask' = "ok"))

\* Mutant: a failure is forgotten when the session stops.
StopStateAlways == "stopping"
StopState == IF sstate \in {"failed", "completed"} THEN sstate ELSE "stopping"

Cancels ==
    /\ sclose = "begin" /\ sclose' = "tasks"
    /\ sstate' = StopState
    /\ CancelPreparation /\ CancelConnection
    /\ watch' = IF watch = "watch" THEN "done" ELSE watch
    /\ UNCHANGED <<calls, sclosed, resources, media, served, accepted>>

TasksEnded ==
    /\ Ended(ptask) /\ Ended(ctask)
    /\ "wait" \notin {prepare, connect}              \* they were woken before

\* The resources in this order, each although the one before it failed.
\* Mutant: the player is closed without waiting for the tasks that may still start it.
ClosePlayerAtOnce ==
    /\ sclose = "tasks"
    /\ sclose' = "player"
    /\ IF player.st = "new" THEN UNCHANGED player ELSE Player!Ask
    /\ UNCHANGED <<sstate, calls, ptask, ctask, watch, sclosed, producer, origin, media, served, tv>>
\* Mutant: all of them are closed at once.
CloseTogether ==
    /\ sclose = "tasks" /\ TasksEnded
    /\ sclose' = "player"
    /\ IF player.st = "new" THEN UNCHANGED player ELSE Player!Ask
    /\ IF producer.st = "new" THEN UNCHANGED producer ELSE Producer!Ask
    /\ UNCHANGED <<sstate, calls, ptask, ctask, watch, sclosed, origin, media, served, tv>>
ClosePlayer ==
    /\ sclose = "tasks" /\ TasksEnded
    /\ sclose' = "player"
    /\ IF player.st = "new" THEN UNCHANGED player ELSE Player!Ask
    /\ UNCHANGED <<sstate, calls, ptask, ctask, watch, sclosed, producer, origin, media, served, tv>>

CloseOrigin ==
    /\ sclose = "player" /\ Shut(player)
    /\ sclose' = "origin"
    /\ IF player.failed THEN Fail ELSE UNCHANGED sstate
    /\ IF origin.st = "new" THEN UNCHANGED origin ELSE Origin!Ask
    /\ UNCHANGED <<calls, ptask, ctask, watch, sclosed, producer, player, media, served, tv>>

\* Mutant: a listener that cannot be closed ends the cleanup.
CloseProducerUnlessRaised ==
    /\ sclose = "origin" /\ Shut(origin)
    /\ sclose' = "producer"
    /\ IF origin.closed = "raised" THEN Fail ELSE UNCHANGED sstate
    /\ IF producer.st = "new" \/ origin.closed = "raised" THEN UNCHANGED producer ELSE Producer!Ask
    /\ UNCHANGED <<calls, ptask, ctask, watch, sclosed, origin, player, media, served, tv>>
CloseProducer ==
    /\ sclose = "origin" /\ Shut(origin)
    /\ sclose' = "producer"
    /\ IF origin.closed = "raised" THEN Fail ELSE UNCHANGED sstate
    /\ IF producer.st = "new" THEN UNCHANGED producer ELSE Producer!Ask
    /\ UNCHANGED <<calls, ptask, ctask, watch, sclosed, origin, player, media, served, tv>>

Closed ==
    /\ sclose = "producer" /\ Shut(producer)
    /\ sclose' = "done" /\ sclosed' = TRUE
    /\ sstate' = IF producer.closed = "raised" THEN "failed"
                 ELSE IF sstate \in {"failed", "completed"} THEN sstate ELSE "stopped"
    /\ UNCHANGED <<calls, ptask, ctask, watch, resources, media, served, tv>>

-----------------------------------------------------------------------------
\* What the resources do by themselves.  The stream closes itself only when its start fails;
\* once the source is finished nothing watches it any more.
ProducerStep ==
    /\ \/ Producer!Up /\ whole' = TRUE /\ UNCHANGED complete
       \/ (Producer!Over \/ (producer.st = "starting" /\ Producer!Ask)) /\ UNCHANGED media
       \/ producer.st # "new" /\ ~complete /\ Producer!Fails /\ UNCHANGED media
       \/ Usable /\ ~complete /\ whole' = FALSE /\ UNCHANGED <<producer, complete>>
       \/ Usable /\ ~producer.asked /\ complete' = TRUE /\ UNCHANGED <<producer, whole>>
       \/ Producer!Close /\ UNCHANGED media
    /\ UNCHANGED <<origin, player>>
OriginStep ==
    /\ Origin!Up \/ Origin!Over \/ (origin.st # "new" /\ Origin!Ask) \/ Origin!Close
    /\ UNCHANGED <<producer, player, media>>
PlayerStep ==
    /\ \/ Player!Up \/ Player!Over
       \/ player.st # "new" /\ (Player!Fails \/ Player!Ask)
       \/ Player!Close /\ player'.closed = "clean"
    /\ UNCHANGED <<producer, origin, media>>

ResourceStep ==
    /\ ProducerStep \/ OriginStep \/ PlayerStep
    /\ UNCHANGED <<sstate, calls, ptask, ctask, watch, sclose, sclosed, served, tv>>

\* start() returns and close() ends: StreamEnds, WorkerEnds.
Settles(resource) ==
    \/ resource.st = "starting" /\ resource'.st \in {"up", "over"}
    \/ resource'.closed # resource.closed
ResourceSettles == ResourceStep /\ (Settles(producer) \/ Settles(origin) \/ Settles(player))

SessionOwn ==
    \/ PrepareStarts \/ PrepareTaskEnds \/ PrepareGoesOn \/ Raises
    \/ ConnectStarts \/ OriginStarted \/ PlayerStarted \/ TVReady \/ ConnectUnwound \/ ConnectGoesOn
    \/ Monitor \/ Cancels \/ ClosePlayer \/ CloseOrigin \/ CloseProducer \/ Closed

Next ==
    SessionOwn \/ ResourceStep \/ Prepare \/ Connect \/ Abandons \/ Close \/ Accept \/ Request

\* asyncio runs what is ready, its timers fire and the resources settle.  Nothing is assumed
\* of the user, the TV, ffmpeg and the engine.
Spec == Init /\ [][Next]_vars
FairSpec == Spec /\ WF_vars(SessionOwn \/ ResourceSettles)

-----------------------------------------------------------------------------
Held == producer.held \/ origin.held \/ player.held

\* To the controller the session is such a resource itself: closed says that none of its
\* resources holds anything, and none takes anything later.
View == [st |-> CASE prepare = "none" -> "new" [] prepare = "ok" -> "up"
                  [] prepare \in Refused \cup {"abandoned"} -> "over" [] OTHER -> "starting",
         asked |-> sclose # "none", held |-> Held, failed |-> sstate = "failed",
         closed |-> IF sclosed THEN "clean" ELSE "no"]
Session == INSTANCE Owned WITH r <- View
SessionIsOwned == Session!Spec

\* Served media are not given up while the listener is open or the worker may make the TV
\* fetch them, whatever fails while the session closes.
ServedUntilClosed == TypeOK /\ (producer.asked /\ origin.st # "new" => Shut(origin) /\ Shut(player))

\* prepare() and connect() raise only when nothing of the session is left, so that the
\* controller may start what replaces it, and a failed session is never told as a mere
\* cancellation; a caller cancelled while it awaited close() is told neither, but then close()
\* is under way without it.  prepare() returns only when a monitor watches the session.
CallersAreTold ==
    /\ \A c \in {prepare, connect} :
         /\ c \in Refused => sclosed /\ ~Held
         /\ c = "cancelled" => sstate # "failed"
         /\ c = "abandoned" => sclose # "none"
    /\ prepare = "ok" => watch # "none"

\* A closed session says completed only when the TV accepted it and was sent the whole
\* beginning, the source was finished, and neither worker nor media failed.
CompletedIsTrue ==
    sclosed /\ sstate = "completed" =>
        sent = 1..Pieces /\ connected /\ complete /\ ~player.failed /\ ~producer.failed

\* A failure is not forgotten, and what a closed session says does not change.
FailureStays ==
    [][(sstate = "failed" => sstate' = "failed") /\ (sclosed => UNCHANGED <<sstate, sclosed>>)]_vars

\* Every session that was begun ends and releases what it has, closed by its owner or not.
SessionEnds ==
    []<>(sstate = "new" \/ (sclosed /\ ~Waits(prepare) /\ ~Waits(connect) /\ "wait" \notin {prepare, connect}))
=============================================================================
