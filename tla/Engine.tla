------------------------------- MODULE Engine -------------------------------
(***************************************************************************)
(* One media process (run_stream of src/stream.cpp): the main thread, the  *)
(* command thread that reads the service's commands, the producer threads  *)
(* of Media (src/media.cpp), one mirror thread per TV (src/mirror.cpp) and *)
(* the recorder (src/recording.cpp), with the subscriber queues between    *)
(* the producers and their readers.                                        *)
(*                                                                         *)
(* A packet is its place in the order of publishing and its kind.  Times   *)
(* are not modelled: a deadline is a step that may always be taken.        *)
(***************************************************************************)
EXTENDS Integers, Sequences

CONSTANTS
    Receivers,      \* TVs
    Recorders,      \* the one recorder, or none
    Producers,      \* encoding threads
    Makes,          \* the kinds of packet each producer publishes
    Generated,      \* TRUE when the source is a generated video, which ends
    Slots,          \* local port slots
    Size,           \* the payload size of each kind
    QueueLimit,     \* packets a subscriber may hold: 600
    ByteLimit,      \* bytes a subscriber may hold: 24 MiB
    MaxPackets,     \* bound: packets published in a behaviour
    None

Readers == Receivers \cup Recorders
Kinds == {"key", "delta", "audio"}

ASSUME EngineAssumption ==
    /\ Receivers \cap Recorders = {}
    /\ None \notin Receivers
    /\ Makes \in [Producers -> SUBSET Kinds]
    /\ Generated \in BOOLEAN
    /\ Size \in [Kinds -> Nat]
    /\ QueueLimit \in Nat /\ ByteLimit \in Nat /\ MaxPackets \in Nat

VARIABLES
    log,        \* kinds of the published packets; the counters of publish
    media,      \* the flags of Media::Impl
    producer,   \* where each producer thread is
    sub,        \* the subscription of each reader
    stop,       \* the process-wide stop flag
    sessions,   \* the keys of the session map
    thread,     \* the mirror thread of each TV
    recorder,   \* the recording and its thread
    cmd,        \* the command thread
    main        \* where the main thread is

vars == <<log, media, producer, sub, stop, sessions, thread, recorder, cmd, main>>

Media == [failure : BOOLEAN, completed : BOOLEAN, closed : BOOLEAN,
          joined : BOOLEAN,     \* someone has subscribed
          noted : BOOLEAN]      \* source_error was reported
Sub == [on : BOOLEAN, queue : Seq(Nat \ {0}), bytes : Nat, closed : BOOLEAN,
        waiting : BOOLEAN, error : BOOLEAN,
        since : Nat,            \* packets published before the subscription
        last : Nat]             \* the last packet taken
\* "reported" is after the last event of a session and before finished is set.
Thread == [pc : {"none", "verify", "open", "streaming", "closing", "failing",
                 "reporting", "reported", "finished"},
           slot : Slots \cup {None},
           stop : BOOLEAN,
           tv : {"idle", "set", "torn"}]    \* SETUP and TEARDOWN sent to the TV

NoSub == [on |-> FALSE, queue |-> <<>>, bytes |-> 0, closed |-> FALSE,
          waiting |-> TRUE, error |-> FALSE, since |-> 0, last |-> 0]
NoThread == [pc |-> "none", slot |-> None, stop |-> FALSE, tv |-> "idle"]

Init ==
    /\ log = <<>>
    /\ media = [failure |-> FALSE, completed |-> FALSE, closed |-> FALSE,
                joined |-> FALSE, noted |-> FALSE]
    /\ producer = [p \in Producers |-> "running"]
    /\ sub = [x \in Readers |-> NoSub]
    /\ stop = FALSE
    /\ sessions = {}
    /\ thread = [r \in Receivers |-> NoThread]
    /\ recorder = [x \in Recorders |-> [pc |-> "none", stop |-> FALSE]]
    /\ cmd = [pc |-> "polling", id |-> None]
    /\ main = "waiting"

-----------------------------------------------------------------------------
(* The subscriber queue.                                                   *)

Subscribed == [NoSub EXCEPT !.on = TRUE, !.since = Len(log)]

Overflows(s, k) == Len(s.queue) >= QueueLimit \/ s.bytes + Size[k] > ByteLimit

\* Mutant: a new subscriber does not wait for a keyframe.
PushedAtOnce(s, k) ==
    IF ~s.on \/ s.closed THEN s
    ELSE IF Overflows(s, k)
         THEN [s EXCEPT !.waiting = FALSE, !.error = TRUE, !.closed = TRUE]
         ELSE [s EXCEPT !.waiting = FALSE, !.queue = Append(@, Len(log) + 1),
                        !.bytes = @ + Size[k]]

\* What publishing a packet of kind k does to a subscriber: nothing before its
\* first keyframe; a full one is closed with an error.
Pushed(s, k) ==
    IF ~s.on \/ s.closed \/ (s.waiting /\ k # "key") THEN s
    ELSE IF Overflows(s, k)
         THEN [s EXCEPT !.waiting = FALSE, !.error = TRUE, !.closed = TRUE]
         ELSE [s EXCEPT !.waiting = FALSE, !.queue = Append(@, Len(log) + 1),
                        !.bytes = @ + Size[k]]

Readable(s) == s.on /\ ~s.error /\ ~s.closed /\ s.queue # <<>>
\* Mutant: next() does not give the bytes back.
PoppedUncounted(s) == [s EXCEPT !.queue = Tail(@), !.last = Head(s.queue)]
Popped(s) == [s EXCEPT !.queue = Tail(@), !.last = Head(s.queue),
                       !.bytes = @ - Size[log[Head(s.queue)]]]

Closed(s) == IF s.on THEN [s EXCEPT !.closed = TRUE] ELSE s
AllClosed == [x \in Readers |-> Closed(sub[x])]

Interrupted == stop \/ media.closed

-----------------------------------------------------------------------------
(* Producers.                                                              *)

Publish(p, k) ==
    /\ producer[p] = "running"
    /\ k \in Makes[p]
    /\ Len(log) < MaxPackets
    /\ log' = Append(log, k)
    /\ sub' = [x \in Readers |-> Pushed(sub[x], k)]
    /\ UNCHANGED <<media, producer, stop, sessions, thread, recorder, cmd, main>>

ProducerFails(p) ==
    /\ producer[p] = "running" /\ ~Interrupted
    /\ producer' = [producer EXCEPT ![p] = "noting"]
    /\ media' = [media EXCEPT !.failure = TRUE]
    /\ UNCHANGED <<log, sub, stop, sessions, thread, recorder, cmd, main>>

ProducerNotes(p) ==
    /\ producer[p] = "noting"
    /\ producer' = [producer EXCEPT ![p] = "closing"]
    /\ media' = [media EXCEPT !.noted = TRUE]
    /\ UNCHANGED <<log, sub, stop, sessions, thread, recorder, cmd, main>>

\* A failure closes the media, an interrupted producer finds it closed or the
\* process stopping; only a capture closes the subscribers on its way out.
ProducerCloses(p) ==
    /\ \/ producer[p] = "closing" /\ media' = [media EXCEPT !.closed = TRUE]
       \/ producer[p] = "running" /\ Interrupted /\ UNCHANGED media
    /\ producer' = [producer EXCEPT ![p] = IF Generated THEN "ended" ELSE "leaving"]
    /\ UNCHANGED <<log, sub, stop, sessions, thread, recorder, cmd, main>>

CaptureLeaves(p) ==
    /\ producer[p] = "leaving"
    /\ producer' = [producer EXCEPT ![p] = "ended"]
    /\ sub' = IF media.closed THEN AllClosed ELSE sub
    /\ UNCHANGED <<log, media, stop, sessions, thread, recorder, cmd, main>>

\* A generated video has been drawn to its end; it starts at the first subscription.
Completes(p) ==
    /\ Generated /\ media.joined
    /\ producer[p] = "running" /\ ~Interrupted
    /\ producer' = [producer EXCEPT ![p] = "ended"]
    /\ media' = [media EXCEPT !.completed = TRUE]
    /\ UNCHANGED <<log, sub, stop, sessions, thread, recorder, cmd, main>>

ProducerEnds(p) == ProducerNotes(p) \/ ProducerCloses(p) \/ CaptureLeaves(p)

-----------------------------------------------------------------------------
(* The mirror thread of a TV.                                              *)

Running(r) == thread[r].pc \notin {"none", "finished"}
To(r, from, pc) == /\ thread[r].pc = from
                   /\ thread' = [thread EXCEPT ![r].pc = pc]
Asks(r, from, pc, tv) ==
    /\ thread[r].pc = from
    /\ thread' = [thread EXCEPT ![r] = [@ EXCEPT !.pc = pc, !.tv = tv]]

SetUp(r) ==
    /\ Asks(r, "verify", "open", "set")
    /\ UNCHANGED <<log, media, producer, sub, stop, sessions, recorder, cmd, main>>

Subscribe(r) ==
    /\ To(r, "open", "streaming")
    /\ sub' = [sub EXCEPT ![r] = Subscribed]
    /\ media' = [media EXCEPT !.joined = TRUE]
    /\ UNCHANGED <<log, producer, stop, sessions, recorder, cmd, main>>

Going(r) == ~thread[r].stop /\ ~media.failure

Deliver(r) ==
    /\ thread[r].pc = "streaming" /\ Going(r)
    /\ Readable(sub[r])
    /\ sub' = [sub EXCEPT ![r] = Popped(@)]
    /\ UNCHANGED <<log, media, producer, stop, sessions, thread, recorder, cmd, main>>

LoopEnds(r) ==
    /\ ~Going(r)
    /\ To(r, "streaming", "closing")
    /\ sub' = [sub EXCEPT ![r] = Closed(@)]
    /\ UNCHANGED <<log, media, producer, stop, sessions, recorder, cmd, main>>

\* next() throws the error of an overflow.
Overflowed(r) ==
    /\ sub[r].error
    /\ To(r, "streaming", "failing")
    /\ sub' = [sub EXCEPT ![r] = NoSub]
    /\ UNCHANGED <<log, media, producer, stop, sessions, recorder, cmd, main>>

\* The connection fails, a deadline passes or the TV answers with an error.
Breaks(r) ==
    /\ \/ To(r, "verify", "reporting")
       \/ \E pc \in {"open", "streaming", "closing"} : To(r, pc, "failing")
    /\ sub' = [sub EXCEPT ![r] = NoSub]
    /\ UNCHANGED <<log, media, producer, stop, sessions, recorder, cmd, main>>

TearDown(r) ==
    /\ Asks(r, "closing", "reported", "torn")
    /\ sub' = [sub EXCEPT ![r] = NoSub]
    /\ UNCHANGED <<log, media, producer, stop, sessions, recorder, cmd, main>>

\* Mutant: the handler only passes the exception on.
CleanUpNothing(r) ==
    /\ To(r, "failing", "reporting")
    /\ UNCHANGED <<log, media, producer, sub, stop, sessions, recorder, cmd, main>>

CleanUp(r) ==
    /\ Asks(r, "failing", "reporting", "torn")
    /\ UNCHANGED <<log, media, producer, sub, stop, sessions, recorder, cmd, main>>

Finishes(r) ==
    /\ To(r, "reporting", "reported") \/ To(r, "reported", "finished")
    /\ UNCHANGED <<log, media, producer, sub, stop, sessions, recorder, cmd, main>>

MirrorEnds(r) == LoopEnds(r) \/ Overflowed(r) \/ TearDown(r) \/ CleanUp(r) \/ Finishes(r)

-----------------------------------------------------------------------------
(* The recorder: a reader with a deadline, at most one at a time.          *)

Recording(x) == recorder[x].pc \in {"recording", "saving"}

RecorderTakes(x) ==
    /\ recorder[x].pc = "recording" /\ ~recorder[x].stop
    /\ Readable(sub[x])
    /\ sub' = [sub EXCEPT ![x] = Popped(@)]
    /\ UNCHANGED <<log, media, producer, stop, sessions, thread, recorder, cmd, main>>

RecorderEnds(x) ==
    /\ \/ /\ recorder[x].pc = "recording"
          /\ recorder' = [recorder EXCEPT ![x].pc = "saving"]
          /\ sub' = [sub EXCEPT ![x] = Closed(@)]
       \/ /\ recorder[x].pc = "saving"
          /\ recorder' = [recorder EXCEPT ![x].pc = "done"]
          /\ UNCHANGED sub
    /\ UNCHANGED <<log, media, producer, stop, sessions, thread, cmd, main>>

-----------------------------------------------------------------------------
(* The command thread.                                                     *)

Cmd(pc, id) == cmd' = [pc |-> pc, id |-> id]

\* A read returns some lines; the end of the input or an oversized line stops
\* the process; so does the loop's condition.
Poll ==
    /\ cmd.pc = "polling"
    /\ \/ ~stop /\ Cmd("lines", None) /\ UNCHANGED stop
       \/ Cmd("ended", None) /\ stop' = TRUE
    /\ UNCHANGED <<log, media, producer, sub, sessions, thread, recorder, main>>

NoMoreLines ==
    /\ cmd.pc = "lines" /\ Cmd("polling", None)
    /\ UNCHANGED <<log, media, producer, sub, stop, sessions, thread, recorder, main>>

StopCommand ==
    /\ cmd.pc = "lines" /\ Cmd("polling", None)
    /\ stop' = TRUE
    /\ UNCHANGED <<log, media, producer, sub, sessions, thread, recorder, main>>

RecordCommand(x) ==
    /\ cmd.pc = "lines" /\ ~Recording(x)
    /\ recorder' = [recorder EXCEPT ![x] = [pc |-> "recording", stop |-> FALSE]]
    /\ sub' = [sub EXCEPT ![x] = Subscribed]
    /\ media' = [media EXCEPT !.joined = TRUE]
    /\ UNCHANGED <<log, producer, stop, sessions, thread, cmd, main>>

\* Mutant: the session is joined without being stopped.
RemoveCommandOnly(r) ==
    /\ cmd.pc = "lines" /\ r \in sessions
    /\ Cmd("erasing", r)
    /\ UNCHANGED <<log, media, producer, sub, stop, sessions, thread, recorder, main>>

\* Erasing a session stops its thread and joins it.
RemoveCommand(r) ==
    /\ cmd.pc = "lines" /\ r \in sessions
    /\ thread' = [thread EXCEPT ![r].stop = TRUE]
    /\ Cmd("erasing", r)
    /\ UNCHANGED <<log, media, producer, sub, stop, sessions, recorder, main>>

\* Mutant: an erased session is detached.
JoinedAtOnce(r) == TRUE
Joined(r) == ~Running(r)

Erased ==
    /\ cmd.pc = "erasing" /\ Joined(cmd.id)
    /\ sessions' = sessions \ {cmd.id}
    /\ Cmd("lines", None)
    /\ UNCHANGED <<log, media, producer, sub, stop, thread, recorder, main>>

SlotFree(r, i) == \A o \in sessions \ {r} : thread[o].slot # i

\* An add of a TV whose session has not finished is ignored; one whose slot is
\* taken or whose credentials cannot be read only forgets the finished session.
AddCommand(r, i) ==
    /\ cmd.pc = "lines"
    /\ r \notin sessions \/ thread[r].pc = "finished"
    /\ \/ /\ SlotFree(r, i)
          /\ sessions' = sessions \cup {r}
          /\ thread' = [thread EXCEPT ![r] =
                          [pc |-> "verify", slot |-> i, stop |-> FALSE, tv |-> "idle"]]
       \/ sessions' = sessions \ {r} /\ UNCHANGED thread
    /\ UNCHANGED <<log, media, producer, sub, stop, recorder, cmd, main>>

-----------------------------------------------------------------------------
(* The main thread.                                                        *)

MainStops ==
    /\ main = "waiting" /\ (stop \/ media.failure \/ media.completed)
    /\ main' = "commands"
    /\ stop' = TRUE
    /\ UNCHANGED <<log, media, producer, sub, sessions, thread, recorder, cmd>>

MainResetsRecording ==
    /\ main = "commands" /\ cmd.pc = "ended"
    /\ main' = "recorder"
    /\ recorder' = [x \in Recorders |-> [recorder[x] EXCEPT !.stop = TRUE]]
    /\ sub' = [x \in Readers |-> IF x \in Recorders THEN Closed(sub[x]) ELSE sub[x]]
    /\ UNCHANGED <<log, media, producer, stop, sessions, thread, cmd>>

MainStopsSessions ==
    /\ main = "recorder" /\ \A x \in Recorders : ~Recording(x)
    /\ main' = "closing"
    /\ thread' = [r \in Receivers |->
                    IF r \in sessions THEN [thread[r] EXCEPT !.stop = TRUE] ELSE thread[r]]
    /\ UNCHANGED <<log, media, producer, sub, stop, sessions, recorder, cmd>>

MainCloses ==
    /\ main = "closing"
    /\ main' = "sessions"
    /\ media' = [media EXCEPT !.closed = TRUE]
    /\ sub' = AllClosed
    /\ UNCHANGED <<log, producer, stop, sessions, thread, recorder, cmd>>

MainClears ==
    /\ main = "sessions" /\ \A r \in sessions : Joined(r)
    /\ main' = "ended"
    /\ sessions' = {}
    /\ UNCHANGED <<log, media, producer, sub, stop, thread, recorder, cmd>>

\* Mutant: the producers are detached.
ProducersDetached == TRUE

\* ~Media joins the producers: the process exits.
ProducersJoined == \A p \in Producers : producer[p] = "ended"

MainExits ==
    /\ main = "ended" /\ ProducersJoined
    /\ main' = "exited"
    /\ UNCHANGED <<log, media, producer, sub, stop, sessions, thread, recorder, cmd>>

Main == \/ MainStops \/ MainResetsRecording \/ MainStopsSessions
        \/ MainCloses \/ MainClears \/ MainExits

-----------------------------------------------------------------------------
Produce(p) == \/ \E k \in Kinds : Publish(p, k)
              \/ ProducerFails(p) \/ Completes(p) \/ ProducerEnds(p)
Mirror(r) == SetUp(r) \/ Subscribe(r) \/ Deliver(r) \/ Breaks(r) \/ MirrorEnds(r)
Record(x) == RecorderTakes(x) \/ RecorderEnds(x)
Commands == \/ Poll \/ NoMoreLines \/ StopCommand \/ Erased
            \/ \E x \in Recorders : RecordCommand(x)
            \/ \E r \in Receivers : RemoveCommand(r) \/ \E i \in Slots : AddCommand(r, i)

Next == \/ Main \/ Commands
        \/ \E p \in Producers : Produce(p)
        \/ \E r \in Receivers : Mirror(r)
        \/ \E x \in Recorders : Record(x)

Spec == Init /\ [][Next]_vars

\* Threads run, requests to a TV end or time out, a recording has a deadline,
\* producers watch the stop flag, and a read holds finitely many lines.
Fairness ==
    /\ WF_vars(Main) /\ WF_vars(stop /\ Poll) /\ WF_vars(Erased) /\ SF_vars(NoMoreLines)
    /\ \A p \in Producers : WF_vars(ProducerEnds(p))
    /\ \A r \in Receivers : /\ WF_vars(MirrorEnds(r))
                            /\ WF_vars(thread[r].pc # "streaming" /\ (SetUp(r) \/ Subscribe(r) \/ Breaks(r)))
    /\ \A x \in Recorders : WF_vars(RecorderEnds(x))

FairSpec == Spec /\ Fairness

-----------------------------------------------------------------------------
(* Properties.                                                             *)

\* Every variable has its type; in particular the byte count of a queue, which
\* is unsigned in the code, is never taken below zero.
TypeOK ==
    /\ log \in Seq(Kinds) /\ media \in Media
    /\ producer \in [Producers -> {"running", "noting", "closing", "leaving", "ended"}]
    /\ sub \in [Readers -> Sub]
    /\ stop \in BOOLEAN /\ sessions \in SUBSET Receivers
    /\ thread \in [Receivers -> Thread]
    /\ recorder \in [Recorders -> [pc : {"none", "recording", "saving", "done"},
                                   stop : BOOLEAN]]
    /\ cmd \in [pc : {"polling", "lines", "erasing", "ended"}, id : Receivers \cup {None}]
    /\ main \in {"waiting", "commands", "recorder", "closing", "sessions", "ended", "exited"}

\* The limits of Subscriber hold, and its byte count is that of the packets it
\* holds: publish and next keep it together from two threads.
Total(q) == LET t[i \in 0..Len(q)] == IF i = 0 THEN 0 ELSE t[i - 1] + Size[log[q[i]]]
            IN  t[Len(q)]
Accounted == \A x \in Readers : /\ Len(sub[x].queue) <= QueueLimit
                                /\ sub[x].bytes <= ByteLimit
                                /\ sub[x].bytes = Total(sub[x].queue)

\* No mirror thread outlives its place in the session map, so after a
\* receiver_removed event, or the last event of the process, nothing more is
\* reported of a TV.
Owned == /\ \A r \in Receivers : Running(r) => r \in sessions
         /\ main \in {"ended", "exited"} =>
               /\ sessions = {} /\ cmd.pc = "ended"
               /\ \A x \in Recorders : ~Recording(x)

\* Two mirror threads never use the same local timing and control ports.
PortsExclusive ==
    \A r, o \in Receivers : r # o /\ Running(r) /\ Running(o) => thread[r].slot # thread[o].slot

\* A thread that set a stream up on a TV asks the TV to tear it down before its
\* last event, whichever way the connection ends.
TornDown == \A r \in Receivers : thread[r].pc \in {"reported", "finished"} => thread[r].tv # "set"

\* A TV whose queue was closed under it, and not for being full, has been told
\* to end: it does not sit out the eight seconds after which a silent source is
\* reported as the TV's error.
StarvedOnlyIfEnding ==
    \A r \in Receivers : thread[r].pc = "streaming" /\ sub[r].closed /\ ~sub[r].error => ~Going(r)

\* When the process exits for a failed source it has said why.
FailureIsReported == main = "exited" /\ media.failure => media.noted

\* Every reader gets an unbroken run of packets from a keyframe.
FeedOf == [x \in Readers |->
             IF sub[x].on /\ ~sub[x].closed
             THEN [on |-> TRUE, since |-> sub[x].since, last |-> sub[x].last]
             ELSE [on |-> FALSE, since |-> 0, last |-> 0]]
Abstract == INSTANCE Feed WITH feed <- FeedOf
ImplementsFeed == Abstract!Spec

\* A stop, a failed source and the end of a generated video each end the
\* process, whatever its TVs do.
EngineExits == (stop \/ media.failure \/ media.completed) ~> (main = "exited")

\* The command thread, which also reads the stop command, is not held up for
\* ever by the TV it removes.
RemoveReturns == cmd.pc = "erasing" ~> cmd.pc # "erasing"

\* A TV whose stream was set up and whose session was told to stop is asked to
\* tear it down.
SetIsTorn == \A r \in Receivers :
               (thread[r].tv = "set" /\ thread[r].stop) ~> (thread[r].tv = "torn")

-----------------------------------------------------------------------------
(* What the runs check, by the question it answers.                        *)

\* The queues keep their limits and their byte counts, from any two threads.
QueuesKept == TypeOK /\ Accounted

\* The threads are those of the session map, each with local ports of its own.
ThreadsOwned == Owned /\ PortsExclusive

\* Nobody is left in the dark by the end of a source: neither a TV that waits for media
\* nor the service that reads why the process exits.
EndsAreTold == StarvedOnlyIfEnding /\ FailureIsReported

\* The process, a remove and the stream of a TV that was told to stop all end.
EngineEnds == EngineExits /\ RemoveReturns /\ SetIsTorn
=============================================================================
