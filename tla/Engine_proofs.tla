---------------------------- MODULE Engine_proofs ----------------------------
(***************************************************************************)
(* Proofs about Engine, for every set of TVs, producers and slots and      *)
(* every limit of the queues.                                              *)
(***************************************************************************)
EXTENDS Engine, Integers, WellFoundedInduction, TLAPS

PCs == {"none", "verify", "open", "streaming", "closing", "failing", "reporting",
        "reported", "finished"}

SubShape == [on : BOOLEAN, queue : Seq(Nat), bytes : Int, closed : BOOLEAN,
             waiting : BOOLEAN, error : BOOLEAN, since : Nat, last : Nat]

\* The queues: TypeOK but for the sign of a byte count, which follows from what
\* is counted; what is in a queue has been published.
QueueShape ==
    /\ log \in Seq(Kinds)
    /\ sub \in [Readers -> SubShape]
    /\ \A x \in Readers : \A i \in 1..Len(sub[x].queue) : sub[x].queue[i] \in 1..Len(log)

\* The threads: the rest of TypeOK.
ThreadShape ==
    /\ media \in Media
    /\ producer \in [Producers -> {"running", "noting", "closing", "leaving", "ended"}]
    /\ stop \in BOOLEAN /\ sessions \in SUBSET Receivers
    /\ thread \in [Receivers -> Thread]
    /\ recorder \in [Recorders -> [pc : {"none", "recording", "saving", "done"},
                                   stop : BOOLEAN]]
    /\ cmd \in [pc : {"polling", "lines", "erasing", "ended"}, id : Receivers \cup {None}]
    /\ main \in {"waiting", "commands", "recorder", "closing", "sessions", "ended", "exited"}

-----------------------------------------------------------------------------
(* The operators on a subscription keep its shape.                         *)

\* A new subscription has the shape of one, and nothing in its queue.
LEMMA SubscribedShape ==
  ASSUME log \in Seq(Kinds)
  PROVE  Subscribed \in SubShape /\ Subscribed.queue = <<>> /\ ~Subscribed.closed
  <1>1. NoSub \in SubShape BY DEF NoSub, SubShape
  <1>2. Len(log) \in Nat OBVIOUS
  <1>3. [NoSub EXCEPT !.on = TRUE, !.since = Len(log)] \in SubShape
    BY <1>1, <1>2 DEF SubShape
  <1>4. /\ [NoSub EXCEPT !.on = TRUE, !.since = Len(log)].queue = <<>>
        /\ [NoSub EXCEPT !.on = TRUE, !.since = Len(log)].closed = FALSE
    BY DEF NoSub
  <1> QED BY <1>3, <1>4 DEF Subscribed

\* Publishing adds the new packet or nothing to a queue, and closes it only
\* with an error.
LEMMA PushedShape ==
  ASSUME EngineAssumption, log \in Seq(Kinds), NEW k \in Kinds, NEW s \in SubShape
  PROVE  /\ Pushed(s, k) \in SubShape
         /\ Pushed(s, k).queue \in {s.queue, Append(s.queue, Len(log) + 1)}
         /\ Pushed(s, k).closed /\ ~s.closed => Pushed(s, k).error
         /\ s.closed => Pushed(s, k) = s
  <1>1. Size[k] \in Nat BY DEF EngineAssumption
  <1>2. Len(log) + 1 \in Nat OBVIOUS
  <1>3. Append(s.queue, Len(log) + 1) \in Seq(Nat) BY <1>2 DEF SubShape
  <1> DEFINE e == [s EXCEPT !.waiting = FALSE, !.error = TRUE, !.closed = TRUE]
             q == [s EXCEPT !.waiting = FALSE, !.queue = Append(@, Len(log) + 1),
                            !.bytes = @ + Size[k]]
  <1>4. e \in SubShape /\ e.queue = s.queue /\ e.error BY DEF SubShape
  <1>5. /\ q \in SubShape /\ q.queue = Append(s.queue, Len(log) + 1)
        /\ q.closed = s.closed
    <2>1. s.bytes + Size[k] \in Int BY <1>1 DEF SubShape
    <2> QED BY <1>3, <2>1 DEF SubShape
  <1>6. Pushed(s, k) \in {s, e, q} /\ (s.closed => Pushed(s, k) = s)
    BY DEF Pushed
  <1> HIDE DEF e, q
  <1> QED BY <1>4, <1>5, <1>6

\* Taking a packet removes the head of the queue and leaves the flags alone.
LEMMA PoppedShape ==
  ASSUME EngineAssumption, log \in Seq(Kinds), NEW s \in SubShape, s.queue # <<>>,
         \A i \in 1..Len(s.queue) : s.queue[i] \in 1..Len(log)
  PROVE  /\ Popped(s) \in SubShape /\ Popped(s).queue = Tail(s.queue)
         /\ Popped(s).closed = s.closed /\ Popped(s).error = s.error
         /\ \A i \in 1..Len(Tail(s.queue)) : Tail(s.queue)[i] = s.queue[i + 1]
         /\ Len(Tail(s.queue)) = Len(s.queue) - 1
  <1>1. s.queue \in Seq(Nat) BY DEF SubShape
  <1>2. Tail(s.queue) \in Seq(Nat) /\ Head(s.queue) = s.queue[1] /\ Len(s.queue) >= 1
    BY <1>1
  <1>3. Head(s.queue) \in 1..Len(log) BY <1>2
  <1>4. Size[log[Head(s.queue)]] \in Nat BY <1>3 DEF EngineAssumption
  <1>5. Popped(s) = [s EXCEPT !.queue = Tail(s.queue), !.last = Head(s.queue),
                              !.bytes = s.bytes - Size[log[Head(s.queue)]]]
    BY DEF Popped
  <1>6. Head(s.queue) \in Nat BY <1>3
  <1>7. s.bytes - Size[log[Head(s.queue)]] \in Int BY <1>4 DEF SubShape
  <1>8. /\ Popped(s) \in SubShape /\ Popped(s).queue = Tail(s.queue)
        /\ Popped(s).closed = s.closed /\ Popped(s).error = s.error
    BY <1>2, <1>5, <1>6, <1>7 DEF SubShape
  <1>9. /\ \A i \in 1..Len(Tail(s.queue)) : Tail(s.queue)[i] = s.queue[i + 1]
        /\ Len(Tail(s.queue)) = Len(s.queue) - 1
    BY <1>1
  <1> QED BY <1>8, <1>9

\* Closing a subscription changes its closed flag only.
LEMMA ClosedShape ==
  ASSUME NEW s \in SubShape
  PROVE  /\ Closed(s) \in SubShape /\ Closed(s).queue = s.queue
         /\ Closed(s).error = s.error
  <1>1. /\ [s EXCEPT !.closed = TRUE] \in SubShape
        /\ [s EXCEPT !.closed = TRUE].queue = s.queue
        /\ [s EXCEPT !.closed = TRUE].error = s.error
    BY DEF SubShape
  <1> QED BY <1>1 DEF Closed

\* Every behaviour starts in the shape.
LEMMA ShapeInit == ASSUME Init PROVE QueueShape /\ ThreadShape
  <1>1. NoSub \in SubShape /\ Len(NoSub.queue) = 0 BY DEF NoSub, SubShape
  <1>2. NoThread \in Thread BY DEF NoThread, Thread
  <1>3. log \in Seq(Kinds) /\ sub \in [Readers -> SubShape] BY <1>1 DEF Init
  <1>4. \A x \in Readers : Len(sub[x].queue) = 0 BY <1>1 DEF Init
  <1>5. thread \in [Receivers -> Thread] BY <1>2 DEF Init
  <1>6. QueueShape BY <1>3, <1>4 DEF QueueShape
  <1>7. ThreadShape BY <1>5 DEF Init, ThreadShape, Media
  <1> QED BY <1>6, <1>7

\* Every step keeps the threads in shape.
LEMMA ThreadStep == ASSUME ThreadShape, [Next]_vars PROVE ThreadShape'
  <1> USE DEF ThreadShape
  <1>1. ASSUME NEW p \in Producers, Produce(p) PROVE ThreadShape'
    BY <1>1 DEF Produce, Publish, ProducerFails, Completes, ProducerEnds,
                ProducerNotes, ProducerCloses, CaptureLeaves, Media
  <1>0. ASSUME NEW r \in Receivers, NEW from \in PCs, NEW pc \in PCs,
               NEW tv \in {"idle", "set", "torn"},
               To(r, from, pc) \/ Asks(r, from, pc, tv)
        PROVE  thread' \in [Receivers -> Thread]
    <2>1. thread[r] \in Thread OBVIOUS
    <2>2. /\ [thread[r] EXCEPT !.pc = pc] \in Thread
          /\ [thread[r] EXCEPT !.pc = pc, !.tv = tv] \in Thread
      BY <2>1 DEF Thread, PCs
    <2> QED BY <1>0, <2>2 DEF To, Asks
  <1>2. ASSUME NEW r \in Receivers, Mirror(r) PROVE ThreadShape'
    <2>1. CASE SetUp(r) BY <1>0, <2>1 DEF SetUp, PCs
    <2>2. CASE Subscribe(r) BY <1>0, <2>2 DEF Subscribe, PCs, Media
    <2>3. CASE Deliver(r) BY <2>3 DEF Deliver
    <2>4. CASE Breaks(r) BY <1>0, <2>4 DEF Breaks, PCs
    <2>5. CASE LoopEnds(r) BY <1>0, <2>5 DEF LoopEnds, PCs
    <2>6. CASE Overflowed(r) BY <1>0, <2>6 DEF Overflowed, PCs
    <2>7. CASE TearDown(r) BY <1>0, <2>7 DEF TearDown, PCs
    <2>8. CASE CleanUp(r) BY <1>0, <2>8 DEF CleanUp, PCs
    <2>9. CASE Finishes(r) BY <1>0, <2>9 DEF Finishes, PCs
    <2> QED BY <1>2, <2>1, <2>2, <2>3, <2>4, <2>5, <2>6, <2>7, <2>8, <2>9
            DEF Mirror, MirrorEnds
  <1>3. ASSUME NEW x \in Recorders, Record(x) PROVE ThreadShape'
    BY <1>3 DEF Record, RecorderTakes, RecorderEnds
  <1>4. CASE Commands
    <2>1. CASE Poll
      <3>1. stop' \in BOOLEAN BY <2>1, Zenon DEF Poll
      <3>2. cmd' \in [pc : {"polling", "lines", "erasing", "ended"}, id : Receivers \cup {None}]
        BY <2>1 DEF Poll, Cmd
      <3> QED BY <2>1, <3>1, <3>2 DEF Poll
    <2>2. CASE NoMoreLines BY <2>2 DEF NoMoreLines, Cmd
    <2>3. CASE StopCommand BY <2>3 DEF StopCommand, Cmd
    <2>4. CASE Erased BY <2>4 DEF Erased, Cmd
    <2>5. ASSUME NEW x \in Recorders, RecordCommand(x) PROVE ThreadShape'
      BY <2>5 DEF RecordCommand, Media
    <2>6. ASSUME NEW r \in Receivers, RemoveCommand(r) PROVE ThreadShape'
      <3>1. [thread[r] EXCEPT !.stop = TRUE] \in Thread
        <4>1. thread[r] \in Thread OBVIOUS
        <4> QED BY <4>1 DEF Thread
      <3>2. thread' \in [Receivers -> Thread] BY <2>6, <3>1 DEF RemoveCommand
      <3>3. cmd' \in [pc : {"polling", "lines", "erasing", "ended"}, id : Receivers \cup {None}]
        BY <2>6 DEF RemoveCommand, Cmd
      <3> QED BY <2>6, <3>2, <3>3 DEF RemoveCommand
    <2>7. ASSUME NEW r \in Receivers, NEW i \in Slots, AddCommand(r, i) PROVE ThreadShape'
      <3>1. [pc |-> "verify", slot |-> i, stop |-> FALSE, tv |-> "idle"] \in Thread
        BY DEF Thread
      <3>2. thread' \in [Receivers -> Thread] BY <2>7, <3>1 DEF AddCommand
      <3>3. sessions' \in SUBSET Receivers BY <2>7 DEF AddCommand
      <3> QED BY <2>7, <3>2, <3>3 DEF AddCommand
    <2> QED BY <1>4, <2>1, <2>2, <2>3, <2>4, <2>5, <2>6, <2>7 DEF Commands
  <1>5. CASE Main
    <2>1. CASE MainStops BY <2>1 DEF MainStops
    <2>2. CASE MainResetsRecording BY <2>2 DEF MainResetsRecording
    <2>3. CASE MainStopsSessions
      <3>1. \A r \in Receivers : [thread[r] EXCEPT !.stop = TRUE] \in Thread
        <4>1. \A x \in Thread : [x EXCEPT !.stop = TRUE] \in Thread BY DEF Thread
        <4>2. \A r \in Receivers : thread[r] \in Thread OBVIOUS
        <4> QED BY <4>1, <4>2
      <3> QED BY <2>3, <3>1 DEF MainStopsSessions
    <2>4. CASE MainCloses BY <2>4 DEF MainCloses, Media
    <2>5. CASE MainClears BY <2>5 DEF MainClears
    <2>6. CASE MainExits BY <2>6 DEF MainExits
    <2> QED BY <1>5, <2>1, <2>2, <2>3, <2>4, <2>5, <2>6 DEF Main
  <1>6. CASE UNCHANGED vars BY <1>6 DEF vars
  <1> QED BY <1>1, <1>2, <1>3, <1>4, <1>5, <1>6 DEF Next

\* Every step keeps the queues in shape.
LEMMA QueueStep ==
  ASSUME EngineAssumption, QueueShape, ThreadShape, [Next]_vars
  PROVE  QueueShape'
  <1> USE DEF QueueShape
  \* One reader's subscription is replaced by one that is new or has no queue.
  <1>1. ASSUME NEW x \in Readers, NEW s \in SubShape, UNCHANGED log,
               sub' = [sub EXCEPT ![x] = s],
               \A i \in 1..Len(s.queue) : s.queue[i] \in 1..Len(log)
        PROVE  QueueShape'
    BY <1>1
  <1>2. /\ NoSub \in SubShape /\ Len(NoSub.queue) = 0
        /\ Subscribed \in SubShape /\ Len(Subscribed.queue) = 0
    BY SubscribedShape DEF NoSub, SubShape
  <1>3. \A x \in Readers : /\ Closed(sub[x]) \in SubShape
                           /\ Closed(sub[x]).queue = sub[x].queue
    BY ClosedShape
  <1>4. ASSUME NEW X \in SUBSET Readers, UNCHANGED log,
               sub' = [x \in Readers |-> IF x \in X THEN Closed(sub[x]) ELSE sub[x]]
        PROVE  QueueShape'
    BY <1>3, <1>4
  <1>5. sub' = AllClosed =>
          sub' = [x \in Readers |-> IF x \in Readers THEN Closed(sub[x]) ELSE sub[x]]
    BY DEF AllClosed
  <1>6. ASSUME NEW x \in Readers, UNCHANGED log, sub' = [sub EXCEPT ![x] = Closed(@)]
        PROVE  QueueShape'
    BY <1>1, <1>3, <1>6
  <1>7. ASSUME NEW x \in Readers, Readable(sub[x]), UNCHANGED log,
               sub' = [sub EXCEPT ![x] = Popped(@)]
        PROVE  QueueShape'
    <2>1. sub[x] \in SubShape /\ sub[x].queue # <<>> /\ sub[x].queue \in Seq(Nat)
      BY <1>7 DEF Readable, SubShape
    <2>2. /\ Popped(sub[x]) \in SubShape /\ Popped(sub[x]).queue = Tail(sub[x].queue)
          /\ \A i \in 1..Len(Tail(sub[x].queue)) : Tail(sub[x].queue)[i] = sub[x].queue[i + 1]
          /\ Len(Tail(sub[x].queue)) = Len(sub[x].queue) - 1
      BY <2>1, PoppedShape
    <2>3. \A i \in 1..Len(Popped(sub[x]).queue) : Popped(sub[x]).queue[i] \in 1..Len(log)
      BY <2>1, <2>2
    <2> QED BY <1>1, <1>7, <2>2, <2>3
  <1>8. ASSUME NEW p \in Producers, NEW k \in Kinds, Publish(p, k) PROVE QueueShape'
    <2>1. log' = Append(log, k) /\ sub' = [x \in Readers |-> Pushed(sub[x], k)]
      BY <1>8 DEF Publish
    <2>2. log' \in Seq(Kinds) /\ Len(log') = Len(log) + 1 BY <2>1
    <2>3. ASSUME NEW x \in Readers
          PROVE  /\ Pushed(sub[x], k) \in SubShape
                 /\ \A i \in 1..Len(Pushed(sub[x], k).queue) :
                       Pushed(sub[x], k).queue[i] \in 1..Len(log')
      <3>1. sub[x] \in SubShape /\ sub[x].queue \in Seq(Nat) BY DEF SubShape
      <3>2. /\ Pushed(sub[x], k) \in SubShape
            /\ Pushed(sub[x], k).queue \in {sub[x].queue, Append(sub[x].queue, Len(log) + 1)}
        BY <3>1, PushedShape
      <3>3. CASE Pushed(sub[x], k).queue = sub[x].queue BY <2>2, <3>2, <3>3
      <3>4. CASE Pushed(sub[x], k).queue = Append(sub[x].queue, Len(log) + 1)
        BY <2>2, <3>1, <3>2, <3>4, SMTT(30)
      <3> QED BY <3>2, <3>3, <3>4
    <2> QED BY <2>1, <2>2, <2>3
  <1>9. CASE UNCHANGED <<log, sub>> BY <1>9
  <1>10. ASSUME NEW p \in Producers, Produce(p) PROVE QueueShape'
    <2>1. CASE CaptureLeaves(p) BY <1>4, <1>5, <1>9, <2>1 DEF CaptureLeaves
    <2> QED BY <1>8, <1>9, <1>10, <2>1
            DEF Produce, ProducerFails, Completes, ProducerEnds, ProducerNotes, ProducerCloses
  <1>11. ASSUME NEW r \in Receivers, Mirror(r) PROVE QueueShape'
    <2>1. r \in Readers BY DEF Readers
    <2>2. CASE Subscribe(r) BY <1>1, <1>2, <2>1, <2>2 DEF Subscribe
    <2>3. CASE Deliver(r) BY <1>7, <2>1, <2>3 DEF Deliver
    <2>4. CASE LoopEnds(r) BY <1>6, <2>1, <2>4 DEF LoopEnds
    <2>5. CASE Overflowed(r) \/ Breaks(r) \/ TearDown(r)
      <3>1. sub' = [sub EXCEPT ![r] = NoSub] /\ UNCHANGED log
        BY <2>5 DEF Overflowed, Breaks, TearDown
      <3>2. \A i \in 1..Len(NoSub.queue) : NoSub.queue[i] \in 1..Len(log) BY <1>2
      <3> QED BY <1>1, <1>2, <2>1, <3>1, <3>2
    <2>6. CASE SetUp(r) \/ CleanUp(r) \/ Finishes(r)
      BY <1>9, <2>6 DEF SetUp, CleanUp, Finishes
    <2> QED BY <1>11, <2>2, <2>3, <2>4, <2>5, <2>6 DEF Mirror, MirrorEnds
  <1>12. ASSUME NEW x \in Recorders, Record(x) PROVE QueueShape'
    <2>1. x \in Readers BY DEF Readers
    <2> QED BY <1>6, <1>7, <1>9, <1>12, <2>1 DEF Record, RecorderTakes, RecorderEnds
  <1>13. CASE Commands
    <2>1. ASSUME NEW x \in Recorders, RecordCommand(x) PROVE QueueShape'
      <3>1. x \in Readers BY DEF Readers
      <3> QED BY <1>1, <1>2, <2>1, <3>1 DEF RecordCommand
    <2> QED BY <1>9, <1>13, <2>1
            DEF Commands, Poll, NoMoreLines, StopCommand, Erased, RemoveCommand, AddCommand
  <1>14. CASE Main
    <2>1. CASE MainResetsRecording BY <1>4, <2>1 DEF MainResetsRecording, Readers
    <2>2. CASE MainCloses BY <1>4, <1>5, <2>2 DEF MainCloses
    <2> QED BY <1>9, <1>14, <2>1, <2>2
            DEF Main, MainStops, MainStopsSessions, MainClears, MainExits
  <1> QED BY <1>9, <1>10, <1>11, <1>12, <1>13, <1>14 DEF Next, vars

-----------------------------------------------------------------------------
(* The invariant of the threads.                                           *)

\* A running thread is in the session map, and the map is empty at the end.
\* Sessions in the map, finished ones too, hold different slots.
Slotted == \A r, o \in sessions : r # o => thread[r].slot # thread[o].slot

\* What the TV of a thread has been asked, at each place of the thread.
Asked == \A r \in Receivers :
           /\ thread[r].pc = "verify" => thread[r].tv = "idle"
           /\ thread[r].pc \in {"reporting", "reported", "finished"} => thread[r].tv # "set"

\* How far the main thread has come says who has ended, and whom it has told.
Phased ==
    /\ main \notin {"waiting", "commands"} => cmd.pc = "ended"
    /\ main \in {"closing", "sessions"} =>
         /\ \A x \in Recorders : ~Recording(x)
         /\ \A r \in sessions : thread[r].stop
    /\ main = "exited" => ProducersJoined

\* Why the media is closed, and who still has to report a failure.
Caused ==
    /\ media.closed => media.failure \/ main \in {"sessions", "ended", "exited"}
    /\ \A p \in Producers : producer[p] \in {"noting", "closing"} => media.failure
    /\ media.failure => media.noted \/ \E p \in Producers : producer[p] = "noting"

EngineInv == Owned /\ Slotted /\ Asked /\ Phased /\ Caused /\ StarvedOnlyIfEnding

\* The invariant holds at the start.
LEMMA EngineInvInit == ASSUME Init PROVE EngineInv
  BY DEF Init, EngineInv, Owned, Slotted, Asked, Phased, Caused, StarvedOnlyIfEnding,
         Running, Recording, ProducersJoined, NoThread, NoSub, Readers

\* A step of a producer keeps the invariant.
LEMMA ProduceInv ==
  ASSUME EngineAssumption, QueueShape, ThreadShape, EngineInv, NEW p \in Producers, Produce(p)
  PROVE  EngineInv'
  <1> USE DEF EngineInv, ThreadShape
  <1>1. UNCHANGED <<stop, sessions, thread, recorder, cmd, main>>
    BY DEF Produce, Publish, ProducerFails, Completes, ProducerEnds, ProducerNotes,
           ProducerCloses, CaptureLeaves
  <1>2. Owned' /\ Slotted' /\ Asked'
    BY <1>1 DEF Owned, Slotted, Asked, Running, Recording
  <1>3. Phased'
    BY <1>1 DEF Phased, Recording, ProducersJoined, Produce, Publish, ProducerFails,
                Completes, ProducerEnds, ProducerNotes, ProducerCloses, CaptureLeaves
  <1>4. Caused'
    BY <1>1 DEF Caused, Media, Produce, Publish, ProducerFails, Completes, ProducerEnds,
                ProducerNotes, ProducerCloses, CaptureLeaves
  <1>5. StarvedOnlyIfEnding'
    <2>1. ASSUME NEW k \in Kinds, Publish(p, k) PROVE StarvedOnlyIfEnding'
      <3>1. ASSUME NEW r \in Receivers, sub'[r].closed, ~sub'[r].error
            PROVE  sub[r].closed /\ ~sub[r].error
        <4>1. r \in Readers /\ sub[r] \in SubShape BY DEF QueueShape, Readers
        <4>2. sub'[r] = Pushed(sub[r], k) BY <2>1, <4>1 DEF Publish
        <4>3. sub[r].closed BY <3>1, <4>1, <4>2, PushedShape DEF QueueShape
        <4> QED BY <3>1, <4>1, <4>2, <4>3, PushedShape DEF QueueShape
      <3> QED BY <2>1, <3>1 DEF Publish, StarvedOnlyIfEnding, Going
    <2>2. CASE CaptureLeaves(p)
      <3>1. CASE ~media.closed BY <2>2, <3>1 DEF CaptureLeaves, StarvedOnlyIfEnding, Going
      <3>2. CASE media.failure BY <2>2, <3>2 DEF CaptureLeaves, StarvedOnlyIfEnding, Going
      <3>3. CASE main \in {"sessions", "ended", "exited"}
        BY <1>1, <3>3 DEF Phased, Owned, Running, StarvedOnlyIfEnding, Going
      <3> QED BY <3>1, <3>2, <3>3 DEF Caused
    <2>3. CASE UNCHANGED sub /\ (media.failure => media'.failure)
      BY <1>1, <2>3 DEF StarvedOnlyIfEnding, Going
    <2>4. CASE ProducerFails(p) \/ Completes(p) \/ ProducerNotes(p) \/ ProducerCloses(p)
      BY <2>3, <2>4 DEF ProducerFails, Completes, ProducerNotes, ProducerCloses, Media
    <2> QED BY <2>1, <2>2, <2>4 DEF Produce, ProducerEnds
  <1> QED BY <1>2, <1>3, <1>4, <1>5

\* A step of a mirror thread keeps the invariant.
LEMMA MirrorInv ==
  ASSUME EngineAssumption, QueueShape, ThreadShape, EngineInv, NEW r \in Receivers, Mirror(r)
  PROVE  EngineInv'
  <1> USE DEF EngineInv, ThreadShape
  <1>1. UNCHANGED <<producer, stop, sessions, recorder, cmd, main>>
    BY DEF Mirror, MirrorEnds, SetUp, Subscribe, Deliver, Breaks, LoopEnds, Overflowed,
           TearDown, CleanUp, Finishes
  <1>2. media' = media \/ media' = [media EXCEPT !.joined = TRUE]
    BY DEF Mirror, MirrorEnds, SetUp, Subscribe, Deliver, Breaks, LoopEnds, Overflowed,
           TearDown, CleanUp, Finishes
  <1>3. /\ media'.failure = media.failure /\ media'.closed = media.closed
        /\ media'.noted = media.noted
    BY <1>2 DEF Media
  \* The thread that takes the step was running; its slot and its stop flag stay.
  <1>4. \/ thread' = thread
        \/ Running(r) /\ \E t \in Thread : /\ thread' = [thread EXCEPT ![r] = t]
                                         /\ t.slot = thread[r].slot /\ t.stop = thread[r].stop
    <2>1. thread[r] \in Thread OBVIOUS
    <2>2. ASSUME NEW from \in PCs \ {"none", "finished"}, NEW pc \in PCs, To(r, from, pc)
          PROVE  Running(r) /\ \E t \in Thread :
                   /\ thread' = [thread EXCEPT ![r] = t]
                   /\ t.slot = thread[r].slot /\ t.stop = thread[r].stop
      <3> DEFINE t == [thread[r] EXCEPT !.pc = pc]
      <3>1. t \in Thread /\ t.slot = thread[r].slot /\ t.stop = thread[r].stop
        BY <2>1 DEF Thread, PCs
      <3>2. thread' = [thread EXCEPT ![r] = t] /\ Running(r) BY <2>2 DEF To, Running
      <3> HIDE DEF t
      <3> QED BY <3>1, <3>2
    <2>3. ASSUME NEW from \in PCs \ {"none", "finished"}, NEW pc \in PCs,
                 NEW tv \in {"set", "torn"}, Asks(r, from, pc, tv)
          PROVE  Running(r) /\ \E t \in Thread :
                   /\ thread' = [thread EXCEPT ![r] = t]
                   /\ t.slot = thread[r].slot /\ t.stop = thread[r].stop
      <3> DEFINE t == [thread[r] EXCEPT !.pc = pc, !.tv = tv]
      <3>1. t \in Thread /\ t.slot = thread[r].slot /\ t.stop = thread[r].stop
        BY <2>1 DEF Thread, PCs
      <3>2. thread' = [thread EXCEPT ![r] = t] /\ Running(r) BY <2>3 DEF Asks, Running
      <3> HIDE DEF t
      <3> QED BY <3>1, <3>2
    <2>4. CASE Deliver(r) BY <2>4 DEF Deliver
    <2>5. CASE SetUp(r) \/ TearDown(r) \/ CleanUp(r)
      BY <2>3, <2>5 DEF SetUp, TearDown, CleanUp, PCs
    <2>6. CASE Subscribe(r) \/ Breaks(r) \/ LoopEnds(r) \/ Overflowed(r) \/ Finishes(r)
      BY <2>2, <2>6 DEF Subscribe, Breaks, LoopEnds, Overflowed, Finishes, PCs
    <2> QED BY <2>4, <2>5, <2>6 DEF Mirror, MirrorEnds
  <1>5. Owned' BY <1>1, <1>4 DEF Owned, Running, Recording
  <1>6. Slotted' BY <1>1, <1>4 DEF Slotted
  <1>7. Asked'
    <2>1. CASE SetUp(r) BY <2>1 DEF SetUp, Asks, Asked, Thread
    <2>2. CASE Subscribe(r) BY <2>2 DEF Subscribe, To, Asked, Thread
    <2>3. CASE Deliver(r) BY <2>3 DEF Deliver, Asked
    <2>4. CASE Breaks(r) BY <2>4, SMTT(30) DEF Breaks, To, Asked, Thread
    <2>5. CASE LoopEnds(r) BY <2>5 DEF LoopEnds, To, Asked, Thread
    <2>6. CASE Overflowed(r) BY <2>6 DEF Overflowed, To, Asked, Thread
    <2>7. CASE TearDown(r) BY <2>7 DEF TearDown, Asks, Asked, Thread
    <2>8. CASE CleanUp(r) BY <2>8 DEF CleanUp, Asks, Asked, Thread
    <2>9. CASE Finishes(r) BY <2>9 DEF Finishes, To, Asked, Thread
    <2> QED BY <2>1, <2>2, <2>3, <2>4, <2>5, <2>6, <2>7, <2>8, <2>9 DEF Mirror, MirrorEnds
  <1>8. Phased' BY <1>1, <1>4 DEF Phased, Recording, ProducersJoined
  <1>9. Caused' BY <1>1, <1>3 DEF Caused
  <1>10. StarvedOnlyIfEnding'
    <2>1. r \in Readers /\ sub[r] \in SubShape BY DEF QueueShape, Readers
    <2>2. \A o \in Receivers \ {r} : sub'[o] = sub[o] /\ thread'[o] = thread[o]
      BY <1>4, <2>1 DEF QueueShape, Mirror, MirrorEnds, SetUp, Subscribe, Deliver, Breaks,
            LoopEnds, Overflowed, TearDown, CleanUp, Finishes, Readers
    <2>3. thread'[r].pc = "streaming" /\ sub'[r].closed /\ ~sub'[r].error => ~Going(r)'
      <3>1. CASE Subscribe(r)
        BY <2>1, <3>1, SubscribedShape DEF Subscribe, QueueShape
      <3>2. CASE Deliver(r)
        <4>1. sub[r].queue # <<>> /\ ~sub[r].closed BY <3>2 DEF Deliver, Readable
        <4>2. sub'[r] = Popped(sub[r]) BY <2>1, <3>2 DEF Deliver, QueueShape
        <4>3. log \in Seq(Kinds) /\ \A i \in 1..Len(sub[r].queue) : sub[r].queue[i] \in 1..Len(log)
          BY <2>1 DEF QueueShape
        <4>4. Popped(sub[r]).closed = sub[r].closed BY <2>1, <4>1, <4>3, PoppedShape
        <4> QED BY <4>1, <4>2, <4>4
      <3>3. CASE SetUp(r) \/ TearDown(r) \/ CleanUp(r)
        <4>1. CASE SetUp(r) BY <4>1 DEF SetUp, Asks, Thread
        <4>2. CASE TearDown(r) BY <4>2 DEF TearDown, Asks, Thread
        <4>3. CASE CleanUp(r) BY <4>3 DEF CleanUp, Asks, Thread
        <4> QED BY <3>3, <4>1, <4>2, <4>3
      <3>4. CASE Breaks(r) \/ LoopEnds(r) \/ Overflowed(r) \/ Finishes(r)
        BY <3>4 DEF Breaks, LoopEnds, Overflowed, Finishes, To, Thread
      <3> QED BY <3>1, <3>2, <3>3, <3>4 DEF Mirror, MirrorEnds
    <2> QED BY <1>3, <2>2, <2>3 DEF StarvedOnlyIfEnding, Going
  <1> QED BY <1>5, <1>6, <1>7, <1>8, <1>9, <1>10

\* A step of the recorder keeps the invariant.
LEMMA RecordInv ==
  ASSUME EngineAssumption, QueueShape, ThreadShape, EngineInv, NEW x \in Recorders, Record(x)
  PROVE  EngineInv'
  <1> USE DEF EngineInv, ThreadShape
  <1>1. UNCHANGED <<media, producer, stop, sessions, thread, cmd, main>>
    BY DEF Record, RecorderTakes, RecorderEnds
  <1>2. \A o \in Recorders : Recording(o)' => Recording(o)
    BY DEF Record, RecorderTakes, RecorderEnds, Recording
  <1>3. \A r \in Receivers : sub'[r] = sub[r]
    BY DEF Record, RecorderTakes, RecorderEnds, QueueShape, Readers, EngineAssumption
  <1> QED BY <1>1, <1>2, <1>3
          DEF Owned, Slotted, Asked, Phased, Caused, StarvedOnlyIfEnding, Running, Going,
              ProducersJoined

\* A step of the command thread keeps the invariant.
LEMMA CommandInv ==
  ASSUME EngineAssumption, QueueShape, ThreadShape, EngineInv, Commands
  PROVE  EngineInv'
  <1> USE DEF EngineInv, ThreadShape
  <1>0. cmd.pc # "ended" /\ UNCHANGED <<producer, main>>
    BY DEF Commands, Poll, NoMoreLines, StopCommand, Erased, RecordCommand, RemoveCommand,
           AddCommand
  <1>1. main \in {"waiting", "commands"} BY <1>0 DEF Phased
  <1>2. Phased' BY <1>0, <1>1 DEF Phased
  <1>3. CASE Poll \/ NoMoreLines \/ StopCommand
    <2>1. UNCHANGED <<media, sub, sessions, thread, recorder>>
      BY <1>3 DEF Poll, NoMoreLines, StopCommand
    <2> QED BY <1>0, <1>1, <1>2, <2>1
            DEF Owned, Slotted, Asked, Caused, StarvedOnlyIfEnding, Running, Going, Recording
  <1>4. CASE Erased
    BY <1>0, <1>1, <1>2, <1>4
       DEF Erased, Joined, Owned, Slotted, Asked, Caused, StarvedOnlyIfEnding, Running, Going
  <1>5. ASSUME NEW x \in Recorders, RecordCommand(x) PROVE EngineInv'
    <2>1. UNCHANGED <<sessions, thread, cmd>> BY <1>5 DEF RecordCommand
    <2>2. /\ media'.failure = media.failure /\ media'.closed = media.closed
          /\ media'.noted = media.noted
      BY <1>5 DEF RecordCommand, Media
    <2>3. \A r \in Receivers : sub'[r] = sub[r]
      BY <1>5 DEF RecordCommand, QueueShape, Readers, EngineAssumption
    <2> QED BY <1>0, <1>1, <1>2, <2>1, <2>2, <2>3
            DEF Owned, Slotted, Asked, Caused, StarvedOnlyIfEnding, Running, Going
  <1>6. ASSUME NEW r \in Receivers, RemoveCommand(r) PROVE EngineInv'
    <2>1. UNCHANGED <<media, sub, sessions, recorder>> BY <1>6 DEF RemoveCommand
    <2>2. \A o \in Receivers : /\ thread'[o].pc = thread[o].pc /\ thread'[o].tv = thread[o].tv
                               /\ thread'[o].slot = thread[o].slot
                               /\ thread[o].stop => thread'[o].stop
      BY <1>6 DEF RemoveCommand, Thread
    <2> QED BY <1>0, <1>1, <1>2, <2>1, <2>2
            DEF Owned, Slotted, Asked, Caused, StarvedOnlyIfEnding, Running, Going
  <1>7. ASSUME NEW r \in Receivers, NEW i \in Slots, AddCommand(r, i) PROVE EngineInv'
    <2>1. UNCHANGED <<media, sub, recorder>> /\ ~Running(r)
      BY <1>7 DEF AddCommand, Owned, Running
    <2>2. CASE sessions' = sessions \ {r} /\ UNCHANGED thread
      BY <1>0, <1>1, <1>2, <2>1, <2>2
         DEF Owned, Slotted, Asked, Caused, StarvedOnlyIfEnding, Running, Going
    <2>3. CASE /\ SlotFree(r, i) /\ sessions' = sessions \cup {r}
               /\ thread' = [thread EXCEPT ![r] =
                     [pc |-> "verify", slot |-> i, stop |-> FALSE, tv |-> "idle"]]
      <3>1. /\ \A o \in Receivers \ {r} : thread'[o] = thread[o]
            /\ thread'[r].pc = "verify" /\ thread'[r].tv = "idle" /\ thread'[r].slot = i
        BY <2>3
      <3>2. Owned' BY <1>0, <1>1, <2>3, <3>1 DEF Owned, Running
      <3>3. Slotted' BY <2>3, <3>1 DEF Slotted, SlotFree
      <3>4. Asked' BY <3>1 DEF Asked
      <3>5. Caused' BY <1>0, <2>1 DEF Caused
      <3>6. StarvedOnlyIfEnding' BY <2>1, <3>1 DEF StarvedOnlyIfEnding, Going
      <3> QED BY <1>2, <3>2, <3>3, <3>4, <3>5, <3>6
    <2> QED BY <1>7, <2>2, <2>3 DEF AddCommand
  <1> QED BY <1>3, <1>4, <1>5, <1>6, <1>7 DEF Commands

\* A step of the main thread keeps the invariant.
LEMMA MainInv ==
  ASSUME EngineAssumption, QueueShape, ThreadShape, EngineInv, Main
  PROVE  EngineInv'
  <1> USE DEF EngineInv, ThreadShape
  <1>1. CASE MainStops
    BY <1>1 DEF MainStops, Owned, Slotted, Asked, Phased, Caused, StarvedOnlyIfEnding,
                Running, Going, Recording, ProducersJoined
  <1>2. CASE MainResetsRecording
    <2>1. UNCHANGED <<media, producer, stop, sessions, thread, cmd>> /\ main' = "recorder"
      BY <1>2 DEF MainResetsRecording
    <2>2. \A r \in Receivers : sub'[r] = sub[r]
      BY <1>2 DEF MainResetsRecording, Readers, EngineAssumption
    <2> QED BY <1>2, <2>1, <2>2
            DEF MainResetsRecording, Owned, Slotted, Asked, Phased, Caused,
                StarvedOnlyIfEnding, Running, Going
  <1>3. CASE MainStopsSessions
    <2>1. UNCHANGED <<media, producer, sub, stop, sessions, recorder, cmd>> /\ main' = "closing"
      BY <1>3 DEF MainStopsSessions
    <2>2. \A r \in Receivers : /\ thread'[r].pc = thread[r].pc /\ thread'[r].tv = thread[r].tv
                               /\ thread'[r].slot = thread[r].slot
                               /\ (thread[r].stop \/ r \in sessions) => thread'[r].stop
      BY <1>3 DEF MainStopsSessions, Thread
    <2>3. Phased' BY <1>3, <2>1, <2>2 DEF MainStopsSessions, Phased, Recording
    <2> QED BY <1>3, <2>1, <2>2, <2>3
            DEF MainStopsSessions, Owned, Slotted, Asked, Caused, StarvedOnlyIfEnding,
                Running, Going
  <1>4. CASE MainCloses
    <2>1. UNCHANGED <<producer, stop, sessions, thread, recorder, cmd>> /\ main = "closing"
          /\ main' = "sessions"
      BY <1>4 DEF MainCloses
    <2>2. media'.failure = media.failure /\ media'.noted = media.noted
      BY <1>4 DEF MainCloses, Media
    <2>3. StarvedOnlyIfEnding'
      BY <2>1 DEF StarvedOnlyIfEnding, Going, Owned, Running, Phased
    <2> QED BY <2>1, <2>2, <2>3
            DEF Owned, Slotted, Asked, Phased, Caused, Running, Recording
  <1>5. CASE MainClears
    BY <1>5 DEF MainClears, Joined, Owned, Slotted, Asked, Phased, Caused,
                StarvedOnlyIfEnding, Running, Going, Recording, ProducersJoined
  <1>6. CASE MainExits
    BY <1>6 DEF MainExits, Owned, Slotted, Asked, Phased, Caused, StarvedOnlyIfEnding,
                Running, Going, Recording, ProducersJoined
  <1> QED BY <1>1, <1>2, <1>3, <1>4, <1>5, <1>6 DEF Main

-----------------------------------------------------------------------------
(* Theorems.                                                               *)

\* The invariant of the threads holds in every state of one media process.
THEOREM ThreadsCorrect == Spec => [](QueueShape /\ ThreadShape /\ EngineInv)
  <1> USE EngineAssumption
  <1>1. Init => QueueShape /\ ThreadShape /\ EngineInv BY ShapeInit, EngineInvInit
  <1>2. QueueShape /\ ThreadShape /\ EngineInv /\ [Next]_vars
          => (QueueShape /\ ThreadShape /\ EngineInv)'
    <2> SUFFICES ASSUME QueueShape, ThreadShape, EngineInv, [Next]_vars
                 PROVE  EngineInv'
      BY QueueStep, ThreadStep
    <2>1. CASE UNCHANGED vars
      BY <2>1 DEF vars, EngineInv, Owned, Slotted, Asked, Phased, Caused, StarvedOnlyIfEnding,
                  Running, Going, Recording, ProducersJoined
    <2> QED BY <2>1, ProduceInv, MirrorInv, RecordInv, CommandInv, MainInv DEF Next
  <1> QED BY <1>1, <1>2, PTL DEF Spec

\* No mirror thread outlives its session, and none is left at the end.
THEOREM NoStrayThread == Spec => []Owned
  BY ThreadsCorrect, PTL DEF EngineInv

\* Two mirror threads never use the same local ports.
THEOREM Ports == Spec => []PortsExclusive
  <1>1. ThreadShape /\ EngineInv => PortsExclusive
    BY DEF ThreadShape, EngineInv, Owned, Slotted, PortsExclusive
  <1> QED BY <1>1, ThreadsCorrect, PTL

\* Whichever way a connection ends, its TV has been asked to tear it down.
THEOREM Torn == Spec => []TornDown
  <1>1. EngineInv => TornDown BY DEF EngineInv, Asked, TornDown
  <1> QED BY <1>1, ThreadsCorrect, PTL

\* A TV is never left to wait on a queue that was closed under it.
THEOREM NotStarved == Spec => []StarvedOnlyIfEnding
  BY ThreadsCorrect, PTL DEF EngineInv

\* A process that exits for a failed source has said why.
THEOREM Reported == Spec => []FailureIsReported
  <1>1. EngineInv => FailureIsReported
    BY DEF EngineInv, Phased, Caused, ProducersJoined, FailureIsReported
  <1> QED BY <1>1, ThreadsCorrect, PTL

\* The threads are those of the session map, on local ports of their own.
THEOREM OwnThreads == Spec => []ThreadsOwned
  BY NoStrayThread, Ports, PTL DEF ThreadsOwned

\* The end of a source is told to the TVs and to the service.
THEOREM Told == Spec => []EndsAreTold
  BY NotStarved, Reported, PTL DEF EndsAreTold

-----------------------------------------------------------------------------
(***************************************************************************)
(* A media process implements Feed: every reader gets an unbroken run of   *)
(* packets from the first keyframe after it subscribed.                    *)
(***************************************************************************)

Live(x) == sub[x].on /\ ~sub[x].closed

\* Only a thread in its streaming loop or just out of it holds a subscription,
\* and only a recording in progress a live one.
Attached ==
    /\ \A r \in Receivers : sub[r].on => thread[r].pc \in {"streaming", "closing"}
    /\ \A x \in Recorders : Live(x) => recorder[x].pc = "recording"

\* The queue of a live subscription is the end of the log.  Before its first
\* keyframe it is empty; until it is first read it starts with that keyframe;
\* then it starts after the last packet taken.
Run(since, waiting, last, q, l) ==
    /\ since <= Len(l)
    /\ \A i \in 1..Len(q) : q[i] = Len(l) - Len(q) + i
    /\ waiting => /\ q = <<>> /\ last = 0
                  /\ \A i \in since + 1..Len(l) : l[i] # "key"
    /\ (~waiting /\ last > 0) => last = Len(l) - Len(q)
    /\ (~waiting /\ last = 0) =>
         /\ Len(q) > 0 /\ since < q[1] /\ l[q[1]] = "key"
         /\ \A i \in since + 1..q[1] - 1 : l[i] # "key"

Order(s, l) == Run(s.since, s.waiting, s.last, s.queue, l)

Ordered(x) == Live(x) => Order(sub[x], log)

FeedInv == Attached /\ \A x \in Readers : Ordered(x)

\* The four things a step may do to the subscriptions, besides publishing.
Takes == \E x \in Readers : Readable(sub[x]) /\ sub' = [sub EXCEPT ![x] = Popped(@)]
Opens == \E x \in Readers : ~Live(x) /\ sub' = [sub EXCEPT ![x] = Subscribed]
Cuts == \A x \in Readers :
            \/ sub'[x] = sub[x]
            \/ sub'[x] \in {Closed(sub[x]), NoSub} /\ ~(sub'[x].on /\ ~sub'[x].closed)

-----------------------------------------------------------------------------
\* Every step of the process publishes, takes, opens or cuts.
LEMMA StepKinds ==
  ASSUME EngineAssumption, QueueShape, ThreadShape, Attached, [Next]_vars
  PROVE  \/ \E p \in Producers, k \in Kinds : Publish(p, k)
         \/ log' = log /\ (Takes \/ Opens \/ Cuts)
  <1> DEFINE Goal == \/ \E p \in Producers, k \in Kinds : Publish(p, k)
                     \/ log' = log /\ (Takes \/ Opens \/ Cuts)
  <1> SUFFICES Goal OBVIOUS
  <1>1. ASSUME UNCHANGED <<log, sub>> PROVE Goal BY <1>1 DEF Cuts
  <1>2. ASSUME NEW x \in Readers, NEW s \in {Closed(sub[x]), NoSub},
               ~(s.on /\ ~s.closed), log' = log,
               sub' = [sub EXCEPT ![x] = s]
        PROVE  Goal
    BY <1>2 DEF Cuts, QueueShape
  <1>3. \A x \in Readers : ~(Closed(sub[x]).on /\ ~Closed(sub[x]).closed)
    <2>1. ASSUME NEW x \in Readers PROVE ~(Closed(sub[x]).on /\ ~Closed(sub[x]).closed)
      <3>1. sub[x] \in SubShape BY DEF QueueShape
      <3>2. [sub[x] EXCEPT !.closed = TRUE].closed = TRUE BY <3>1 DEF SubShape
      <3> QED BY <3>2 DEF Closed
    <2> QED BY <2>1
  <1>4. ~(NoSub.on /\ ~NoSub.closed) BY DEF NoSub
  <1>5. ASSUME NEW X \in SUBSET Readers, log' = log,
               sub' = [x \in Readers |-> IF x \in X THEN Closed(sub[x]) ELSE sub[x]]
        PROVE  Goal
    BY <1>3, <1>5 DEF Cuts
  <1>6. sub' = AllClosed =>
          sub' = [x \in Readers |-> IF x \in Readers THEN Closed(sub[x]) ELSE sub[x]]
    BY DEF AllClosed
  <1> HIDE DEF Goal
  <1>7. ASSUME NEW p \in Producers, Produce(p) PROVE Goal
    <2>1. CASE CaptureLeaves(p) BY <1>1, <1>5, <1>6, <2>1 DEF CaptureLeaves
    <2>2. CASE ProducerFails(p) \/ Completes(p) \/ ProducerNotes(p) \/ ProducerCloses(p)
      BY <1>1, <2>2 DEF ProducerFails, Completes, ProducerNotes, ProducerCloses
    <2>3. ASSUME NEW k \in Kinds, Publish(p, k) PROVE Goal BY <2>3 DEF Goal
    <2> QED BY <1>7, <2>1, <2>2, <2>3 DEF Produce, ProducerEnds
  <1>8. ASSUME NEW r \in Receivers, Mirror(r) PROVE Goal
    <2>1. r \in Readers BY DEF Readers
    <2>2. CASE Subscribe(r)
      <3>1. ~sub[r].on BY <2>2 DEF Subscribe, To, Attached
      <3> QED BY <2>1, <2>2, <3>1 DEF Goal, Opens, Subscribe, Live
    <2>3. CASE Deliver(r) BY <2>1, <2>3 DEF Goal, Takes, Deliver
    <2>4. CASE LoopEnds(r)
      <3>1. sub' = [sub EXCEPT ![r] = Closed(sub[r])] /\ log' = log BY <2>4 DEF LoopEnds
      <3> QED BY <1>2, <1>3, <2>1, <3>1
    <2>5. CASE Overflowed(r) \/ Breaks(r) \/ TearDown(r)
      <3>1. sub' = [sub EXCEPT ![r] = NoSub] /\ log' = log
        BY <2>5 DEF Overflowed, Breaks, TearDown
      <3> QED BY <1>2, <1>4, <2>1, <3>1
    <2>6. CASE SetUp(r) \/ CleanUp(r) \/ Finishes(r)
      BY <1>1, <2>6 DEF SetUp, CleanUp, Finishes
    <2> QED BY <1>8, <2>2, <2>3, <2>4, <2>5, <2>6 DEF Mirror, MirrorEnds
  <1>9. ASSUME NEW x \in Recorders, Record(x) PROVE Goal
    <2>1. x \in Readers BY DEF Readers
    <2>2. CASE RecorderTakes(x) BY <2>1, <2>2 DEF Goal, Takes, RecorderTakes
    <2>3. CASE RecorderEnds(x)
      <3>1. log' = log /\ (sub' = [sub EXCEPT ![x] = Closed(sub[x])] \/ sub' = sub)
        BY <2>3 DEF RecorderEnds
      <3> QED BY <1>1, <1>2, <1>3, <2>1, <3>1
    <2> QED BY <1>9, <2>2, <2>3 DEF Record
  <1>10. CASE Commands
    <2>1. ASSUME NEW x \in Recorders, RecordCommand(x) PROVE Goal
      <3>1. x \in Readers BY DEF Readers
      <3>2. ~Live(x) BY <2>1 DEF RecordCommand, Attached, Recording
      <3> QED BY <2>1, <3>1, <3>2 DEF Goal, Opens, RecordCommand
    <2> QED BY <1>1, <1>10, <2>1
            DEF Commands, Poll, NoMoreLines, StopCommand, Erased, RemoveCommand, AddCommand
  <1>11. CASE Main
    <2>1. CASE MainResetsRecording
      <3>1. Recorders \in SUBSET Readers BY DEF Readers
      <3> QED BY <1>5, <2>1, <3>1 DEF MainResetsRecording
    <2>2. CASE MainCloses BY <1>5, <1>6, <2>2 DEF MainCloses
    <2> QED BY <1>1, <1>11, <2>1, <2>2
            DEF Main, MainStops, MainStopsSessions, MainClears, MainExits
  <1> QED BY <1>1, <1>7, <1>8, <1>9, <1>10, <1>11 DEF Next, vars

-----------------------------------------------------------------------------
(* Subscriptions stay attached to the threads that hold them.              *)

\* Closed and Pushed do not make a subscription live.
LEMMA NotRevived ==
  ASSUME QueueShape, NEW x \in Readers
  PROVE  /\ Closed(sub[x]).on = sub[x].on
         /\ Closed(sub[x]).on => Closed(sub[x]).closed
  <1>1. sub[x] \in SubShape BY DEF QueueShape
  <1>2. /\ [sub[x] EXCEPT !.closed = TRUE].on = sub[x].on
        /\ [sub[x] EXCEPT !.closed = TRUE].closed = TRUE
    BY <1>1 DEF SubShape
  <1> QED BY <1>2 DEF Closed

LEMMA PushedKeeps ==
  ASSUME NEW s \in SubShape, NEW k \in Kinds
  PROVE  /\ Pushed(s, k).on = s.on
         /\ s.closed => Pushed(s, k).closed
         /\ Pushed(s, k).since = s.since
         /\ Pushed(s, k).last = s.last
  <1>1. ASSUME NEW t, t \in {[s EXCEPT !.waiting = FALSE, !.error = TRUE, !.closed = TRUE],
                            [s EXCEPT !.waiting = FALSE, !.queue = Append(@, Len(log) + 1),
                                      !.bytes = @ + Size[k]]}
        PROVE  t.on = s.on /\ t.since = s.since /\ t.last = s.last
    BY <1>1 DEF SubShape
  <1> QED BY <1>1 DEF Pushed

\* Every step keeps subscriptions attached.
LEMMA AttachedStep ==
  ASSUME EngineAssumption, QueueShape, ThreadShape, EngineInv, Attached, [Next]_vars
  PROVE  Attached'
  <1> USE DEF ThreadShape
  <1>0. /\ \A r \in Receivers : r \in Readers /\ r \notin Recorders
        /\ \A x \in Recorders : x \in Readers /\ x \notin Receivers
        /\ DOMAIN sub = Readers
    BY DEF EngineAssumption, Readers, QueueShape
  <1>1. ASSUME UNCHANGED <<thread, recorder>>,
               \A x \in Readers : sub'[x].on => sub[x].on,
               \A x \in Readers : (sub'[x].on /\ ~sub'[x].closed) => ~sub[x].closed
        PROVE  Attached'
    <2>1. \A r \in Receivers : sub'[r].on => thread'[r].pc \in {"streaming", "closing"}
      BY <1>0, <1>1 DEF Attached
    <2>2. \A x \in Recorders : Live(x)' => Live(x) BY <1>0, <1>1 DEF Live
    <2>3. \A x \in Recorders : Live(x)' => recorder'[x].pc = "recording"
      BY <1>1, <2>2 DEF Attached
    <2> QED BY <2>1, <2>3 DEF Attached
  <1>2. ASSUME UNCHANGED <<thread, recorder, sub>> PROVE Attached' BY <1>1, <1>2
  <1>3. ASSUME NEW p \in Producers, Produce(p) PROVE Attached'
    <2>1. ASSUME NEW k \in Kinds, Publish(p, k) PROVE Attached'
      <3>1. /\ \A x \in Readers : sub'[x].on => sub[x].on
            /\ \A x \in Readers : (sub'[x].on /\ ~sub'[x].closed) => ~sub[x].closed
        <4>1. \A x \in Readers : sub'[x] = Pushed(sub[x], k) BY <2>1 DEF Publish
        <4>2. ASSUME NEW x \in Readers
              PROVE  /\ sub'[x].on = sub[x].on
                     /\ sub[x].closed => sub'[x].closed
          <5>1. sub[x] \in SubShape BY DEF QueueShape
          <5> QED BY <4>1, <5>1, PushedKeeps
        <4> QED BY <4>2
      <3> QED BY <1>1, <2>1, <3>1 DEF Publish
    <2>2. CASE CaptureLeaves(p)
      <3>1. sub' = AllClosed \/ sub' = sub BY <2>2 DEF CaptureLeaves
      <3> QED BY <1>1, <2>2, <3>1, NotRevived DEF CaptureLeaves, AllClosed
    <2>3. CASE ProducerFails(p) \/ Completes(p) \/ ProducerNotes(p) \/ ProducerCloses(p)
      BY <1>2, <2>3 DEF ProducerFails, Completes, ProducerNotes, ProducerCloses
    <2> QED BY <1>3, <2>1, <2>2, <2>3 DEF Produce, ProducerEnds
  <1>4. ASSUME NEW r \in Receivers, Mirror(r) PROVE Attached'
    <2>1. ASSUME NEW s, sub' = [sub EXCEPT ![r] = s], UNCHANGED recorder,
                 \A o \in Receivers \ {r} : thread'[o] = thread[o],
                 s.on => thread'[r].pc \in {"streaming", "closing"}
          PROVE  Attached'
      BY <1>0, <2>1 DEF Attached, Live
    <2>2. ~NoSub.on BY DEF NoSub
    <2>3. CASE SetUp(r) \/ CleanUp(r)
      <3>1. ~sub[r].on BY <2>3 DEF SetUp, CleanUp, Asks, Attached
      <3>2. \A o \in Receivers \ {r} : thread'[o] = thread[o]
        BY <2>3 DEF SetUp, CleanUp, Asks
      <3> QED BY <2>3, <3>1, <3>2 DEF SetUp, CleanUp, Attached, Live
    <2>4. CASE Finishes(r)
      <3>1. ~sub[r].on BY <2>4 DEF Finishes, To, Attached
      <3>2. \A o \in Receivers \ {r} : thread'[o] = thread[o] BY <2>4 DEF Finishes, To
      <3> QED BY <2>4, <3>1, <3>2 DEF Finishes, Attached, Live
    <2>5. CASE Subscribe(r)
      <3>1. thread'[r].pc = "streaming" BY <2>5 DEF Subscribe, To, Thread
      <3> QED BY <2>1, <2>5, <3>1 DEF Subscribe, To
    <2>6. CASE Deliver(r) BY <2>1, <2>6 DEF Deliver
    <2>7. CASE LoopEnds(r)
      <3>1. thread'[r].pc = "closing" BY <2>7 DEF LoopEnds, To, Thread
      <3> QED BY <2>1, <2>7, <3>1 DEF LoopEnds, To
    <2>8. CASE Overflowed(r) \/ Breaks(r) \/ TearDown(r)
      <3>1. sub' = [sub EXCEPT ![r] = NoSub] /\ UNCHANGED recorder
        BY <2>8 DEF Overflowed, Breaks, TearDown
      <3>2. \A o \in Receivers \ {r} : thread'[o] = thread[o]
        BY <2>8 DEF Overflowed, Breaks, TearDown, To, Asks
      <3> QED BY <2>1, <2>2, <3>1, <3>2
    <2> QED BY <1>4, <2>3, <2>4, <2>5, <2>6, <2>7, <2>8 DEF Mirror, MirrorEnds
  <1>5. ASSUME NEW x \in Recorders, Record(x) PROVE Attached'
    <2>1. CASE RecorderTakes(x)
      <3>1. \A o \in Readers \ {x} : sub'[o] = sub[o] BY <2>1 DEF RecorderTakes, QueueShape
      <3> QED BY <1>0, <2>1, <3>1 DEF RecorderTakes, Attached, Live
    <2>2. CASE RecorderEnds(x)
      <3>1. \A o \in Readers \ {x} : sub'[o] = sub[o] BY <2>2 DEF RecorderEnds, QueueShape
      <3>2. \A o \in Recorders \ {x} : recorder'[o] = recorder[o] BY <2>2 DEF RecorderEnds
      <3>3. ~Live(x)'
        <4>1. CASE recorder[x].pc = "recording"
          BY <1>0, <2>2, <4>1, NotRevived DEF RecorderEnds, Live
        <4>2. CASE recorder[x].pc = "saving"
          BY <2>2, <4>2 DEF RecorderEnds, Live, Attached
        <4> QED BY <2>2, <4>1, <4>2 DEF RecorderEnds
      <3> QED BY <1>0, <2>2, <3>1, <3>2, <3>3 DEF RecorderEnds, Attached, Live
    <2> QED BY <1>5, <2>1, <2>2 DEF Record
  <1>6. CASE Commands
    <2>1. ASSUME NEW x \in Recorders, RecordCommand(x) PROVE Attached'
      <3>1. \A o \in Readers \ {x} : sub'[o] = sub[o] BY <2>1 DEF RecordCommand, QueueShape
      <3>2. /\ \A o \in Recorders \ {x} : recorder'[o] = recorder[o]
            /\ recorder'[x].pc = "recording"
        BY <2>1 DEF RecordCommand
      <3> QED BY <1>0, <2>1, <3>1, <3>2 DEF RecordCommand, Attached, Live
    <2>2. ASSUME NEW r \in Receivers, RemoveCommand(r) PROVE Attached'
      <3>1. \A o \in Receivers : thread'[o].pc = thread[o].pc
        BY <2>2 DEF RemoveCommand, Thread
      <3> QED BY <2>2, <3>1 DEF RemoveCommand, Attached, Live
    <2>3. ASSUME NEW r \in Receivers, NEW i \in Slots, AddCommand(r, i) PROVE Attached'
      <3>1. ~sub[r].on BY <2>3 DEF AddCommand, Attached, EngineInv, Owned, Running
      <3>2. \A o \in Receivers \ {r} : thread'[o] = thread[o] BY <2>3 DEF AddCommand
      <3> QED BY <2>3, <3>1, <3>2 DEF AddCommand, Attached, Live
    <2> QED BY <1>2, <1>6, <2>1, <2>2, <2>3
            DEF Commands, Poll, NoMoreLines, StopCommand, Erased
  <1>7. CASE Main
    <2>1. CASE MainResetsRecording
      <3>1. /\ \A r \in Receivers : sub'[r] = sub[r]
            /\ \A x \in Recorders : sub'[x] = Closed(sub[x])
        BY <1>0, <2>1 DEF MainResetsRecording
      <3>2. \A x \in Recorders : ~Live(x)' BY <1>0, <3>1, NotRevived DEF Live
      <3>3. UNCHANGED thread BY <2>1 DEF MainResetsRecording
      <3> QED BY <3>1, <3>2, <3>3 DEF Attached
    <2>2. CASE MainStopsSessions
      <3>1. \A r \in Receivers : thread'[r].pc = thread[r].pc
        BY <2>2 DEF MainStopsSessions, Thread
      <3> QED BY <2>2, <3>1 DEF MainStopsSessions, Attached, Live
    <2>3. CASE MainCloses BY <1>1, <2>3, NotRevived DEF MainCloses, AllClosed
    <2> QED BY <1>2, <1>7, <2>1, <2>2, <2>3 DEF Main, MainStops, MainClears, MainExits
  <1> QED BY <1>2, <1>3, <1>4, <1>5, <1>6, <1>7 DEF Next, vars

-----------------------------------------------------------------------------
(* The queues hold the end of the log.                                     *)

\* A new subscription is ordered: it waits for a keyframe not yet published.
LEMMA OrderSubscribed == ASSUME log \in Seq(Kinds) PROVE Order(Subscribed, log)
  <1>1. /\ Subscribed.since = Len(log) /\ Subscribed.last = 0 /\ Subscribed.queue = <<>>
        /\ Subscribed.waiting = TRUE
    BY DEF Subscribed, NoSub
  <1>2. Len(log) \in Nat OBVIOUS
  <1> QED BY <1>1, <1>2 DEF Order, Run

\* Taking the head of an ordered queue leaves it ordered.
LEMMA RunShrinks ==
  ASSUME NEW l \in Seq(Kinds), NEW since \in Nat, NEW waiting \in BOOLEAN, NEW last \in Nat,
         NEW q \in Seq(Nat), q # <<>>, Run(since, waiting, last, q, l),
         \A i \in 1..Len(q) : q[i] \in 1..Len(l)
  PROVE  /\ Run(since, waiting, Head(q), Tail(q), l)
         /\ ~waiting
         /\ Head(q) = Len(l) - Len(q) + 1
         /\ Head(q) \in 1..Len(l)
  <1> DEFINE r == Tail(q)
             n == Len(q)
             c == Len(l)
  <1>1. /\ n \in Nat /\ n >= 1 /\ Len(r) = n - 1 /\ c \in Nat /\ Head(q) = q[1]
        /\ \A i \in 1..Len(r) : r[i] = q[i + 1]
        /\ q[1] \in 1..c
    OBVIOUS
  <1>2. \A i \in 1..n : q[i] = c - n + i BY DEF Run
  <1>3. ~waiting BY DEF Run
  <1>4. since <= c BY DEF Run
  <1> HIDE DEF r, n, c
  <1>5. \A i \in 1..Len(r) : r[i] = c - Len(r) + i
    <2>1. ASSUME NEW i \in 1..Len(r) PROVE r[i] = c - Len(r) + i
      <3>1. i + 1 \in 1..n /\ i \in Nat BY <1>1
      <3>2. r[i] = c - n + (i + 1) BY <1>1, <1>2, <3>1
      <3> QED BY <1>1, <3>1, <3>2
    <2> QED BY <2>1
  <1>6. Head(q) = c - n + 1 BY <1>1, <1>2
  <1>7. Head(q) = c - Len(r) /\ Head(q) > 0 /\ Head(q) \in 1..c BY <1>1, <1>6
  <1>8. Run(since, waiting, Head(q), r, l)
    BY <1>1, <1>3, <1>4, <1>5, <1>7 DEF Run, c
  <1> QED BY <1>3, <1>6, <1>7, <1>8 DEF r, n, c

\* A published packet that a subscription waiting for a keyframe skips.
LEMMA RunSkips ==
  ASSUME NEW l \in Seq(Kinds), NEW k \in Kinds, NEW since \in Nat, NEW last \in Nat,
         NEW q \in Seq(Nat), Run(since, TRUE, last, q, l), k # "key"
  PROVE  Run(since, TRUE, last, q, Append(l, k))
  <1> DEFINE m == Append(l, k)
             c == Len(l)
  <1>1. /\ c \in Nat /\ Len(m) = c + 1 /\ m[c + 1] = k
        /\ \A i \in 1..c : m[i] = l[i]
    OBVIOUS
  <1>2. /\ q = <<>> /\ last = 0 /\ since <= c
        /\ \A i \in since + 1..c : l[i] # "key"
    BY DEF Run
  <1> HIDE DEF m, c
  <1>3. \A i \in since + 1..Len(m) : m[i] # "key" BY <1>1, <1>2
  <1>4. since <= Len(m) BY <1>1, <1>2
  <1>5. Run(since, TRUE, last, q, m) BY <1>2, <1>3, <1>4 DEF Run
  <1> QED BY <1>5 DEF m

\* A published packet that is queued: any packet once the subscription has
\* started, and the keyframe that starts it.
LEMMA RunGrows ==
  ASSUME NEW l \in Seq(Kinds), NEW k \in Kinds, NEW since \in Nat,
         NEW waiting \in BOOLEAN, NEW last \in Nat, NEW q \in Seq(Nat),
         Run(since, waiting, last, q, l), \A i \in 1..Len(q) : q[i] \in 1..Len(l),
         waiting => k = "key"
  PROVE  Run(since, FALSE, last, Append(q, Len(l) + 1), Append(l, k))
  <1> DEFINE m == Append(l, k)
             c == Len(l)
             n == Len(q)
             r == Append(q, c + 1)
  <1>1. /\ c \in Nat /\ Len(m) = c + 1 /\ m[c + 1] = k
        /\ \A i \in 1..c : m[i] = l[i]
    OBVIOUS
  <1>2. /\ n \in Nat /\ Len(r) = n + 1 /\ r[n + 1] = c + 1
        /\ \A i \in 1..n : r[i] = q[i]
    OBVIOUS
  <1>3. since <= c /\ \A i \in 1..n : q[i] = c - n + i /\ q[i] \in 1..c BY DEF Run
  <1>4. waiting => /\ n = 0 /\ last = 0 /\ k = "key"
                   /\ \A i \in since + 1..c : l[i] # "key"
    BY DEF Run
  <1>5. (~waiting /\ last > 0) => last = c - n BY DEF Run
  <1>6. (~waiting /\ last = 0) =>
           /\ n > 0 /\ since < q[1] /\ l[q[1]] = "key"
           /\ \A i \in since + 1..q[1] - 1 : l[i] # "key"
    BY DEF Run
  <1> HIDE DEF m, c, n, r
  <1>7. \A i \in 1..Len(r) : r[i] = Len(m) - Len(r) + i
    <2>1. ASSUME NEW i \in 1..Len(r) PROVE r[i] = Len(m) - Len(r) + i
      <3>1. CASE i = n + 1 BY <1>1, <1>2, <3>1
      <3>2. CASE i \in 1..n BY <1>1, <1>2, <1>3, <3>2
      <3> QED BY <1>2, <3>1, <3>2
    <2> QED BY <2>1
  <1>8. last > 0 => last = Len(m) - Len(r) BY <1>1, <1>2, <1>4, <1>5
  <1>9. ASSUME last = 0
        PROVE  /\ Len(r) > 0 /\ since < r[1] /\ m[r[1]] = "key"
               /\ \A i \in since + 1..r[1] - 1 : m[i] # "key"
    <2>1. CASE waiting
      <3>1. r[1] = c + 1 /\ Len(r) = 1 BY <1>2, <1>4, <2>1
      <3> QED BY <1>1, <1>3, <1>4, <2>1, <3>1
    <2>2. CASE ~waiting
      <3>1. r[1] = q[1] /\ q[1] \in 1..c BY <1>2, <1>3, <1>6, <1>9, <2>2
      <3> QED BY <1>1, <1>2, <1>6, <1>9, <2>2, <3>1
    <2> QED BY <2>1, <2>2
  <1>10. since <= Len(m) BY <1>1, <1>3
  <1>11. Run(since, FALSE, last, r, m) BY <1>7, <1>8, <1>9, <1>10 DEF Run
  <1> QED BY <1>11 DEF m, r, c

-----------------------------------------------------------------------------
(* What publishing and taking do to the subscription of one reader.        *)

\* Publishing leaves a subscription that stays live ordered.
LEMMA PushedOrder ==
  ASSUME EngineAssumption, QueueShape, NEW x \in Readers, NEW k \in Kinds, Ordered(x),
         Pushed(sub[x], k).on, ~Pushed(sub[x], k).closed
  PROVE  Order(Pushed(sub[x], k), Append(log, k))
  <1> DEFINE s == sub[x]
             t == [s EXCEPT !.waiting = FALSE, !.queue = Append(@, Len(log) + 1),
                            !.bytes = @ + Size[k]]
             e == [s EXCEPT !.waiting = FALSE, !.error = TRUE, !.closed = TRUE]
  <1>1. s \in SubShape /\ log \in Seq(Kinds)
        /\ \A i \in 1..Len(s.queue) : s.queue[i] \in 1..Len(log)
    BY DEF QueueShape
  <1>2. /\ s.queue \in Seq(Nat) /\ s.since \in Nat /\ s.last \in Nat
        /\ s.waiting \in BOOLEAN
    BY <1>1 DEF SubShape
  <1>3. /\ t.waiting = FALSE /\ t.queue = Append(s.queue, Len(log) + 1)
        /\ t.since = s.since /\ t.last = s.last
        /\ e.closed = TRUE
    BY <1>1 DEF SubShape
  <1>4. s.on /\ ~s.closed BY <1>1, PushedKeeps
  <1>5. Run(s.since, s.waiting, s.last, s.queue, log) BY <1>4 DEF Ordered, Live, Order
  <1>6. CASE s.waiting /\ k # "key"
    <2>1. s.waiting = TRUE BY <1>2, <1>6
    <2>2. Run(s.since, TRUE, s.last, s.queue, Append(log, k))
      BY <1>1, <1>2, <1>5, <1>6, <2>1, RunSkips
    <2>3. Pushed(s, k) = s BY <1>6 DEF Pushed
    <2> QED BY <2>1, <2>2, <2>3 DEF Order
  <1>7. CASE ~(s.waiting /\ k # "key")
    <2>1. Pushed(s, k) = t \/ Pushed(s, k) = e BY <1>4, <1>7 DEF Pushed
    <2>2. Pushed(s, k) = t BY <1>3, <2>1
    <2>3. s.waiting => k = "key" BY <1>7
    <2>4. Run(s.since, FALSE, s.last, Append(s.queue, Len(log) + 1), Append(log, k))
      BY <1>1, <1>2, <1>5, <2>3, RunGrows
    <2> HIDE DEF t
    <2> QED BY <1>3, <2>2, <2>4 DEF Order
  <1> QED BY <1>6, <1>7

\* What taking a packet does to an ordered subscription.
LEMMA PoppedOrder ==
  ASSUME EngineAssumption, QueueShape, NEW x \in Readers, Readable(sub[x]), Ordered(x)
  PROVE  /\ Live(x)
         /\ ~sub[x].waiting
         /\ Head(sub[x].queue) = Len(log) - Len(sub[x].queue) + 1
         /\ Head(sub[x].queue) \in 1..Len(log)
         /\ Order(Popped(sub[x]), log)
         /\ Popped(sub[x]).on = sub[x].on /\ Popped(sub[x]).closed = sub[x].closed
         /\ Popped(sub[x]).since = sub[x].since
         /\ Popped(sub[x]).last = Head(sub[x].queue)
  <1> DEFINE s == sub[x]
             t == Popped(s)
  <1>1. s \in SubShape /\ log \in Seq(Kinds)
        /\ \A i \in 1..Len(s.queue) : s.queue[i] \in 1..Len(log)
    BY DEF QueueShape
  <1>2. /\ s.queue \in Seq(Nat) /\ s.since \in Nat /\ s.last \in Nat
        /\ s.waiting \in BOOLEAN
    BY <1>1 DEF SubShape
  <1>3. Live(x) /\ s.queue # <<>> BY DEF Readable, Live
  <1>4. Run(s.since, s.waiting, s.last, s.queue, log) BY <1>3 DEF Ordered, Order
  <1>5. /\ Run(s.since, s.waiting, Head(s.queue), Tail(s.queue), log)
        /\ ~s.waiting
        /\ Head(s.queue) = Len(log) - Len(s.queue) + 1
        /\ Head(s.queue) \in 1..Len(log)
    BY <1>1, <1>2, <1>3, <1>4, RunShrinks
  <1>6. /\ t.on = s.on /\ t.closed = s.closed /\ t.since = s.since /\ t.waiting = s.waiting
        /\ t.queue = Tail(s.queue) /\ t.last = Head(s.queue)
    BY <1>1 DEF SubShape, Popped
  <1> HIDE DEF t
  <1>7. Order(t, log) BY <1>5, <1>6 DEF Order
  <1> QED BY <1>3, <1>5, <1>6, <1>7 DEF t

\* Every step keeps the queues the end of the log.
LEMMA OrderedStep ==
  ASSUME EngineAssumption, QueueShape, ThreadShape, FeedInv, [Next]_vars
  PROVE  \A x \in Readers : Ordered(x)'
  <1> USE DEF FeedInv
  <1>0. log \in Seq(Kinds) /\ DOMAIN sub = Readers BY DEF QueueShape
  <1>1. ASSUME NEW p \in Producers, NEW k \in Kinds, Publish(p, k)
        PROVE  \A x \in Readers : Ordered(x)'
    <2>1. ASSUME NEW x \in Readers, Live(x)' PROVE Order(sub'[x], log')
      <3>1. sub'[x] = Pushed(sub[x], k) /\ log' = Append(log, k) BY <1>1 DEF Publish
      <3>2. Pushed(sub[x], k).on /\ ~Pushed(sub[x], k).closed BY <2>1, <3>1 DEF Live
      <3>3. Ordered(x) OBVIOUS
      <3> QED BY <3>1, <3>2, <3>3, PushedOrder
    <2> QED BY <2>1 DEF Ordered, Live
  <1>2. CASE log' = log /\ Takes
    <2>1. PICK y \in Readers : Readable(sub[y]) /\ sub' = [sub EXCEPT ![y] = Popped(@)]
      BY <1>2 DEF Takes
    <2>2. sub'[y] = Popped(sub[y]) BY <1>0, <2>1
    <2>3. Order(Popped(sub[y]), log) BY <2>1, PoppedOrder
    <2>4. \A x \in Readers \ {y} : sub'[x] = sub[x] BY <1>0, <2>1
    <2> QED BY <1>2, <2>2, <2>3, <2>4 DEF Ordered, Live
  <1>3. CASE log' = log /\ Opens
    <2>1. PICK y \in Readers : sub' = [sub EXCEPT ![y] = Subscribed] BY <1>3 DEF Opens
    <2>2. \A x \in Readers \ {y} : sub'[x] = sub[x] BY <1>0, <2>1
    <2>3. sub'[y] = Subscribed BY <1>0, <2>1
    <2>4. Order(Subscribed, log) BY <1>0, OrderSubscribed
    <2> QED BY <1>3, <2>2, <2>3, <2>4 DEF Ordered, Live
  <1>4. CASE log' = log /\ Cuts BY <1>4 DEF Cuts, Ordered, Live
  <1> QED BY <1>1, <1>2, <1>3, <1>4, StepKinds

-----------------------------------------------------------------------------
(* The refinement.                                                         *)

Fed(s) == IF s.on /\ ~s.closed THEN [on |-> TRUE, since |-> s.since, last |-> s.last]
                                ELSE Abstract!Cut

LEMMA FedOf == FeedOf = [x \in Readers |-> Fed(sub[x])]
  BY DEF FeedOf, Fed, Abstract!Cut

\* A new subscription is new in the abstract.
LEMMA FedSubscribed == Fed(Subscribed) = [on |-> TRUE, since |-> Len(log), last |-> 0]
  <1>1. /\ Subscribed.on = TRUE /\ Subscribed.closed = FALSE
        /\ Subscribed.since = Len(log) /\ Subscribed.last = 0
    BY DEF Subscribed, NoSub
  <1> QED BY <1>1 DEF Fed

\* The head of an ordered queue is the packet that comes next for its reader.
LEMMA HeadIsNext ==
  ASSUME EngineAssumption, QueueShape, NEW x \in Readers, Readable(sub[x]), Ordered(x)
  PROVE  Abstract!NextOf(Fed(sub[x]), Head(sub[x].queue))
  <1> DEFINE s == sub[x]
             q == s.queue
             since == s.since
             last == s.last
             f == Fed(s)
  <1>1. /\ Live(x) /\ ~s.waiting /\ Head(q) = Len(log) - Len(q) + 1
        /\ Head(q) \in 1..Len(log)
    BY PoppedOrder
  <1>2. f.last = last /\ f.since = since BY <1>1 DEF Fed, Live
  <1>3. Run(since, s.waiting, last, q, log) BY <1>1 DEF Ordered, Order
  <1>4. last \in Nat /\ since \in Nat /\ q \in Seq(Nat) /\ q # <<>> /\ Len(log) \in Nat
    BY DEF QueueShape, SubShape, Readable
  <1>5. last > 0 => last = Len(log) - Len(q) BY <1>1, <1>3 DEF Run
  <1>6. last = 0 => /\ since < q[1] /\ log[q[1]] = "key"
                    /\ \A i \in since + 1..q[1] - 1 : log[i] # "key"
    BY <1>1, <1>3 DEF Run
  <1>7. Head(q) = q[1] /\ Len(q) \in Nat BY <1>4
  <1> HIDE DEF f, q, since, last
  <1>8. f.last > 0 => Head(q) = f.last + 1 BY <1>1, <1>2, <1>4, <1>5, <1>7
  <1>9. ~(f.last > 0) => /\ Head(q) > f.since /\ log[Head(q)] = "key"
                         /\ \A i \in f.since + 1..Head(q) - 1 : log[i] # "key"
    BY <1>1, <1>2, <1>4, <1>6, <1>7
  <1>10. Abstract!NextOf(f, Head(q)) BY <1>8, <1>9 DEF Abstract!NextOf
  <1> QED BY <1>10 DEF f, q

\* Readers lose their subscription when they stay as they are or are cut.
LEMMA LoseStep ==
  ASSUME \A x \in Readers : Fed(sub'[x]) \in {Fed(sub[x]), Abstract!Cut}
  PROVE  Abstract!Lose
  <1> DEFINE X == {x \in Readers : Fed(sub'[x]) = Abstract!Cut}
  <1>1. FeedOf = [x \in Readers |-> Fed(sub[x])] BY FedOf
  <1>2. FeedOf' = [x \in Readers |-> Fed(sub'[x])]
    BY DEF FeedOf, Fed, Abstract!Cut
  <1>3. FeedOf' = [x \in Readers |-> IF x \in X THEN Abstract!Cut ELSE FeedOf[x]]
    BY <1>1, <1>2
  <1>4. X \in SUBSET Readers OBVIOUS
  <1> QED BY <1>3, <1>4 DEF Abstract!Lose

\* Every step of the process is a step of Feed or leaves it as it is.
LEMMA FeedStep ==
  ASSUME EngineAssumption, QueueShape, ThreadShape, FeedInv, [Next]_vars
  PROVE  [Abstract!Next]_(Abstract!vars)
  <1> USE DEF FeedInv
  <1>0. log \in Seq(Kinds) /\ DOMAIN sub = Readers BY DEF QueueShape
  <1>f. /\ FeedOf = [x \in Readers |-> Fed(sub[x])]
        /\ FeedOf' = [x \in Readers |-> Fed(sub'[x])]
    BY DEF FeedOf, Fed, Abstract!Cut
  <1>1. ASSUME NEW p \in Producers, NEW k \in Kinds, Publish(p, k) PROVE Abstract!Next
    <2>1. ASSUME NEW x \in Readers PROVE Fed(sub'[x]) \in {Fed(sub[x]), Abstract!Cut}
      <3>1. sub'[x] = Pushed(sub[x], k) /\ sub[x] \in SubShape
        BY <1>1 DEF Publish, QueueShape
      <3>2. /\ sub'[x].on = sub[x].on /\ sub'[x].since = sub[x].since
            /\ sub'[x].last = sub[x].last
            /\ sub[x].closed => sub'[x].closed
        BY <3>1, PushedKeeps
      <3>3. CASE sub'[x].on /\ ~sub'[x].closed
        <4>1. sub[x].on /\ ~sub[x].closed BY <3>2, <3>3
        <4> QED BY <3>2, <3>3, <4>1 DEF Fed
      <3>4. CASE ~(sub'[x].on /\ ~sub'[x].closed) BY <3>4 DEF Fed
      <3> QED BY <3>3, <3>4
    <2>2. Abstract!Lose BY <2>1, LoseStep
    <2>3. log' = Append(log, k) BY <1>1 DEF Publish
    <2> QED BY <2>2, <2>3 DEF Abstract!Next, Abstract!Publish
  <1>2. CASE log' = log /\ Takes
    <2>1. PICK y \in Readers : Readable(sub[y]) /\ sub' = [sub EXCEPT ![y] = Popped(@)]
      BY <1>2 DEF Takes
    <2>2. sub'[y] = Popped(sub[y]) /\ \A x \in Readers \ {y} : sub'[x] = sub[x]
      BY <1>0, <2>1
    <2>3. /\ Live(y) /\ Popped(sub[y]).on = sub[y].on /\ Popped(sub[y]).closed = sub[y].closed
          /\ Popped(sub[y]).since = sub[y].since
          /\ Popped(sub[y]).last = Head(sub[y].queue)
          /\ Head(sub[y].queue) \in 1..Len(log)
      BY <2>1, PoppedOrder
    <2>4. Abstract!NextOf(Fed(sub[y]), Head(sub[y].queue)) BY <2>1, HeadIsNext
    <2>5. Fed(sub'[y]) = [Fed(sub[y]) EXCEPT !.last = Head(sub[y].queue)] /\ Fed(sub[y]).on
      <3>1. Fed(sub[y]) = [on |-> TRUE, since |-> sub[y].since, last |-> sub[y].last]
        BY <2>3 DEF Fed, Live
      <3>2. /\ sub'[y].on = sub[y].on /\ sub'[y].closed = sub[y].closed
            /\ sub'[y].since = sub[y].since /\ sub'[y].last = Head(sub[y].queue)
        BY <2>2, <2>3
      <3>3. Fed(sub'[y]) = [on |-> TRUE, since |-> sub[y].since,
                            last |-> Head(sub[y].queue)]
        BY <2>3, <3>2 DEF Fed, Live
      <3>4. ASSUME NEW r \in [on : BOOLEAN, since : Nat, last : Nat], NEW n \in Nat
            PROVE  [r EXCEPT !.last = n] = [on |-> r.on, since |-> r.since, last |-> n]
        OBVIOUS
      <3>5. Fed(sub[y]) \in [on : BOOLEAN, since : Nat, last : Nat]
        BY <3>1 DEF QueueShape, SubShape
      <3>6. Head(sub[y].queue) \in Nat BY <1>0, <2>3
      <3>7. Fed(sub[y]).on = TRUE /\ Fed(sub[y]).since = sub[y].since BY <3>1
      <3> QED BY <3>3, <3>4, <3>5, <3>6, <3>7
    <2>6. FeedOf' = [FeedOf EXCEPT ![y].last = Head(sub[y].queue)]
      BY <1>f, <2>2, <2>5
    <2>7. Abstract!Take(y) BY <1>2, <1>f, <2>3, <2>4, <2>5, <2>6 DEF Abstract!Take
    <2> QED BY <2>7 DEF Abstract!Next
  <1>3. CASE log' = log /\ Opens
    <2>1. PICK y \in Readers : ~Live(y) /\ sub' = [sub EXCEPT ![y] = Subscribed]
      BY <1>3 DEF Opens
    <2>2. sub'[y] = Subscribed /\ \A x \in Readers \ {y} : sub'[x] = sub[x]
      BY <1>0, <2>1
    <2>3. ~FeedOf[y].on BY <1>f, <2>1 DEF Fed, Live, Abstract!Cut
    <2>4. FeedOf' = [FeedOf EXCEPT ![y] = [on |-> TRUE, since |-> Len(log), last |-> 0]]
      BY <1>f, <2>2, FedSubscribed
    <2>5. Abstract!Subscribe(y) BY <1>3, <2>3, <2>4 DEF Abstract!Subscribe
    <2> QED BY <2>5 DEF Abstract!Next
  <1>4. CASE log' = log /\ Cuts
    <2>1. ASSUME NEW x \in Readers PROVE Fed(sub'[x]) \in {Fed(sub[x]), Abstract!Cut}
      BY <1>4 DEF Cuts, Fed
    <2>2. Abstract!Lose BY <2>1, LoseStep
    <2> QED BY <1>4, <2>2 DEF Abstract!Next
  <1> QED BY <1>1, <1>2, <1>3, <1>4, StepKinds

\* What is known of the threads and of the feeds holds in every state.
LEMMA FeedsKept == Spec => [](QueueShape /\ ThreadShape /\ EngineInv /\ FeedInv)
  <1> USE EngineAssumption
  <1>1. Init => FeedInv
    <2> SUFFICES ASSUME Init PROVE FeedInv OBVIOUS
    <2>1. \A x \in Readers : sub[x] = NoSub BY DEF Init
    <2>2. NoSub.on = FALSE BY DEF NoSub
    <2>3. \A x \in Readers : ~sub[x].on BY <2>1, <2>2
    <2> QED BY <2>3 DEF FeedInv, Attached, Ordered, Live, Readers
  <1> DEFINE Inv == QueueShape /\ ThreadShape /\ EngineInv
  <1>2. Inv /\ FeedInv /\ [Next]_vars => FeedInv'
    BY AttachedStep, OrderedStep DEF FeedInv
  <1>3. Spec => []Inv BY ThreadsCorrect
  <1>4. Inv /\ FeedInv => QueueShape /\ ThreadShape /\ EngineInv /\ FeedInv OBVIOUS
  <1> HIDE DEF Inv
  <1> QED BY <1>1, <1>2, <1>3, <1>4, PTL DEF Spec

\* A media process implements Feed: every reader, a TV or the recording, gets
\* every packet from the first keyframe published after it subscribed, in the
\* order of publishing, until its feed is cut, and no reader delays another.
THEOREM FeedImplemented == Spec => ImplementsFeed
  <1> USE EngineAssumption
  <1>1. Init => Abstract!Init
    <2> SUFFICES ASSUME Init PROVE Abstract!Init OBVIOUS
    <2>1. \A x \in Readers : sub[x] = NoSub BY DEF Init
    <2>2. NoSub.on = FALSE BY DEF NoSub
    <2>3. FeedOf = [x \in Readers |-> Abstract!Cut] BY <2>1, <2>2 DEF FeedOf, Abstract!Cut
    <2> QED BY <2>3 DEF Init, Abstract!Init
  <1> DEFINE Inv == QueueShape /\ ThreadShape /\ EngineInv /\ FeedInv
  <1>2. Inv /\ [Next]_vars => [Abstract!Next]_(Abstract!vars) BY FeedStep
  <1>3. Spec => []Inv BY FeedsKept
  <1> HIDE DEF Inv
  <1> QED BY <1>1, <1>2, <1>3, PTL DEF Spec, ImplementsFeed, Abstract!Spec

-----------------------------------------------------------------------------
(* Sums over a queue.                                                      *)

\* A set of natural numbers that is not empty has a least element.
LEMMA Least ==
  ASSUME NEW T, T \subseteq Nat, T # {}
  PROVE  \E x \in T : \A y \in T : x <= y
  <1> DEFINE R == OpToRel(<, Nat)
  <1>1. IsWellFoundedOn(R, Nat) BY NatLessThanWellFounded
  <1>2. \A x, y \in Nat : y < x => <<y, x>> \in R BY DEF OpToRel
  <1> HIDE DEF R
  <1>3. PICK x \in T : \A y \in T : ~ (<<y, x>> \in R) BY <1>1, WFMin
  <1>4. ASSUME NEW y \in T PROVE x <= y
    <2>1. x \in Nat /\ y \in Nat BY <1>3
    <2>2. ~ (y < x) BY <1>2, <1>3, <2>1
    <2> QED BY <2>1, <2>2
  <1> QED BY <1>3, <1>4

\* f gives the sums of the first elements of w, up to n of them.
Sums(f, w, n) == f = [i \in 0..n |-> IF i = 0 THEN 0 ELSE f[i - 1] + w[i]]

\* There are such sums.
LEMMA SumsExist ==
  ASSUME NEW w \in [Nat -> Nat], NEW n \in Nat
  PROVE  \E f \in [0..n -> Nat] : Sums(f, w, n)
  <1> DEFINE P(m) == \E f \in [0..m -> Nat] : Sums(f, w, m)
             T == {m \in Nat : ~ P(m)}
  <1>1. P(0)
    <2> DEFINE z == [i \in 0..0 |-> 0]
    <2>1. z \in [0..0 -> Nat] /\ Sums(z, w, 0) BY DEF Sums
    <2> QED BY <2>1
  <1>2. ASSUME NEW m \in Nat, P(m) PROVE P(m + 1)
    <2>1. PICK f \in [0..m -> Nat] : Sums(f, w, m) BY <1>2
    <2> DEFINE g == [i \in 0..m + 1 |-> IF i = m + 1 THEN f[m] + w[m + 1] ELSE f[i]]
    <2>2. g \in [0..m + 1 -> Nat]
      <3>1. m \in 0..m /\ m + 1 \in Nat OBVIOUS
      <3>2. f[m] + w[m + 1] \in Nat
        <4>1. f[m] \in Nat /\ w[m + 1] \in Nat BY <3>1
        <4>2. \A a, b \in Nat : a + b \in Nat OBVIOUS
        <4> QED BY <4>1, <4>2, Zenon
      <3>3. \A i \in 0..m + 1 : i # m + 1 => i \in 0..m OBVIOUS
      <3> QED BY <3>2, <3>3
    <2>3. ASSUME NEW i \in 0..m + 1
          PROVE  g[i] = IF i = 0 THEN 0 ELSE g[i - 1] + w[i]
      <3>0. m \in 0..m + 1 /\ m # m + 1 OBVIOUS
      <3>1. CASE i = m + 1
        <4>1. i # 0 /\ i - 1 = m BY <3>1
        <4>2. g[i - 1] = f[m] BY <3>0, <4>1
        <4> QED BY <3>1, <4>1, <4>2
      <3>2. CASE i \in 0..m
        <4>1. f[i] = IF i = 0 THEN 0 ELSE f[i - 1] + w[i] BY <2>1, <3>2 DEF Sums
        <4>2. g[i] = f[i] BY <3>2
        <4>3. CASE i = 0 BY <4>1, <4>2, <4>3
        <4>4. CASE i # 0
          <5>1. i - 1 \in 0..m + 1 /\ i - 1 # m + 1 BY <3>2, <4>4
          <5>2. g[i - 1] = f[i - 1] BY <5>1
          <5> QED BY <4>1, <4>2, <4>4, <5>2
        <4> QED BY <4>3, <4>4
      <3>3. i = m + 1 \/ i \in 0..m OBVIOUS
      <3> QED BY <3>1, <3>2, <3>3
    <2>4. Sums(g, w, m + 1) BY <2>2, <2>3 DEF Sums
    <2> HIDE DEF g
    <2> QED BY <2>2, <2>4
  <1> HIDE DEF P
  <1>3. CASE T # {}
    <2>1. PICK m \in T : \A y \in T : m <= y BY <1>3, Least
    <2>2. m # 0 BY <1>1, <2>1
    <2>3. m - 1 \in Nat /\ m - 1 \notin T BY <2>1, <2>2
    <2>4. P(m - 1) BY <2>3
    <2>5. P((m - 1) + 1) BY <1>2, <2>3, <2>4
    <2> QED BY <2>1, <2>5
  <1>4. CASE T = {} BY <1>4 DEF P
  <1> QED BY <1>3, <1>4

\* Sums are natural numbers.
LEMMA SumsAreNat ==
  ASSUME NEW w \in [Nat -> Nat], NEW n \in Nat, NEW f, Sums(f, w, n)
  PROVE  f \in [0..n -> Nat]
  <1> DEFINE T == {i \in 0..n : f[i] \notin Nat}
  <1>1. 0 \notin T
    <2>1. 0 \in 0..n OBVIOUS
    <2> QED BY <2>1 DEF Sums
  <1>2. ASSUME NEW i \in 0..n, i # 0, i - 1 \notin T PROVE i \notin T
    <2>1. i - 1 \in 0..n /\ i \in Nat BY <1>2
    <2>2. f[i] = f[i - 1] + w[i] BY <1>2 DEF Sums
    <2>3. f[i - 1] \in Nat /\ w[i] \in Nat BY <1>2, <2>1
    <2> QED BY <2>2, <2>3
  <1>3. T \subseteq Nat OBVIOUS
  <1>4. T \subseteq 0..n OBVIOUS
  <1>5. T = {} => \A i \in 0..n : f[i] \in Nat OBVIOUS
  <1>6. T = {}
    <2> HIDE DEF T
    <2> SUFFICES ASSUME T # {} PROVE FALSE OBVIOUS
    <2>1. PICK i \in T : \A y \in T : i <= y BY <1>3, Least
    <2>2. i \in 0..n /\ i # 0 BY <1>1, <1>4, <2>1
    <2>3. i - 1 \notin T BY <1>4, <2>1, <2>2
    <2> QED BY <1>2, <2>1, <2>2, <2>3
  <1> HIDE DEF T
  <1>7. f = [i \in 0..n |-> f[i]] BY DEF Sums
  <1> QED BY <1>5, <1>6, <1>7

\* f sums w and g sums v; from s on, w has the first k elements of v.
Shifted(f, w, n, g, v, m, s, k) ==
    /\ n \in Nat /\ m \in Nat /\ s \in Nat /\ k \in Nat /\ k <= m /\ k + s <= n
    /\ w \in [Nat -> Nat] /\ v \in [Nat -> Nat]
    /\ f \in [0..n -> Nat] /\ g \in [0..m -> Nat] /\ Sums(f, w, n) /\ Sums(g, v, m)
    /\ \A i \in 1..k : w[i + s] = v[i]

\* From s on, f is g with a constant added, up to the k-th sum.
Lifted(f, g, s, k) == f[k + s] = g[k] + f[s]

\* Sums of the same elements, counted from another place, differ by what is before it.
LEMMA SumsShift ==
  ASSUME NEW f, NEW w, NEW n, NEW g, NEW v, NEW m, NEW s, NEW k,
         Shifted(f, w, n, g, v, m, s, k)
  PROVE  Lifted(f, g, s, k)
  <1>1. /\ n \in Nat /\ m \in Nat /\ s \in Nat /\ k \in Nat /\ k <= m /\ k + s <= n
        /\ w \in [Nat -> Nat] /\ v \in [Nat -> Nat]
        /\ f \in [0..n -> Nat] /\ g \in [0..m -> Nat] /\ Sums(f, w, n) /\ Sums(g, v, m)
        /\ \A i \in 1..k : w[i + s] = v[i]
    BY DEF Shifted
  <1>2. 0 \in 0..m /\ 0 + s = s /\ s \in 0..n BY <1>1
  <1> DEFINE T == {i \in 0..k : f[i + s] # g[i] + f[s]}
  <1>3. 0 \notin T
    <2>1. g[0] = 0 /\ f[s] \in Nat BY <1>1, <1>2 DEF Sums
    <2>2. f[0 + s] = g[0] + f[s] BY <1>2, <2>1
    <2> QED BY <2>2
  <1>4. ASSUME NEW i \in 0..k, i + 1 <= k, i \notin T PROVE i + 1 \notin T
    <2>1. f[i + s] = g[i] + f[s] BY <1>4
    <2>2. i \in 0..m /\ i + 1 \in Nat /\ i + 1 \in 1..k BY <1>1, <1>4
    <2>3. g[i] \in Nat /\ v[i + 1] \in Nat /\ f[s] \in Nat BY <1>1, <1>2, <2>2
    <2>4. i + 1 + s \in 0..n /\ i + 1 + s # 0 /\ (i + 1 + s) - 1 = i + s BY <1>1, <1>4
    <2>5. f[i + 1 + s] = f[i + s] + w[i + 1 + s] BY <1>1, <2>4 DEF Sums
    <2>6. i + 1 \in 0..m /\ i + 1 # 0 /\ (i + 1) - 1 = i BY <1>1, <1>4
    <2>7. g[i + 1] = g[i] + v[i + 1] BY <1>1, <2>6 DEF Sums
    <2>8. w[i + 1 + s] = v[i + 1] BY <1>1, <2>2
    <2>9. f[i + 1 + s] = (g[i] + f[s]) + v[i + 1] BY <2>1, <2>5, <2>8, Zenon
    <2>10. g[i + 1] + f[s] = (g[i] + v[i + 1]) + f[s] BY <2>7, Zenon
    <2>11. \A a, b, c \in Nat : (a + c) + b = (a + b) + c OBVIOUS
    <2>12. f[i + 1 + s] = g[i + 1] + f[s] BY <2>3, <2>9, <2>10, <2>11, Zenon
    <2> QED BY <2>12
  <1>5. T \subseteq Nat /\ T \subseteq 0..k OBVIOUS
  <1>6. T = {}
    <2> HIDE DEF T
    <2> SUFFICES ASSUME T # {} PROVE FALSE OBVIOUS
    <2>1. PICK i \in T : \A y \in T : i <= y BY <1>5, Least
    <2>2. i \in 0..k /\ i # 0 BY <1>3, <1>5, <2>1
    <2>3. i - 1 \in 0..k /\ (i - 1) + 1 = i /\ (i - 1) + 1 <= k BY <1>1, <2>2
    <2>4. i - 1 \notin T BY <2>1, <2>2, <2>3
    <2>5. (i - 1) + 1 \notin T BY <1>4, <2>3, <2>4
    <2> QED BY <2>1, <2>3, <2>5
  <1>7. k \in 0..k BY <1>1
  <1> QED BY <1>6, <1>7 DEF Lifted

\* The first sum is that of nothing, the second is the first element.
LEMMA SumsStart ==
  ASSUME NEW n \in Nat, NEW w \in [Nat -> Nat], NEW f, Sums(f, w, n)
  PROVE  f[0] = 0 /\ (n > 0 => f[1] = w[1])
  <1>1. 0 \in 0..n /\ (n > 0 => 1 \in 0..n /\ 1 # 0 /\ 1 - 1 = 0) OBVIOUS
  <1>2. f[0] = 0 BY <1>1 DEF Sums
  <1>3. n > 0 => f[1] = f[0] + w[1] BY <1>1 DEF Sums
  <1>4. w[1] \in Nat OBVIOUS
  <1> QED BY <1>2, <1>3, <1>4

\* The packets of a queue have been published.
Published(q, l) == q \in Seq(Nat) /\ \A i \in 1..Len(q) : q[i] \in 1..Len(l)
\* Their sizes, and the total of Engine for any log.
Sizes(q, l) == [i \in Nat |-> IF i \in 1..Len(q) THEN Size[l[q[i]]] ELSE 0]
TotalOf(q, l) == LET t[i \in 0..Len(q)] == IF i = 0 THEN 0 ELSE t[i - 1] + Size[l[q[i]]]
                 IN  t[Len(q)]

\* The total is the last of the sums.
LEMMA TotalIs ==
  ASSUME EngineAssumption, NEW l \in Seq(Kinds), NEW q, Published(q, l)
  PROVE  /\ Sizes(q, l) \in [Nat -> Nat]
         /\ \E f \in [0..Len(q) -> Nat] : Sums(f, Sizes(q, l), Len(q)) /\ f[Len(q)] = TotalOf(q, l)
  <1> DEFINE n == Len(q)
             w == Sizes(q, l)
  <1>0. n \in Nat BY DEF Published
  <1>1. w \in [Nat -> Nat]
    <2>1. \A i \in 1..Len(q) : Size[l[q[i]]] \in Nat BY DEF EngineAssumption, Published
    <2> QED BY <2>1 DEF Sizes
  <1>2. \A i \in 0..n : i # 0 => w[i] = Size[l[q[i]]] BY <1>0 DEF Sizes
  <1>3. PICK f \in [0..n -> Nat] : Sums(f, w, n) BY <1>0, <1>1, SumsExist
  <1> HIDE DEF w
  <1>4. f = [i \in 0..Len(q) |-> IF i = 0 THEN 0 ELSE f[i - 1] + Size[l[q[i]]]]
    BY <1>2, <1>3 DEF Sums
  <1> DEFINE t == CHOOSE g : g = [i \in 0..Len(q) |-> IF i = 0 THEN 0 ELSE g[i - 1] + Size[l[q[i]]]]
  <1>5. t = [i \in 0..Len(q) |-> IF i = 0 THEN 0 ELSE t[i - 1] + Size[l[q[i]]]] BY <1>4
  <1>6. TotalOf(q, l) = t[Len(q)] BY DEF TotalOf
  <1> HIDE DEF t
  <1>7. Sums(t, w, n) BY <1>2, <1>5 DEF Sums
  <1>8. t \in [0..n -> Nat] BY <1>0, <1>1, <1>7, SumsAreNat
  <1> QED BY <1>1, <1>6, <1>7, <1>8 DEF w

\* Nothing weighs nothing.
LEMMA TotalEmpty ==
  ASSUME EngineAssumption, NEW l \in Seq(Kinds)
  PROVE  Published(<<>>, l) /\ TotalOf(<<>>, l) = 0
  <1>1. Published(<<>>, l) BY DEF Published
  <1>2. PICK f \in [0..Len(<<>>) -> Nat] :
             Sums(f, Sizes(<<>>, l), Len(<<>>)) /\ f[Len(<<>>)] = TotalOf(<<>>, l)
    BY <1>1, TotalIs
  <1>3. Len(<<>>) = 0 /\ 0 \in 0..0 OBVIOUS
  <1>4. f[0] = 0 BY <1>2, <1>3 DEF Sums
  <1> QED BY <1>1, <1>2, <1>3, <1>4

\* A total does not change when more is published.
LEMMA TotalKept ==
  ASSUME EngineAssumption, NEW l \in Seq(Kinds), NEW q, Published(q, l), NEW k \in Kinds
  PROVE  Published(q, Append(l, k)) /\ TotalOf(q, Append(l, k)) = TotalOf(q, l)
  <1> DEFINE m == Append(l, k)
  <1>1. m \in Seq(Kinds) /\ \A i \in 1..Len(l) : i \in 1..Len(m) /\ m[i] = l[i] OBVIOUS
  <1> HIDE DEF m
  <1>2. Published(q, m) BY <1>1 DEF Published
  <1>3. \A i \in 1..Len(q) : q[i] \in 1..Len(l) BY DEF Published
  <1>4. Sizes(q, m) = Sizes(q, l) BY <1>1, <1>3 DEF Sizes
  <1>5. PICK f \in [0..Len(q) -> Nat] : Sums(f, Sizes(q, l), Len(q)) /\ f[Len(q)] = TotalOf(q, l)
    BY TotalIs
  <1>6. PICK g \in [0..Len(q) -> Nat] : Sums(g, Sizes(q, m), Len(q)) /\ g[Len(q)] = TotalOf(q, m)
    BY <1>1, <1>2, TotalIs
  <1>7. Len(q) \in Nat BY DEF Published
  <1>8. Sizes(q, l) \in [Nat -> Nat] BY TotalIs, Zenon
  <1>9. f[Len(q)] = g[Len(q)]
    <2> DEFINE w == Sizes(q, l)
               n == Len(q)
    <2>1. /\ n \in Nat /\ w \in [Nat -> Nat] /\ Sums(f, w, n) /\ Sums(g, w, n)
          /\ f \in [0..n -> Nat] /\ g \in [0..n -> Nat]
      BY <1>4, <1>5, <1>6, <1>7, <1>8, Zenon
    <2> HIDE DEF w, n
    <2>2. /\ 0 \in Nat /\ n <= n /\ n + 0 <= n /\ n + 0 = n /\ n \in 0..n
          /\ \A i \in 1..n : w[i + 0] = w[i]
      BY <2>1
    <2>3. Shifted(f, w, n, g, w, n, 0, n) BY <2>1, <2>2, Zenon DEF Shifted
    <2>4. Lifted(f, g, 0, n) BY <2>3, SumsShift, Zenon
    <2>5. f[0] = 0 BY <2>1, SumsStart
    <2>6. g[n] \in Nat BY <2>1, <2>2
    <2>7. f[n] = g[n] BY <2>2, <2>4, <2>5, <2>6 DEF Lifted
    <2> QED BY <2>7 DEF n
  <1> QED BY <1>2, <1>5, <1>6, <1>9 DEF m

\* Appending the packet that is published adds its size.
LEMMA TotalAppend ==
  ASSUME EngineAssumption, NEW l \in Seq(Kinds), NEW q, Published(q, l), NEW k \in Kinds
  PROVE  /\ Published(Append(q, Len(l) + 1), Append(l, k))
         /\ TotalOf(Append(q, Len(l) + 1), Append(l, k)) = TotalOf(q, l) + Size[k]
  <1> DEFINE m == Append(l, k)
             p == Append(q, Len(l) + 1)
             n == Len(q)
  <1>0. q \in Seq(Nat) /\ n \in Nat BY DEF Published
  <1>1. /\ m \in Seq(Kinds) /\ Len(m) = Len(l) + 1 /\ m[Len(l) + 1] = k
        /\ \A i \in 1..Len(l) : m[i] = l[i]
    OBVIOUS
  <1>2. /\ p \in Seq(Nat) /\ Len(p) = n + 1 /\ p[n + 1] = Len(l) + 1
        /\ \A i \in 1..n : p[i] = q[i]
    BY <1>0
  <1> HIDE DEF m, p, n
  <1>3. \A i \in 1..n : q[i] \in 1..Len(l) BY DEF Published, n
  <1>4. Len(l) \in Nat OBVIOUS
  <1>5. Published(p, m)
    <2>1. ASSUME NEW i \in 1..n + 1 PROVE p[i] \in 1..Len(l) + 1
      <3>1. i \in 1..n \/ i = n + 1 BY <1>0
      <3> QED BY <1>2, <1>3, <1>4, <3>1
    <2> QED BY <1>1, <1>2, <2>1 DEF Published
  <1>6. ASSUME NEW i \in 1..n PROVE Sizes(p, m)[i] = Sizes(q, l)[i]
    <2>1. i \in Nat /\ i \in 1..Len(p) /\ i \in 1..Len(q)
      BY <1>0, <1>2 DEF n
    <2>2. m[p[i]] = l[q[i]] BY <1>1, <1>2, <1>3
    <2> QED BY <2>1, <2>2 DEF Sizes
  <1>7. Sizes(p, m)[n + 1] = Size[k]
    <2>1. n + 1 \in Nat /\ n + 1 \in 1..Len(p) BY <1>0, <1>2
    <2> QED BY <1>1, <1>2, <2>1 DEF Sizes
  <1>8. PICK f \in [0..n -> Nat] : Sums(f, Sizes(q, l), n) /\ f[n] = TotalOf(q, l)
    BY TotalIs DEF n
  <1>9. PICK g \in [0..n + 1 -> Nat] : Sums(g, Sizes(p, m), n + 1) /\ g[n + 1] = TotalOf(p, m)
    BY <1>1, <1>2, <1>5, TotalIs
  <1>10. g[n] = f[n]
    <2>1. Sizes(q, l) \in [Nat -> Nat] /\ Sizes(p, m) \in [Nat -> Nat]
      BY <1>1, <1>5, TotalIs
    <2>2. /\ n + 1 \in Nat /\ 0 \in Nat /\ n <= n /\ n + 0 = n /\ n + 0 <= n + 1
          /\ n \in 0..n /\ \A i \in 1..n : i + 0 = i
      BY <1>0
    <2>3. \A i \in 1..n : Sizes(p, m)[i + 0] = Sizes(q, l)[i] BY <1>6, <2>2
    <2>4. Shifted(g, Sizes(p, m), n + 1, f, Sizes(q, l), n, 0, n)
      BY <1>0, <1>8, <1>9, <2>1, <2>2, <2>3, Zenon DEF Shifted
    <2>5. Lifted(g, f, 0, n) BY <2>4, SumsShift, Zenon
    <2>6. g[0] = 0 BY <1>9, <2>1, <2>2, SumsStart
    <2>7. f[n] \in Nat BY <1>8, <2>2
    <2> QED BY <2>2, <2>5, <2>6, <2>7 DEF Lifted
  <1>11. g[n] = f[n] /\ f[n] \in Nat BY <1>0, <1>8, <1>10
  <1>12. g[n + 1] = g[n] + Sizes(p, m)[n + 1]
    <2>1. n + 1 \in 0..n + 1 /\ n + 1 # 0 /\ (n + 1) - 1 = n BY <1>0
    <2> QED BY <1>9, <2>1 DEF Sums
  <1>13. TotalOf(p, m) = TotalOf(q, l) + Size[k] BY <1>7, <1>8, <1>9, <1>11, <1>12
  <1> QED BY <1>5, <1>13 DEF m, p

\* Taking the head gives its size back; no more than the total is given back.
LEMMA TotalTail ==
  ASSUME EngineAssumption, NEW l \in Seq(Kinds), NEW q, Published(q, l), q # <<>>
  PROVE  /\ Published(Tail(q), l) /\ TotalOf(Tail(q), l) \in Nat
         /\ TotalOf(q, l) = TotalOf(Tail(q), l) + Size[l[Head(q)]]
  <1> DEFINE p == Tail(q)
             n == Len(p)
  <1>0. q \in Seq(Nat) BY DEF Published
  <1>1. /\ p \in Seq(Nat) /\ n \in Nat /\ Len(q) = n + 1 /\ Head(q) = q[1]
        /\ \A i \in 1..n : p[i] = q[i + 1]
    BY <1>0
  <1> HIDE DEF p, n
  <1>2. \A i \in 1..n + 1 : q[i] \in 1..Len(l) BY <1>1 DEF Published
  <1>3. Published(p, l)
    <2>1. \A i \in 1..n : i + 1 \in 1..n + 1 BY <1>1
    <2> QED BY <1>1, <1>2, <2>1 DEF Published, n
  <1>4. ASSUME NEW i \in 1..n PROVE Sizes(q, l)[i + 1] = Sizes(p, l)[i]
    <2>1. i \in Nat /\ i + 1 \in Nat /\ i + 1 \in 1..Len(q) /\ i \in 1..Len(p)
      BY <1>1 DEF n
    <2> QED BY <1>1, <2>1 DEF Sizes
  <1>5. Sizes(q, l)[1] = Size[l[Head(q)]] /\ Size[l[Head(q)]] \in Nat
    <2>1. 1 \in Nat /\ 1 \in 1..Len(q) /\ 1 \in 1..n + 1 BY <1>1
    <2>2. q[1] \in 1..Len(l) BY <1>2, <2>1
    <2> QED BY <1>1, <2>1, <2>2 DEF Sizes, EngineAssumption
  <1>6. PICK f \in [0..n + 1 -> Nat] : Sums(f, Sizes(q, l), n + 1) /\ f[n + 1] = TotalOf(q, l)
    BY <1>1, TotalIs
  <1>7. PICK g \in [0..n -> Nat] : Sums(g, Sizes(p, l), n) /\ g[n] = TotalOf(p, l)
    BY <1>3, TotalIs DEF n
  <1>8. Sizes(q, l) \in [Nat -> Nat] /\ Sizes(p, l) \in [Nat -> Nat] BY <1>3, TotalIs
  <1>9. f[n + 1] = g[n] + Sizes(q, l)[1]
    <2>1. n + 1 \in Nat /\ n + 1 > 0 /\ 1 \in Nat /\ n <= n /\ n + 1 <= n + 1 BY <1>1
    <2>2. Shifted(f, Sizes(q, l), n + 1, g, Sizes(p, l), n, 1, n)
      BY <1>1, <1>4, <1>6, <1>7, <1>8, <2>1, Zenon DEF Shifted
    <2>3. Lifted(f, g, 1, n) BY <2>2, SumsShift, Zenon
    <2>4. f[1] = Sizes(q, l)[1]
      <3>1. 0 \in 0..n + 1 /\ 1 \in 0..n + 1 /\ 1 # 0 /\ 1 - 1 = 0 BY <1>1
      <3>2. f[0] = 0 /\ f[1] = f[0] + Sizes(q, l)[1] BY <1>6, <3>1 DEF Sums
      <3> QED BY <1>5, <3>2
    <2> QED BY <2>3, <2>4 DEF Lifted
  <1>10. g[n] \in Nat BY <1>1, <1>7
  <1> QED BY <1>3, <1>5, <1>6, <1>7, <1>9, <1>10 DEF p

-----------------------------------------------------------------------------
(* The limits and the byte counts of the queues.                           *)

\* A subscription counts the bytes of what it holds, within the limits.
Counted(s, l) ==
    /\ Published(s.queue, l) /\ Len(s.queue) <= QueueLimit
    /\ s.bytes \in Nat /\ s.bytes <= ByteLimit /\ s.bytes = TotalOf(s.queue, l)

\* A reader that holds nothing counts nothing.
LEMMA NothingCounted ==
  ASSUME EngineAssumption, log \in Seq(Kinds)
  PROVE  Counted(NoSub, log) /\ Counted(Subscribed, log)
  <1>1. NoSub.queue = <<>> /\ NoSub.bytes = 0 BY DEF NoSub
  <1>2. Subscribed.queue = <<>> /\ Subscribed.bytes = 0 BY DEF Subscribed, NoSub
  <1>3. Published(<<>>, log) /\ TotalOf(<<>>, log) = 0 BY TotalEmpty
  <1>4. Len(<<>>) = 0 /\ 0 <= QueueLimit /\ 0 <= ByteLimit BY DEF EngineAssumption
  <1> QED BY <1>1, <1>2, <1>3, <1>4 DEF Counted

\* Closing changes nothing that is counted.
LEMMA ClosedCounted ==
  ASSUME NEW s \in SubShape, Counted(s, log)
  PROVE  Counted(Closed(s), log)
  <1>1. /\ [s EXCEPT !.closed = TRUE].queue = s.queue
        /\ [s EXCEPT !.closed = TRUE].bytes = s.bytes
    BY DEF SubShape
  <1>2. Closed(s).queue = s.queue /\ Closed(s).bytes = s.bytes BY <1>1 DEF Closed
  <1> QED BY <1>2 DEF Counted

\* A packet is added, with its size, only where there is room for both.
LEMMA PushedCounted ==
  ASSUME EngineAssumption, log \in Seq(Kinds), NEW k \in Kinds, NEW s \in SubShape,
         Counted(s, log)
  PROVE  Counted(Pushed(s, k), Append(log, k))
  <1> DEFINE l == Append(log, k)
             p == Append(s.queue, Len(log) + 1)
  <1>1. /\ Published(s.queue, log) /\ Len(s.queue) <= QueueLimit
        /\ s.bytes \in Nat /\ s.bytes <= ByteLimit /\ s.bytes = TotalOf(s.queue, log)
    BY DEF Counted
  <1>2. Published(s.queue, l) /\ TotalOf(s.queue, l) = s.bytes BY <1>1, TotalKept
  <1>3. Published(p, l) /\ TotalOf(p, l) = s.bytes + Size[k] BY <1>1, TotalAppend
  <1>4. Size[k] \in Nat /\ QueueLimit \in Nat /\ ByteLimit \in Nat BY DEF EngineAssumption
  <1>5. Len(p) = Len(s.queue) + 1 /\ Len(s.queue) \in Nat BY DEF SubShape
  <1> HIDE DEF l, p
  <1>6. ASSUME NEW t, t.queue = s.queue, t.bytes = s.bytes PROVE Counted(t, l)
    BY <1>1, <1>2, <1>6 DEF Counted
  <1>7. ASSUME NEW t, t.queue = p, t.bytes = s.bytes + Size[k], ~Overflows(s, k)
        PROVE  Counted(t, l)
    <2>1. Len(s.queue) < QueueLimit /\ s.bytes + Size[k] <= ByteLimit
      BY <1>1, <1>4, <1>5, <1>7 DEF Overflows
    <2>2. Len(p) <= QueueLimit /\ s.bytes + Size[k] \in Nat BY <1>1, <1>4, <1>5, <2>1
    <2> QED BY <1>3, <1>7, <2>1, <2>2 DEF Counted
  <1> DEFINE e == [s EXCEPT !.waiting = FALSE, !.error = TRUE, !.closed = TRUE]
             t == [s EXCEPT !.waiting = FALSE, !.queue = Append(@, Len(log) + 1),
                            !.bytes = @ + Size[k]]
  <1>8. e.queue = s.queue /\ e.bytes = s.bytes BY DEF SubShape
  <1>9. t.queue = p /\ t.bytes = s.bytes + Size[k] BY DEF SubShape, p
  <1>10. \/ Pushed(s, k) = s \/ Pushed(s, k) = e
         \/ Pushed(s, k) = t /\ ~Overflows(s, k)
    BY Zenon DEF Pushed
  <1> HIDE DEF e, t
  <1>11. Counted(s, l) /\ Counted(e, l) BY <1>6, <1>8
  <1>12. ~Overflows(s, k) => Counted(t, l) BY <1>7, <1>9
  <1>13. Counted(Pushed(s, k), l) BY <1>10, <1>11, <1>12
  <1> QED BY <1>13 DEF l

\* A packet is taken with its size.
LEMMA PoppedCounted ==
  ASSUME EngineAssumption, log \in Seq(Kinds), NEW s \in SubShape, Counted(s, log),
         s.queue # <<>>
  PROVE  Counted(Popped(s), log)
  <1>1. /\ Published(s.queue, log) /\ Len(s.queue) <= QueueLimit
        /\ s.bytes \in Nat /\ s.bytes <= ByteLimit /\ s.bytes = TotalOf(s.queue, log)
    BY DEF Counted
  <1> DEFINE p == Tail(s.queue)
             z == Size[log[Head(s.queue)]]
  <1>2. /\ Published(p, log) /\ TotalOf(p, log) \in Nat /\ s.bytes = TotalOf(p, log) + z
    BY <1>1, TotalTail
  <1>3. s.queue \in Seq(Nat) BY DEF SubShape
  <1>4. Len(p) <= Len(s.queue) /\ Len(p) \in Nat /\ Len(s.queue) \in Nat BY <1>3
  <1>5. Head(s.queue) = s.queue[1] /\ 1 \in 1..Len(s.queue) BY <1>3
  <1>6. z \in Nat BY <1>1, <1>5 DEF Published, EngineAssumption
  <1>7. Popped(s).queue = p /\ Popped(s).bytes = s.bytes - z BY DEF Popped, SubShape
  <1> HIDE DEF p, z
  <1>8. s.bytes - z = TotalOf(p, log) /\ s.bytes - z <= ByteLimit
    BY <1>1, <1>2, <1>6 DEF EngineAssumption
  <1>9. Len(p) <= QueueLimit BY <1>1, <1>4 DEF EngineAssumption
  <1> QED BY <1>2, <1>7, <1>8, <1>9 DEF Counted

AllCounted == \A x \in Readers : Counted(sub[x], log)

\* Every step keeps the counts.
LEMMA CountedStep ==
  ASSUME EngineAssumption, QueueShape, ThreadShape, FeedInv, AllCounted, [Next]_vars
  PROVE  AllCounted'
  <1>0. /\ log \in Seq(Kinds) /\ DOMAIN sub = Readers
        /\ \A x \in Readers : sub[x] \in SubShape /\ Counted(sub[x], log)
    BY DEF QueueShape, AllCounted
  <1>1. ASSUME NEW p \in Producers, NEW k \in Kinds, Publish(p, k) PROVE AllCounted'
    <2>1. log' = Append(log, k) /\ \A x \in Readers : sub'[x] = Pushed(sub[x], k)
      BY <1>1 DEF Publish
    <2>2. ASSUME NEW x \in Readers PROVE Counted(sub'[x], log')
      BY <1>0, <2>1, PushedCounted
    <2> QED BY <2>2 DEF AllCounted, Counted, Published, TotalOf
  <1>2. ASSUME log' = log, \A x \in Readers : Counted(sub'[x], log) PROVE AllCounted'
    <2>1. \A x \in Readers : Counted(sub'[x], log') BY <1>2
    <2> QED BY <2>1 DEF AllCounted, Counted, Published, TotalOf
  <1>3. CASE log' = log /\ Takes
    <2>1. PICK y \in Readers : Readable(sub[y]) /\ sub' = [sub EXCEPT ![y] = Popped(@)]
      BY <1>3 DEF Takes
    <2>2. sub'[y] = Popped(sub[y]) /\ \A x \in Readers \ {y} : sub'[x] = sub[x]
      BY <1>0, <2>1
    <2>3. Counted(Popped(sub[y]), log) BY <1>0, <2>1, PoppedCounted DEF Readable
    <2> QED BY <1>0, <1>2, <1>3, <2>2, <2>3
  <1>4. CASE log' = log /\ Opens
    <2>1. PICK y \in Readers : sub' = [sub EXCEPT ![y] = Subscribed] BY <1>4 DEF Opens
    <2>2. sub'[y] = Subscribed /\ \A x \in Readers \ {y} : sub'[x] = sub[x]
      BY <1>0, <2>1
    <2>3. Counted(Subscribed, log) BY <1>0, NothingCounted
    <2> QED BY <1>0, <1>2, <1>4, <2>2, <2>3
  <1>5. CASE log' = log /\ Cuts
    <2>1. ASSUME NEW x \in Readers PROVE Counted(sub'[x], log)
      <3>1. sub'[x] \in {sub[x], Closed(sub[x]), NoSub} BY <1>5 DEF Cuts
      <3> QED BY <1>0, <3>1, ClosedCounted, NothingCounted
    <2> QED BY <1>2, <1>5, <2>1
  <1>6. FeedInv => Attached BY DEF FeedInv
  <1> QED BY <1>1, <1>3, <1>4, <1>5, <1>6, StepKinds

\* What is counted of a subscription gives it its type.
LEMMA CountedType ==
  ASSUME NEW s \in SubShape, NEW l \in Seq(Kinds), Counted(s, l)
  PROVE  s \in Sub
  <1>1. s.queue \in Seq(Nat) /\ \A i \in 1..Len(s.queue) : s.queue[i] \in Nat \ {0}
    <2>1. \A i \in 1..Len(s.queue) : s.queue[i] \in 1..Len(l) BY DEF Counted, Published
    <2> QED BY <2>1 DEF SubShape
  <1>2. s.queue \in Seq(Nat \ {0}) BY <1>1, SMTT(30)
  <1>3. s.bytes \in Nat BY DEF Counted
  <1> QED BY <1>2, <1>3 DEF SubShape, Sub

\* The queues of a media process keep their limits, and the byte count of each,
\* which is unsigned in the code, is that of the packets in it: it is never taken
\* below zero, whichever two threads publish and take.
THEOREM QueuesKeptProved == Spec => []QueuesKept
  <1> USE EngineAssumption
  <1> DEFINE Inv == QueueShape /\ ThreadShape /\ EngineInv /\ FeedInv
  <1>1. Init => AllCounted
    <2> SUFFICES ASSUME Init PROVE AllCounted OBVIOUS
    <2>1. log \in Seq(Kinds) /\ \A x \in Readers : sub[x] = NoSub BY DEF Init
    <2> QED BY <2>1, NothingCounted DEF AllCounted
  <1>2. Inv /\ AllCounted /\ [Next]_vars => AllCounted' BY CountedStep
  <1>3. Inv /\ AllCounted => QueuesKept
    <2> SUFFICES ASSUME Inv, AllCounted PROVE QueuesKept OBVIOUS
    <2>1. \A x \in Readers : sub[x] \in Sub BY CountedType DEF AllCounted, QueueShape
    <2>2. sub \in [Readers -> Sub] BY <2>1 DEF QueueShape
    <2>3. TypeOK BY <2>2 DEF TypeOK, QueueShape, ThreadShape
    <2>4. \A x \in Readers : TotalOf(sub[x].queue, log) = Total(sub[x].queue)
      BY DEF TotalOf, Total
    <2>5. Accounted BY <2>4 DEF AllCounted, Counted, Accounted
    <2> QED BY <2>3, <2>5 DEF QueuesKept
  <1>4. Spec => []Inv BY FeedsKept
  <1> HIDE DEF Inv
  <1> QED BY <1>1, <1>2, <1>3, <1>4, PTL DEF Spec
==============================================================================
