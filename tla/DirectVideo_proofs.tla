------------------------- MODULE DirectVideo_proofs -------------------------
(***************************************************************************)
(* What a direct video promises its controller and its TV, for a first     *)
(* segment of any length and any number of remembered ranges: served media *)
(* are kept while the TV may fetch them, callers are told the truth, and   *)
(* the session is itself a resource in the sense of module Owned.          *)
(***************************************************************************)
EXTENDS DirectVideo, TLAPS

\* How far _cleanup has come.
PastTasks == sclose \in {"player", "origin", "producer", "done"}
PastPlayer == sclose \in {"origin", "producer", "done"}
PastOrigin == sclose \in {"producer", "done"}

\* A resource that was not started has nothing and was not closed; one that is closed was
\* asked to, and has nothing.
Sound(q) ==
    /\ q.st = "new" => ~q.held /\ ~q.asked /\ ~q.failed /\ q.closed = "no"
    /\ q.closed # "no" => q.asked /\ ~q.held
Resourceful == Sound(producer) /\ Sound(origin) /\ Sound(player)

\* The resources are closed after the tasks that may start them, and one after the other.
InTurn ==
    /\ PastTasks => Ended(ptask) /\ Ended(ctask) /\ prepare # "wait" /\ connect # "wait"
    /\ PastPlayer => Shut(player)
    /\ PastOrigin => Shut(origin)
    /\ sclose = "done" => Shut(producer)
    /\ sclosed <=> sclose = "done"

\* The listener serves what a stream has prepared, which is closed only in its turn.
Serving ==
    /\ origin.st # "new" => producer.st = "up"
    /\ producer.asked /\ producer.st = "up" => PastOrigin

\* Before prepare() there is nothing.
Untouched ==
    /\ sstate = "new" => prepare = "none"
    /\ prepare = "none" =>
        /\ ptask = "none" /\ ctask = "none" /\ sstate \notin {"prepared", "connecting"}
        /\ producer.st = "new" /\ origin.st = "new" /\ player.st = "new"

\* What the state says, and what the callers were told.
Truthful ==
    /\ sstate = "failed" => sclose # "none"
    /\ sclosed => sstate \in {"failed", "completed", "stopped"}
    /\ prepare = "ok" => watch # "none"
    /\ prepare \in Refused => sclosed
    /\ connect \in Refused => sclosed
    /\ Waits(prepare) \/ prepare = "abandoned" => sclose # "none"
    /\ Waits(connect) \/ connect = "abandoned" => sclose # "none"
    /\ "cancelled" \in {prepare, connect} => sstate # "failed"

\* Completed is said once the beginning was sent and the TV connected, and stays true.
Complete ==
    /\ begun => sent = 1..Pieces
    /\ sstate = "completed" =>
         /\ begun /\ connected /\ complete /\ ~producer.failed
         /\ PastPlayer => ~player.failed

IInv == Resourceful /\ InTurn /\ Serving /\ Untouched /\ Truthful /\ Complete

-----------------------------------------------------------------------------
\* What may happen to a resource q in a step of the session or of its own.
Moved(q, p) ==
    \/ p = q
    \/ q.st = "new" /\ ~q.asked /\ p = [q EXCEPT !.st = "starting", !.held = TRUE]
    \/ q.st = "starting" /\ ~q.asked /\ p = [q EXCEPT !.st = "up"]
    \/ q.st = "starting" /\ p = [q EXCEPT !.st = "over"]
    \/ q.st # "new" /\ q.closed = "no" /\ p = [q EXCEPT !.failed = TRUE]
    \/ q.st # "new" /\ p = [q EXCEPT !.asked = TRUE]
    \/ q.asked /\ q.closed = "no" /\ \E c \in {"clean", "raised"} :
          p = [q EXCEPT !.held = FALSE, !.closed = c]

\* What a step of it keeps.
LEMMA MovedKeeps ==
  ASSUME NEW q \in Producer!Resources, NEW p, Moved(q, p), Sound(q)
  PROVE  /\ p \in Producer!Resources /\ Sound(p)
         /\ Shut(q) /\ p.st = q.st => Shut(p)
         /\ q.asked => p.asked
         /\ q.failed => p.failed
         /\ q.st = "up" => p.st = "up"
         /\ q.closed # "no" => p.closed = q.closed /\ p.failed = q.failed
  <1>1. p \in Producer!Resources BY DEF Moved, Producer!Resources
  <1>2. Sound(p) BY DEF Moved, Producer!Resources, Sound
  <1>3. Shut(q) /\ p.st = q.st => Shut(p) BY DEF Moved, Producer!Resources, Sound, Shut
  <1> QED BY <1>1, <1>2, <1>3 DEF Moved, Producer!Resources, Sound

\* The three resources share one set of values.
LEMMA SameShape ==
  /\ Producer!Resources = Origin!Resources /\ Producer!Resources = Player!Resources
  /\ Producer!Fresh \in Producer!Resources
  BY DEF Producer!Resources, Origin!Resources, Player!Resources, Producer!Fresh

\* Nothing else happens to them.
LEMMA StepMoves ==
  ASSUME TypeOK, [Next]_vars
  PROVE  Moved(producer, producer') /\ Moved(origin, origin') /\ Moved(player, player')
  <1> USE DEF Moved
  <1>1. CASE UNCHANGED vars BY <1>1 DEF vars, resources
  <1>2. CASE ResourceStep
    <2>1. CASE ProducerStep
      <3>1. Moved(producer, producer')
        BY <2>1 DEF ProducerStep, Usable, TypeOK, Producer!Resources, Producer!Up, Producer!Over,
           Producer!Ask, Producer!Fails, Producer!Close
      <3> QED BY <2>1, <3>1 DEF ProducerStep
    <2>2. CASE OriginStep
      <3>1. Moved(origin, origin')
        BY <2>2 DEF OriginStep, Origin!Up, Origin!Over, Origin!Ask, Origin!Close
      <3> QED BY <2>2, <3>1 DEF OriginStep
    <2>3. CASE PlayerStep
      <3>1. Moved(player, player')
        BY <2>3 DEF PlayerStep, Player!Up, Player!Over, Player!Ask, Player!Fails, Player!Close
      <3> QED BY <2>3, <3>1 DEF PlayerStep
    <2> QED BY <1>2, <2>1, <2>2, <2>3 DEF ResourceStep
  <1>3. CASE SessionOwn
    <2>1. CASE PrepareStarts BY <2>1 DEF PrepareStarts, Producer!Start
    <2>2. CASE ConnectStarts BY <2>2 DEF ConnectStarts, Origin!Start
    <2>3. CASE OriginStarted BY <2>3 DEF OriginStarted, Player!Start
    <2>4. CASE ClosePlayer BY <2>4 DEF ClosePlayer, Player!Ask
    <2>5. CASE CloseOrigin BY <2>5 DEF CloseOrigin, Origin!Ask
    <2>6. CASE CloseProducer BY <2>6 DEF CloseProducer, Producer!Ask
    <2>7. CASE PrepareTaskEnds \/ PrepareGoesOn \/ Raises
      BY <2>7 DEF PrepareTaskEnds, PrepareGoesOn, Raises, resources
    <2>8. CASE PlayerStarted \/ TVReady \/ ConnectUnwound \/ ConnectGoesOn
      BY <2>8 DEF PlayerStarted, TVReady, ConnectUnwound, ConnectGoesOn, resources
    <2>9. CASE Monitor \/ Cancels \/ Closed BY <2>9 DEF Monitor, Cancels, Closed, resources
    <2> QED BY <1>3, <2>1, <2>2, <2>3, <2>4, <2>5, <2>6, <2>7, <2>8, <2>9 DEF SessionOwn
  <1>4. CASE Prepare \/ Connect \/ Abandons \/ Close \/ Accept \/ Request
    BY <1>4 DEF Prepare, Connect, Abandons, Close, Accept, Request, resources
  <1> QED BY <1>1, <1>2, <1>3, <1>4 DEF Next

\* What the three resources keep in a step.
LEMMA ResourcesKept ==
  ASSUME TypeOK, Resourceful, [Next]_vars
  PROVE  /\ {producer', origin', player'} \subseteq Producer!Resources /\ Resourceful'
         /\ \A q \in {<<producer, producer'>>, <<origin, origin'>>, <<player, player'>>} :
               /\ Shut(q[1]) /\ q[2].st = q[1].st => Shut(q[2])
               /\ q[1].asked => q[2].asked
               /\ q[1].failed => q[2].failed
               /\ q[1].st = "up" => q[2].st = "up"
               /\ q[1].closed # "no" => q[2].closed = q[1].closed /\ q[2].failed = q[1].failed
  <1>1. producer \in Producer!Resources /\ origin \in Producer!Resources /\ player \in Producer!Resources
    BY DEF TypeOK
  <1>2. Moved(producer, producer') /\ Moved(origin, origin') /\ Moved(player, player')
    BY StepMoves
  <1>3. Sound(producer) /\ Sound(origin) /\ Sound(player) BY DEF Resourceful
  <1>4. /\ producer' \in Producer!Resources /\ Sound(producer')
        /\ Shut(producer) /\ producer'.st = producer.st => Shut(producer')
        /\ producer.asked => producer'.asked
        /\ producer.failed => producer'.failed
        /\ producer.st = "up" => producer'.st = "up"
        /\ producer.closed # "no" =>
              producer'.closed = producer.closed /\ producer'.failed = producer.failed
    BY <1>1, <1>2, <1>3, MovedKeeps
  <1>5. /\ origin' \in Producer!Resources /\ Sound(origin')
        /\ Shut(origin) /\ origin'.st = origin.st => Shut(origin')
        /\ origin.asked => origin'.asked
        /\ origin.failed => origin'.failed
        /\ origin.st = "up" => origin'.st = "up"
        /\ origin.closed # "no" => origin'.closed = origin.closed /\ origin'.failed = origin.failed
    BY <1>1, <1>2, <1>3, MovedKeeps
  <1>6. /\ player' \in Producer!Resources /\ Sound(player')
        /\ Shut(player) /\ player'.st = player.st => Shut(player')
        /\ player.asked => player'.asked
        /\ player.failed => player'.failed
        /\ player.st = "up" => player'.st = "up"
        /\ player.closed # "no" => player'.closed = player.closed /\ player'.failed = player.failed
    BY <1>1, <1>2, <1>3, MovedKeeps
  <1>7. Resourceful'
    BY <1>4, <1>5, <1>6 DEF Resourceful, Sound
  <1> QED BY <1>4, <1>5, <1>6, <1>7

\* Every variable keeps its type.
LEMMA TypeKept ==
  ASSUME DirectAssumption, TypeOK, Resourceful, [Next]_vars
  PROVE  TypeOK'
  <1>1. {producer', origin', player'} \subseteq Producer!Resources BY ResourcesKept
  <1> DEFINE Flags == /\ sclosed \in BOOLEAN /\ whole \in BOOLEAN /\ complete \in BOOLEAN
                      /\ begun \in BOOLEAN /\ spoilt \in BOOLEAN
                      /\ accepted \in BOOLEAN /\ connected \in BOOLEAN
  <1> DEFINE Rest ==
        /\ sstate \in {"new", "preparing", "prepared", "connecting", "streaming", "draining",
                       "completed", "failed", "stopping", "stopped"}
        /\ prepare \in Caller /\ connect \in Caller
        /\ ptask \in {"none", "begin", "start", "unwind"} \cup Outcomes
        /\ ctask \in {"none", "begin", "origin", "player", "ready", "unwind"} \cup Outcomes
        /\ watch \in {"none", "watch", "done"}
        /\ sclose \in {"none", "begin", "tasks", "player", "origin", "producer", "done"}
        /\ ranges \subseteq sent /\ sent \subseteq 1..Pieces
  <1>2. Rest /\ Flags BY DEF TypeOK
  <1>3. Rest'
    <2> USE <1>2 DEF calls, media, served, tv, Outcomes, Caller
    <2>1. CASE UNCHANGED vars BY <2>1 DEF vars
    <2>2. CASE ResourceStep BY <2>2 DEF ResourceStep
    <2>3. CASE SessionOwn
      <3> USE DEF Fail, RequestClose
      <3>1. CASE PrepareStarts BY <3>1 DEF PrepareStarts
      <3>2. CASE PrepareTaskEnds BY <3>2 DEF PrepareTaskEnds
      <3>3. CASE PrepareGoesOn BY <3>3 DEF PrepareGoesOn, Prepared, NotPrepared, CancelPrepare
      <3>4. CASE Raises BY <3>4 DEF Raises, Raised
      <3>5. CASE ConnectStarts BY <3>5 DEF ConnectStarts
      <3>10. CASE OriginStarted BY <3>10 DEF OriginStarted
      <3>11. CASE PlayerStarted BY <3>11 DEF PlayerStarted
      <3>12. CASE TVReady BY <3>12 DEF TVReady
      <3>13. CASE ConnectUnwound BY <3>13 DEF ConnectUnwound
      <3>6. CASE ConnectGoesOn BY <3>6 DEF ConnectGoesOn, Connected, NotConnected, CancelConnect
      <3>7. CASE Monitor BY <3>7 DEF Monitor, Drained
      <3>8. CASE Cancels BY <3>8 DEF Cancels, CancelPreparation, CancelConnection, StopState
      <3>9. CASE ClosePlayer BY <3>9 DEF ClosePlayer
      <3>14. CASE CloseOrigin BY <3>14 DEF CloseOrigin
      <3>15. CASE CloseProducer BY <3>15 DEF CloseProducer
      <3>16. CASE Closed BY <3>16 DEF Closed
      <3> QED
        BY <2>3, <3>1, <3>2, <3>3, <3>4, <3>5, <3>6, <3>7, <3>8, <3>9, <3>10, <3>11, <3>12,
           <3>13, <3>14, <3>15, <3>16 DEF SessionOwn
    <2>6. CASE Prepare BY <2>6 DEF Prepare
    <2>7. CASE Connect BY <2>7 DEF Connect
    <2>8. CASE Close BY <2>8 DEF Close
    <2>9. CASE Accept BY <2>9 DEF Accept
    <2>10. CASE Abandons BY <2>10 DEF Abandons
    <2>5. CASE Request
      <3>1. CASE Playlist BY <2>5, <3>1 DEF Request, Playlist
      <3>2. CASE Fetch
        <4>1. PICK low \in 1..Pieces, high \in 1..Pieces :
                 sent' = sent \cup (low..high) /\ ranges' \in {{}, ranges \cup (low..high), ranges}
          BY <3>2 DEF Fetch
        <4>2. low..high \subseteq 1..Pieces BY <4>1, DirectAssumption DEF DirectAssumption
        <4>3. ranges' \subseteq sent' /\ sent' \subseteq 1..Pieces BY <4>1, <4>2
        <4> QED BY <2>5, <4>3 DEF Request
      <3> QED BY <2>5, <3>1, <3>2 DEF Request
    <2> QED BY <2>1, <2>2, <2>3, <2>5, <2>6, <2>7, <2>8, <2>9, <2>10 DEF Next
  <1>4. Flags'
    <2>1. CASE UNCHANGED <<media, served, tv>> /\ sclosed' \in BOOLEAN
      BY <2>1, <1>2 DEF media, served, tv
    <2>2. CASE UNCHANGED vars BY <2>1, <2>2, <1>2 DEF vars
    <2>3. CASE ResourceStep
      <3>1. whole' \in BOOLEAN /\ complete' \in BOOLEAN
        BY <2>3, <1>2, Zenon DEF ResourceStep, ProducerStep, OriginStep, PlayerStep, media
      <3>2. sclosed' = sclosed /\ UNCHANGED <<served, tv>> BY <2>3 DEF ResourceStep
      <3> QED BY <3>1, <3>2, <1>2 DEF served, tv
    <2>4. CASE SessionOwn
      <3>1. CASE TVReady
        <4>1. connected' \in BOOLEAN BY <3>1, <1>2, Zenon DEF TVReady
        <4> QED BY <3>1, <4>1, <1>2 DEF TVReady, media, served
      <3>2. CASE Cancels
        <4>1. connected' \in BOOLEAN BY <3>2, Zenon DEF Cancels, CancelConnection
        <4> QED BY <3>2, <4>1, <1>2 DEF Cancels, media, served
      <3>3. CASE SessionOwn /\ ~TVReady /\ ~Cancels
        BY <2>1, <3>3, <1>2, Zenon DEF SessionOwn, PrepareStarts, PrepareTaskEnds, PrepareGoesOn, Raises,
           ConnectStarts, OriginStarted, PlayerStarted, ConnectUnwound, ConnectGoesOn, Monitor,
           ClosePlayer, CloseOrigin, CloseProducer, Closed
      <3> QED BY <2>4, <3>1, <3>2, <3>3
    <2>5. CASE Prepare \/ Connect \/ Abandons \/ Close \/ Accept
      BY <2>5, <1>2 DEF Prepare, Connect, Abandons, Close, Accept, media, served, tv
    <2>6. CASE Request
      <3>1. begun' \in BOOLEAN /\ spoilt' \in BOOLEAN
        BY <2>6, <1>2, Zenon DEF Request, Playlist, Fetch, Merged
      <3> QED BY <2>6, <3>1, <1>2 DEF Request, media, tv
    <2> QED BY <2>2, <2>3, <2>4, <2>5, <2>6 DEF Next
  <1> QED BY <1>1, <1>3, <1>4 DEF TypeOK

\* By itself a resource does not start, so one that is shut stays so.
LEMMA StaysShut ==
  ASSUME TypeOK, Resourceful, ResourceStep
  PROVE  /\ producer.st = "new" => producer'.st = "new"
         /\ origin.st = "new" => origin'.st = "new"
         /\ player.st = "new" => player'.st = "new"
         /\ Shut(producer) => Shut(producer)'
         /\ Shut(origin) => Shut(origin)'
         /\ Shut(player) => Shut(player)'
  <1>1. producer.st = "new" => producer' = producer
    BY DEF TypeOK, Resourceful, Sound, ResourceStep, ProducerStep, OriginStep, PlayerStep, Usable,
       Producer!Resources, Producer!Up, Producer!Over, Producer!Ask, Producer!Fails, Producer!Close
  <1>2. origin.st = "new" => origin' = origin
    BY DEF TypeOK, Resourceful, Sound, ResourceStep, ProducerStep, OriginStep, PlayerStep,
       Producer!Resources, Origin!Up, Origin!Over, Origin!Ask, Origin!Close
  <1>3. player.st = "new" => player' = player
    BY DEF TypeOK, Resourceful, Sound, ResourceStep, ProducerStep, OriginStep, PlayerStep,
       Producer!Resources, Player!Up, Player!Over, Player!Ask, Player!Fails, Player!Close
  <1>4. [Next]_vars BY DEF Next
  <1>5. /\ producer.closed # "no" => producer'.closed = producer.closed
        /\ origin.closed # "no" => origin'.closed = origin.closed
        /\ player.closed # "no" => player'.closed = player.closed
    BY <1>4, ResourcesKept
  <1> QED BY <1>1, <1>2, <1>3, <1>5 DEF Shut

\* Nothing is closed before its turn.
LEMMA InTurnKept ==
  ASSUME TypeOK, Resourceful, InTurn, Serving, [Next]_vars
  PROVE  InTurn'
  <1>0. /\ Shut(producer) /\ producer'.st = producer.st => Shut(producer)'
        /\ Shut(origin) /\ origin'.st = origin.st => Shut(origin)'
        /\ Shut(player) /\ player'.st = player.st => Shut(player)'
    BY ResourcesKept DEF Shut
  <1> USE <1>0 DEF InTurn, PastTasks, PastPlayer, PastOrigin, Ended, Outcomes, calls, resources,
         media, served, tv
  <1>1. CASE UNCHANGED vars BY <1>1 DEF vars
  <1>2. CASE ResourceStep BY <1>2, StaysShut DEF ResourceStep
  <1>3. CASE SessionOwn
    <2>1. CASE PrepareStarts BY <2>1 DEF PrepareStarts, Producer!Start
    <2>2. CASE PrepareTaskEnds BY <2>2 DEF PrepareTaskEnds, Usable
    <2>3. CASE PrepareGoesOn
      BY <2>3 DEF PrepareGoesOn, Prepared, NotPrepared, CancelPrepare, RequestClose, Fail
    <2>4. CASE Raises BY <2>4 DEF Raises, Raised, Waits
    <2>5. CASE ConnectStarts BY <2>5 DEF ConnectStarts, Usable, Origin!Start
    <2>6. CASE OriginStarted BY <2>6 DEF OriginStarted, Player!Start
    <2>7. CASE PlayerStarted BY <2>7 DEF PlayerStarted
    <2>8. CASE TVReady BY <2>8 DEF TVReady
    <2>9. CASE ConnectUnwound BY <2>9 DEF ConnectUnwound
    <2>10. CASE ConnectGoesOn
      BY <2>10 DEF ConnectGoesOn, Connected, NotConnected, CancelConnect, RequestClose, Fail
    <2>11. CASE Monitor BY <2>11 DEF Monitor, RequestClose, Fail, Drained, Broken
    <2>12. CASE Cancels BY <2>12 DEF Cancels, CancelPreparation, CancelConnection, StopState
    <2>13. CASE ClosePlayer BY <2>13 DEF ClosePlayer, TasksEnded, Player!Ask
    <2>14. CASE CloseOrigin BY <2>14 DEF CloseOrigin, Fail, Origin!Ask
    <2>15. CASE CloseProducer BY <2>15 DEF CloseProducer, Fail, Producer!Ask
    <2>16. CASE Closed BY <2>16 DEF Closed
    <2> QED
      BY <1>3, <2>1, <2>2, <2>3, <2>4, <2>5, <2>6, <2>7, <2>8, <2>9,
         <2>10, <2>11, <2>12, <2>13, <2>14, <2>15, <2>16
      DEF SessionOwn
  <1>4. CASE Prepare BY <1>4 DEF Prepare
  <1>5. CASE Connect BY <1>5 DEF Connect
  <1>6. CASE Close BY <1>6 DEF Close
  <1>7. CASE Accept BY <1>7 DEF Accept
  <1>8. CASE Request BY <1>8 DEF Request, Playlist, Fetch, Merged
  <1>11. CASE Abandons BY <1>11 DEF Abandons, Waits
  <1> QED BY <1>1, <1>2, <1>3, <1>4, <1>5, <1>6, <1>7, <1>8, <1>11 DEF Next

\* A prepared stream is asked to close only by the session, and is over all failures once the
\* source is finished.
LEMMA PreparedStays ==
  ASSUME TypeOK, ResourceStep
  PROVE  /\ producer'.asked /\ producer'.st = "up" => producer.asked /\ producer.st = "up"
         /\ complete => complete' /\ producer'.failed = producer.failed
  <1> USE DEF TypeOK, Producer!Resources, media
  <1>1. CASE UNCHANGED <<producer, media>> BY <1>1
  <1>2. CASE ProducerStep
    <2>1. CASE Producer!Up /\ UNCHANGED complete BY <2>1 DEF Producer!Up
    <2>2. CASE Producer!Over /\ UNCHANGED media BY <2>2 DEF Producer!Over
    <2>3. CASE producer.st = "starting" /\ Producer!Ask /\ UNCHANGED media BY <2>3 DEF Producer!Ask
    <2>4. CASE ~complete /\ Producer!Fails /\ UNCHANGED media BY <2>4 DEF Producer!Fails
    <2>5. CASE UNCHANGED producer /\ (complete => complete') BY <2>5
    <2>6. CASE Producer!Close /\ UNCHANGED media BY <2>6 DEF Producer!Close
    <2> QED BY <1>2, <2>1, <2>2, <2>3, <2>4, <2>5, <2>6 DEF ProducerStep
  <1> QED BY <1>1, <1>2 DEF ResourceStep, OriginStep, PlayerStep

\* The listener keeps what it serves.
LEMMA ServingKept ==
  ASSUME TypeOK, Resourceful, InTurn, Serving, Untouched, [Next]_vars
  PROVE  Serving'
  <1>0. /\ Shut(producer) /\ producer'.st = producer.st => Shut(producer)'
        /\ Shut(origin) /\ origin'.st = origin.st => Shut(origin)'
        /\ Shut(player) /\ player'.st = player.st => Shut(player)'
    BY ResourcesKept DEF Shut
  <1>9. /\ producer.st = "up" => producer'.st = "up"
        /\ player.closed # "no" => player'.failed = player.failed
    BY ResourcesKept
  <1> USE <1>0 DEF TypeOK, Caller, Producer!Resources, Resourceful, Sound, InTurn, Serving,
       PastTasks, PastPlayer, PastOrigin, Ended, Outcomes, calls, resources,
         media, served, tv
  <1>1. CASE UNCHANGED vars BY <1>1 DEF vars
  <1>2. CASE ResourceStep BY <1>2, <1>9, PreparedStays, StaysShut DEF ResourceStep
  <1>3. CASE SessionOwn
    <2>1. CASE PrepareStarts BY <2>1 DEF PrepareStarts, Producer!Start
    <2>2. CASE PrepareTaskEnds BY <2>2 DEF PrepareTaskEnds, Usable
    <2>3. CASE PrepareGoesOn
      BY <2>3 DEF PrepareGoesOn, Prepared, NotPrepared, CancelPrepare, RequestClose, Fail
    <2>4. CASE Raises BY <2>4 DEF Raises, Raised, Waits
    <2>5. CASE ConnectStarts BY <2>5 DEF ConnectStarts, Usable, Origin!Start
    <2>6. CASE OriginStarted BY <2>6 DEF OriginStarted, Player!Start
    <2>7. CASE PlayerStarted BY <2>7 DEF PlayerStarted
    <2>8. CASE TVReady BY <2>8 DEF TVReady
    <2>9. CASE ConnectUnwound BY <2>9 DEF ConnectUnwound
    <2>10. CASE ConnectGoesOn
      BY <2>10 DEF ConnectGoesOn, Connected, NotConnected, CancelConnect, RequestClose, Fail
    <2>11. CASE Monitor BY <2>11 DEF Monitor, RequestClose, Fail, Drained, Broken
    <2>12. CASE Cancels BY <2>12 DEF Cancels, CancelPreparation, CancelConnection, StopState
    <2>13. CASE ClosePlayer BY <2>13 DEF ClosePlayer, TasksEnded, Player!Ask
    <2>14. CASE CloseOrigin BY <2>14 DEF CloseOrigin, Fail, Origin!Ask
    <2>15. CASE CloseProducer BY <2>15 DEF CloseProducer, Fail, Producer!Ask
    <2>16. CASE Closed BY <2>16 DEF Closed
    <2> QED
      BY <1>3, <2>1, <2>2, <2>3, <2>4, <2>5, <2>6, <2>7, <2>8, <2>9,
         <2>10, <2>11, <2>12, <2>13, <2>14, <2>15, <2>16
      DEF SessionOwn
  <1>4. CASE Prepare BY <1>4 DEF Prepare
  <1>5. CASE Connect BY <1>5 DEF Connect
  <1>6. CASE Close BY <1>6 DEF Close
  <1>7. CASE Accept BY <1>7 DEF Accept
  <1>8. CASE Request BY <1>8 DEF Request, Playlist, Fetch, Merged
  <1>11. CASE Abandons BY <1>11 DEF Abandons, Waits
  <1> QED BY <1>1, <1>2, <1>3, <1>4, <1>5, <1>6, <1>7, <1>8, <1>11 DEF Next

\* Nothing begins before prepare().
LEMMA UntouchedKept ==
  ASSUME TypeOK, Resourceful, Untouched, [Next]_vars
  PROVE  Untouched'
  <1> USE DEF TypeOK, Untouched, calls, resources, media, served, tv
  <1>1. CASE UNCHANGED vars BY <1>1 DEF vars
  <1>2. CASE ResourceStep BY <1>2, StaysShut DEF ResourceStep
  <1>3. CASE SessionOwn
    <2>1. CASE PrepareStarts BY <2>1 DEF PrepareStarts, Producer!Start
    <2>2. CASE PrepareTaskEnds BY <2>2 DEF PrepareTaskEnds, Usable
    <2>3. CASE PrepareGoesOn
      BY <2>3 DEF PrepareGoesOn, Prepared, NotPrepared, CancelPrepare, RequestClose, Fail
    <2>4. CASE Raises BY <2>4 DEF Raises, Raised, Waits
    <2>5. CASE ConnectStarts BY <2>5 DEF ConnectStarts, Usable, Origin!Start
    <2>6. CASE OriginStarted BY <2>6 DEF OriginStarted, Player!Start
    <2>7. CASE PlayerStarted BY <2>7 DEF PlayerStarted
    <2>8. CASE TVReady BY <2>8 DEF TVReady
    <2>9. CASE ConnectUnwound BY <2>9 DEF ConnectUnwound
    <2>10. CASE ConnectGoesOn
      BY <2>10 DEF ConnectGoesOn, Connected, NotConnected, CancelConnect, RequestClose, Fail
    <2>11. CASE Monitor BY <2>11 DEF Monitor, RequestClose, Fail, Drained, Broken
    <2>12. CASE Cancels BY <2>12 DEF Cancels, CancelPreparation, CancelConnection, StopState
    <2>13. CASE ClosePlayer BY <2>13 DEF ClosePlayer, TasksEnded, Player!Ask
    <2>14. CASE CloseOrigin BY <2>14 DEF CloseOrigin, Fail, Origin!Ask
    <2>15. CASE CloseProducer BY <2>15 DEF CloseProducer, Fail, Producer!Ask
    <2>16. CASE Closed BY <2>16 DEF Closed
    <2> QED
      BY <1>3, <2>1, <2>2, <2>3, <2>4, <2>5, <2>6, <2>7, <2>8, <2>9,
         <2>10, <2>11, <2>12, <2>13, <2>14, <2>15, <2>16
      DEF SessionOwn
  <1>4. CASE Prepare BY <1>4 DEF Prepare
  <1>5. CASE Connect BY <1>5 DEF Connect
  <1>6. CASE Close BY <1>6 DEF Close
  <1>7. CASE Accept BY <1>7 DEF Accept
  <1>8. CASE Request BY <1>8 DEF Request, Playlist, Fetch, Merged
  <1>11. CASE Abandons BY <1>11 DEF Abandons, Waits
  <1> QED BY <1>1, <1>2, <1>3, <1>4, <1>5, <1>6, <1>7, <1>8, <1>11 DEF Next

\* The state and the callers' outcomes stay true.
LEMMA TruthfulKept ==
  ASSUME TypeOK, InTurn, Truthful, [Next]_vars
  PROVE  Truthful'
  <1> USE DEF TypeOK, InTurn, Truthful, PastTasks, PastPlayer, PastOrigin, Caller, Outcomes,
       Refused, Waits, calls, resources, media, served, tv
  <1>1. CASE UNCHANGED vars BY <1>1 DEF vars
  <1>2. CASE ResourceStep BY <1>2 DEF ResourceStep
  <1>3. CASE SessionOwn
    <2>1. CASE PrepareStarts BY <2>1 DEF PrepareStarts, Producer!Start
    <2>2. CASE PrepareTaskEnds BY <2>2 DEF PrepareTaskEnds, Usable
    <2>3. CASE PrepareGoesOn
      BY <2>3 DEF PrepareGoesOn, Prepared, NotPrepared, CancelPrepare, RequestClose, Fail
    <2>4. CASE Raises BY <2>4 DEF Raises, Raised, Waits
    <2>5. CASE ConnectStarts BY <2>5 DEF ConnectStarts, Usable, Origin!Start
    <2>6. CASE OriginStarted BY <2>6 DEF OriginStarted, Player!Start
    <2>7. CASE PlayerStarted BY <2>7 DEF PlayerStarted
    <2>8. CASE TVReady BY <2>8 DEF TVReady
    <2>9. CASE ConnectUnwound BY <2>9 DEF ConnectUnwound
    <2>10. CASE ConnectGoesOn
      BY <2>10 DEF ConnectGoesOn, Connected, NotConnected, CancelConnect, RequestClose, Fail
    <2>11. CASE Monitor BY <2>11 DEF Monitor, RequestClose, Fail, Drained, Broken
    <2>12. CASE Cancels BY <2>12 DEF Cancels, CancelPreparation, CancelConnection, StopState
    <2>13. CASE ClosePlayer BY <2>13 DEF ClosePlayer, TasksEnded, Player!Ask
    <2>14. CASE CloseOrigin BY <2>14 DEF CloseOrigin, Fail, Origin!Ask
    <2>15. CASE CloseProducer BY <2>15 DEF CloseProducer, Fail, Producer!Ask
    <2>16. CASE Closed BY <2>16 DEF Closed
    <2> QED
      BY <1>3, <2>1, <2>2, <2>3, <2>4, <2>5, <2>6, <2>7, <2>8, <2>9,
         <2>10, <2>11, <2>12, <2>13, <2>14, <2>15, <2>16
      DEF SessionOwn
  <1>4. CASE Prepare BY <1>4 DEF Prepare
  <1>5. CASE Connect BY <1>5 DEF Connect
  <1>6. CASE Close BY <1>6 DEF Close
  <1>7. CASE Accept BY <1>7 DEF Accept
  <1>8. CASE Request BY <1>8 DEF Request, Playlist, Fetch, Merged
  <1>11. CASE Abandons BY <1>11 DEF Abandons, Waits
  <1> QED BY <1>1, <1>2, <1>3, <1>4, <1>5, <1>6, <1>7, <1>8, <1>11 DEF Next

\* A session that says completed stays complete.
LEMMA CompleteKept ==
  ASSUME DirectAssumption, TypeOK, Resourceful, InTurn, Complete, [Next]_vars
  PROVE  Complete'
  <1>0. /\ Shut(producer) /\ producer'.st = producer.st => Shut(producer)'
        /\ Shut(origin) /\ origin'.st = origin.st => Shut(origin)'
        /\ Shut(player) /\ player'.st = player.st => Shut(player)'
    BY ResourcesKept DEF Shut
  <1>9. /\ producer.st = "up" => producer'.st = "up"
        /\ player.closed # "no" => player'.failed = player.failed
    BY ResourcesKept
  <1> USE <1>0 DEF TypeOK, Caller, Producer!Resources, Resourceful, Sound, InTurn, Complete,
       PastTasks, PastPlayer, PastOrigin, Ended, Outcomes, calls, resources,
         media, served, tv
  <1>1. CASE UNCHANGED vars BY <1>1 DEF vars
  <1>2. CASE ResourceStep
    <2>1. UNCHANGED <<sstate, sclose, served, tv>> BY <1>2 DEF ResourceStep
    <2>2. complete => complete' /\ producer'.failed = producer.failed BY <1>2, PreparedStays
    <2>3. PastPlayer /\ ~player.failed => ~player'.failed
      <3>1. CASE player.st = "new"
        <4>1. player'.st = "new" BY <1>2, <3>1, StaysShut
        <4> QED BY <4>1, ResourcesKept DEF Resourceful, Sound
      <3>2. CASE player.closed # "no" BY <1>9, <3>2
      <3> QED BY <3>1, <3>2 DEF Shut
    <2> QED BY <2>1, <2>2, <2>3
  <1>3. CASE SessionOwn
    <2>1. CASE PrepareStarts BY <2>1 DEF PrepareStarts, Producer!Start
    <2>2. CASE PrepareTaskEnds BY <2>2 DEF PrepareTaskEnds, Usable
    <2>3. CASE PrepareGoesOn
      BY <2>3 DEF PrepareGoesOn, Prepared, NotPrepared, CancelPrepare, RequestClose, Fail
    <2>4. CASE Raises BY <2>4 DEF Raises, Raised, Waits
    <2>5. CASE ConnectStarts BY <2>5 DEF ConnectStarts, Usable, Origin!Start
    <2>6. CASE OriginStarted BY <2>6 DEF OriginStarted, Player!Start
    <2>7. CASE PlayerStarted BY <2>7 DEF PlayerStarted
    <2>8. CASE TVReady BY <2>8 DEF TVReady
    <2>9. CASE ConnectUnwound BY <2>9 DEF ConnectUnwound
    <2>10. CASE ConnectGoesOn
      BY <2>10 DEF ConnectGoesOn, Connected, NotConnected, CancelConnect, RequestClose, Fail
    <2>11. CASE Monitor BY <2>11 DEF Monitor, RequestClose, Fail, Drained, Broken
    <2>12. CASE Cancels BY <2>12 DEF Cancels, CancelPreparation, CancelConnection, StopState
    <2>13. CASE ClosePlayer BY <2>13 DEF ClosePlayer, TasksEnded, Player!Ask
    <2>14. CASE CloseOrigin BY <2>14 DEF CloseOrigin, Fail, Origin!Ask
    <2>15. CASE CloseProducer BY <2>15 DEF CloseProducer, Fail, Producer!Ask
    <2>16. CASE Closed BY <2>16 DEF Closed
    <2> QED
      BY <1>3, <2>1, <2>2, <2>3, <2>4, <2>5, <2>6, <2>7, <2>8, <2>9,
         <2>10, <2>11, <2>12, <2>13, <2>14, <2>15, <2>16
      DEF SessionOwn
  <1>4. CASE Prepare BY <1>4 DEF Prepare
  <1>5. CASE Connect BY <1>5 DEF Connect
  <1>6. CASE Close BY <1>6 DEF Close
  <1>7. CASE Accept BY <1>7 DEF Accept
  <1>8. CASE Request
    <2>1. sstate # "completed" BY <1>8 DEF Request
    <2>2. sstate' = sstate BY <1>8 DEF Request
    <2>3. begun' => sent' = 1..Pieces
      <3>1. CASE Playlist BY <1>8, <3>1 DEF Playlist
      <3>2. CASE Fetch
        <4>1. PICK low \in 1..Pieces, high \in 1..Pieces :
                 sent' = sent \cup (low..high) /\ begun' = (ranges \cup (low..high) = 1..Pieces)
          BY <3>2 DEF Fetch, Merged
        <4>2. ranges \subseteq sent /\ sent' \subseteq 1..Pieces BY TypeKept
        <4> QED BY <4>1, <4>2
      <3> QED BY <1>8, <3>1, <3>2 DEF Request
    <2> QED BY <2>1, <2>2, <2>3
  <1>11. CASE Abandons BY <1>11 DEF Abandons, Waits
  <1> QED BY <1>1, <1>2, <1>3, <1>4, <1>5, <1>6, <1>7, <1>8, <1>11 DEF Next

-----------------------------------------------------------------------------
\* The inductive invariant: what each task, resource and caller may be while the cleanup is
\* where it is.
THEOREM SessionCorrect == Spec => [](TypeOK /\ IInv)
  <1>1. Init => TypeOK /\ IInv
    <2> SUFFICES ASSUME Init PROVE TypeOK /\ IInv OBVIOUS
    <2>1. producer = Producer!Fresh /\ origin = Producer!Fresh /\ player = Producer!Fresh
      BY DEF Init, Producer!Init, Origin!Init, Player!Init, Producer!Fresh, Origin!Fresh, Player!Fresh
    <2>2. TypeOK BY <2>1, SameShape DEF Init, TypeOK, Caller, Outcomes
    <2>3. Resourceful BY <2>1 DEF Resourceful, Sound, Producer!Fresh
    <2>4. InTurn /\ Serving
      BY <2>1 DEF Init, InTurn, Serving, PastTasks, PastPlayer, PastOrigin, Producer!Fresh
    <2>5. Untouched BY <2>1 DEF Init, Untouched, Producer!Fresh
    <2>6. Truthful /\ Complete BY DEF Init, Truthful, Complete, Refused, Waits
    <2> QED BY <2>2, <2>3, <2>4, <2>5, <2>6 DEF IInv
  <1>2. TypeOK /\ IInv /\ [Next]_vars => (TypeOK /\ IInv)'
    <2> SUFFICES ASSUME TypeOK, IInv, [Next]_vars PROVE TypeOK' /\ IInv' OBVIOUS
    <2> USE DEF IInv
    <2>1. TypeOK' BY DirectAssumption, TypeKept
    <2>2. Resourceful' BY ResourcesKept
    <2>3. InTurn' BY InTurnKept
    <2>4. Serving' BY ServingKept
    <2>5. Untouched' BY UntouchedKept
    <2>6. Truthful' BY TruthfulKept
    <2>7. Complete' BY DirectAssumption, CompleteKept
    <2> QED BY <2>1, <2>2, <2>3, <2>4, <2>5, <2>6, <2>7
  <1> QED BY <1>1, <1>2, PTL DEF Spec

\* A closed session has nothing.
LEMMA ClosedHasNothing == ASSUME IInv, sclosed PROVE ~Held
  BY DEF IInv, Resourceful, InTurn, PastPlayer, PastOrigin, Sound, Shut, Held

\* Media that the listener may serve are not given up while it, or the worker that makes the
\* TV fetch them, is open.
THEOREM Served == Spec => []ServedUntilClosed
  <1>1. TypeOK /\ IInv => ServedUntilClosed
    BY DEF IInv, InTurn, Serving, PastPlayer, PastOrigin, ServedUntilClosed
  <1> QED BY <1>1, SessionCorrect, PTL

\* prepare() and connect() raise when nothing is left, and tell a failure as one.
THEOREM Told == Spec => []CallersAreTold
  <1>1. TypeOK /\ IInv => CallersAreTold
    <2> SUFFICES ASSUME TypeOK, IInv PROVE CallersAreTold OBVIOUS
    <2> QED BY ClosedHasNothing DEF IInv, Truthful, CallersAreTold, Refused
  <1> QED BY <1>1, SessionCorrect, PTL

\* A session that says completed was played from its beginning to the end of its source.
THEOREM CompletedProved == Spec => []CompletedIsTrue
  <1>1. TypeOK /\ IInv => CompletedIsTrue
    BY DEF IInv, InTurn, Complete, PastPlayer, CompletedIsTrue
  <1> QED BY <1>1, SessionCorrect, PTL

\* A step forgets no failure, and none changes what a closed session says.
LEMMA FailureKept ==
  ASSUME TypeOK, IInv, [Next]_vars
  PROVE  (sstate = "failed" => sstate' = "failed") /\ (sclosed => UNCHANGED <<sstate, sclosed>>)
  <1> USE DEF TypeOK, IInv, InTurn, Truthful, PastTasks, PastPlayer, PastOrigin, Ended, Outcomes
  <1>1. CASE UNCHANGED vars BY <1>1 DEF vars
  <1>2. CASE ResourceStep BY <1>2 DEF ResourceStep
  <1>3. CASE SessionOwn
    <2>1. CASE PrepareStarts BY <2>1 DEF PrepareStarts, Producer!Start
    <2>2. CASE PrepareTaskEnds BY <2>2 DEF PrepareTaskEnds, Usable
    <2>3. CASE PrepareGoesOn
      BY <2>3 DEF PrepareGoesOn, Prepared, NotPrepared, CancelPrepare, RequestClose, Fail
    <2>4. CASE Raises BY <2>4 DEF Raises, Raised, Waits
    <2>5. CASE ConnectStarts BY <2>5 DEF ConnectStarts, Usable, Origin!Start
    <2>6. CASE OriginStarted BY <2>6 DEF OriginStarted, Player!Start
    <2>7. CASE PlayerStarted BY <2>7 DEF PlayerStarted
    <2>8. CASE TVReady BY <2>8 DEF TVReady
    <2>9. CASE ConnectUnwound BY <2>9 DEF ConnectUnwound
    <2>10. CASE ConnectGoesOn
      BY <2>10 DEF ConnectGoesOn, Connected, NotConnected, CancelConnect, RequestClose, Fail
    <2>11. CASE Monitor BY <2>11 DEF Monitor, RequestClose, Fail, Drained, Broken
    <2>12. CASE Cancels BY <2>12 DEF Cancels, CancelPreparation, CancelConnection, StopState
    <2>13. CASE ClosePlayer BY <2>13 DEF ClosePlayer, TasksEnded, Player!Ask
    <2>14. CASE CloseOrigin BY <2>14 DEF CloseOrigin, Fail, Origin!Ask
    <2>15. CASE CloseProducer BY <2>15 DEF CloseProducer, Fail, Producer!Ask
    <2>16. CASE Closed BY <2>16 DEF Closed
    <2> QED
      BY <1>3, <2>1, <2>2, <2>3, <2>4, <2>5, <2>6, <2>7, <2>8, <2>9,
         <2>10, <2>11, <2>12, <2>13, <2>14, <2>15, <2>16
      DEF SessionOwn
  <1>4. CASE Prepare BY <1>4 DEF Prepare
  <1>5. CASE Connect BY <1>5 DEF Connect
  <1>6. CASE Close BY <1>6 DEF Close
  <1>7. CASE Accept BY <1>7 DEF Accept
  <1>8. CASE Request BY <1>8 DEF Request, Playlist, Fetch, Merged
  <1>11. CASE Abandons BY <1>11 DEF Abandons, Waits
  <1> QED BY <1>1, <1>2, <1>3, <1>4, <1>5, <1>6, <1>7, <1>8, <1>11 DEF Next

\* A failure is not forgotten when the session ends, by whatever order its parts are closed in.
THEOREM FailureStaysProved == Spec => FailureStays
  <1>1. TypeOK /\ IInv /\ [Next]_vars =>
          [(sstate = "failed" => sstate' = "failed") /\ (sclosed => UNCHANGED <<sstate, sclosed>>)]_vars
    BY FailureKept
  <1> QED BY <1>1, SessionCorrect, PTL DEF Spec, FailureStays

\* How prepare() goes on: it is called before close(), and returns before it or raises.
LEMMA PrepareProceeds ==
  ASSUME TypeOK, IInv, [Next]_vars
  PROVE  /\ prepare = "none" => prepare' = "none" \/ (prepare' = "wait" /\ sclose = "none")
         /\ prepare # "none" => prepare' # "none"
         /\ prepare \in {"ok", "error", "cancelled", "abandoned"} => prepare' = prepare
         /\ prepare' = "ok" /\ prepare # "ok" => sclose = "none"
         /\ sclose # "none" => sclose' # "none"
         /\ sclosed' /\ ~sclosed => sclose # "none"
  <1> USE DEF TypeOK, InTurn, Truthful, Untouched, IInv, Caller, Outcomes, Refused, calls, PastTasks
  <1>1. CASE UNCHANGED vars BY <1>1 DEF vars
  <1>2. CASE ResourceStep BY <1>2 DEF ResourceStep
  <1>3. CASE SessionOwn
    <2>1. CASE PrepareStarts BY <2>1 DEF PrepareStarts, Producer!Start
    <2>2. CASE PrepareTaskEnds BY <2>2 DEF PrepareTaskEnds, Usable
    <2>3. CASE PrepareGoesOn
      BY <2>3 DEF PrepareGoesOn, Prepared, NotPrepared, CancelPrepare, RequestClose, Fail
    <2>4. CASE Raises BY <2>4 DEF Raises, Raised, Waits
    <2>5. CASE ConnectStarts BY <2>5 DEF ConnectStarts, Usable, Origin!Start
    <2>6. CASE OriginStarted BY <2>6 DEF OriginStarted, Player!Start
    <2>7. CASE PlayerStarted BY <2>7 DEF PlayerStarted
    <2>8. CASE TVReady BY <2>8 DEF TVReady
    <2>9. CASE ConnectUnwound BY <2>9 DEF ConnectUnwound
    <2>10. CASE ConnectGoesOn
      BY <2>10 DEF ConnectGoesOn, Connected, NotConnected, CancelConnect, RequestClose, Fail
    <2>11. CASE Monitor BY <2>11 DEF Monitor, RequestClose, Fail, Drained, Broken
    <2>12. CASE Cancels BY <2>12 DEF Cancels, CancelPreparation, CancelConnection, StopState
    <2>13. CASE ClosePlayer BY <2>13 DEF ClosePlayer, TasksEnded, Player!Ask
    <2>14. CASE CloseOrigin BY <2>14 DEF CloseOrigin, Fail, Origin!Ask
    <2>15. CASE CloseProducer BY <2>15 DEF CloseProducer, Fail, Producer!Ask
    <2>16. CASE Closed BY <2>16 DEF Closed
    <2> QED
      BY <1>3, <2>1, <2>2, <2>3, <2>4, <2>5, <2>6, <2>7, <2>8, <2>9,
         <2>10, <2>11, <2>12, <2>13, <2>14, <2>15, <2>16
      DEF SessionOwn
  <1>4. CASE Prepare BY <1>4 DEF Prepare
  <1>5. CASE Connect BY <1>5 DEF Connect
  <1>6. CASE Close BY <1>6 DEF Close
  <1>7. CASE Accept BY <1>7 DEF Accept
  <1>8. CASE Request BY <1>8 DEF Request, Playlist, Fetch, Merged
  <1>11. CASE Abandons BY <1>11 DEF Abandons, Waits
  <1> QED BY <1>1, <1>2, <1>3, <1>4, <1>5, <1>6, <1>7, <1>8, <1>11 DEF Next

\* To its controller a session is a resource as its own resources are to it.
THEOREM SessionImplementsOwned == Spec => SessionIsOwned
  <1> DEFINE Stage == CASE prepare = "none" -> "new" [] prepare = "ok" -> "up"
                        [] prepare \in Refused \cup {"abandoned"} -> "over"
                        [] OTHER -> "starting"
  <1>1. Init => Session!Init
    <2> SUFFICES ASSUME Init PROVE View = Session!Fresh BY DEF Session!Init
    <2>1. Held = FALSE
      BY DEF Init, Held, Producer!Init, Origin!Init, Player!Init, Producer!Fresh, Origin!Fresh,
         Player!Fresh
    <2>2. Stage = "new" /\ sclose = "none" /\ sstate = "new"
      <3>1. prepare = "none" /\ sclose = "none" /\ sstate = "new" BY Zenon DEF Init
      <3> QED BY <3>1 DEF Refused
    <2>5. sclosed = FALSE BY DEF Init
    <2> HIDE DEF Stage
    <2>3. View = [st |-> Stage, asked |-> sclose # "none", held |-> Held,
                  failed |-> sstate = "failed", closed |-> IF sclosed THEN "clean" ELSE "no"]
      BY DEF View, Stage
    <2>4. (sclose # "none") = FALSE /\ (sstate = "failed") = FALSE BY <2>2
    <2> QED BY <2>1, <2>2, <2>3, <2>4, <2>5 DEF Session!Fresh
  <1>2. TypeOK /\ IInv /\ TypeOK' /\ IInv' /\ [Next]_vars => Session!Next
    <2> SUFFICES ASSUME TypeOK, IInv, TypeOK', IInv', [Next]_vars PROVE Session!Next OBVIOUS
    <2> DEFINE Asked == sclose # "none"
    <2> DEFINE Failed == sstate = "failed"
    <2> DEFINE Over == IF sclosed THEN "clean" ELSE "no"
    <2>1. /\ Stage \in {"new", "starting", "up", "over"} /\ Stage' \in {"new", "starting", "up", "over"}
          /\ \/ Stage' = Stage
             \/ Stage = "new" /\ Stage' = "starting" /\ ~Asked
             \/ Stage = "starting" /\ Stage' \in {"up", "over"}
          /\ Stage' = "up" /\ Stage # "up" => Over = "no"
      BY PrepareProceeds DEF IInv, InTurn, TypeOK, Caller, Outcomes, Refused
    <2>2. Asked => Asked' BY PrepareProceeds
    <2>3. Stage' = "new" => ~Held'
      BY DEF IInv, Untouched, Resourceful, Sound, Held, Refused
    <2>4. Failed => Failed' BY FailureKept
    <2>5. Over # "no" => Over' = Over /\ (Failed' <=> Failed) BY FailureKept
    <2>6. Over' # "no" => ~Held'
      <3>1. IInv' /\ sclosed' => ~Held'
        BY DEF IInv, Resourceful, InTurn, PastPlayer, PastOrigin, Sound, Shut, Held
      <3> QED BY <3>1
    <2>7. Over' # "no" => Asked
      BY PrepareProceeds DEF IInv, InTurn
    <2>10. /\ Asked' \in BOOLEAN /\ Held' \in BOOLEAN /\ Failed' \in BOOLEAN
           /\ Over' \in {"no", "clean", "raised"}
      BY DEF Held, TypeOK, Producer!Resources
    <2> HIDE DEF Stage, Asked, Failed, Over
    <2>8. View = [st |-> Stage, asked |-> Asked, held |-> Held, failed |-> Failed, closed |-> Over]
      BY DEF View, Stage, Asked, Failed, Over
    <2>9. View' = [st |-> Stage', asked |-> Asked', held |-> Held', failed |-> Failed',
                   closed |-> Over']
      BY DEF View, Stage, Asked, Failed, Over
    <2>11. View' \in Session!Resources BY <2>1, <2>9, <2>10 DEF Session!Resources
    <2>12. Session!Legal(View')
      <3>1. /\ View.st = Stage /\ View.asked = Asked /\ View.failed = Failed /\ View.closed = Over
            /\ View'.st = Stage' /\ View'.asked = Asked' /\ View'.held = Held'
            /\ View'.failed = Failed' /\ View'.closed = Over'
        BY <2>8, <2>9
      <3>2. Over # "no" => Over' = Over /\ Failed' = Failed
        BY <2>5, Zenon DEF Failed
      <3>3. /\ \/ View'.st = View.st
               \/ View.st = "new" /\ View'.st = "starting" /\ ~View.asked
               \/ View.st = "starting" /\ View'.st \in {"up", "over"}
            /\ View'.st = "up" /\ View.st # "up" => View.closed = "no"
            /\ View.asked => View'.asked
            /\ View'.st = "new" => ~View'.held
        BY <2>1, <2>2, <2>3, <3>1
      <3>4. /\ IF View.closed = "no" THEN View.failed => View'.failed
               ELSE View'.closed = View.closed /\ View'.failed = View.failed
            /\ View'.closed # "no" => View.asked /\ ~View'.held
        BY <2>1, <2>2, <2>4, <2>6, <2>7, <3>1, <3>2
      <3> QED BY <3>3, <3>4 DEF Session!Legal
    <2> QED BY <2>11, <2>12 DEF Session!Next
  <1> QED BY <1>1, <1>2, SessionCorrect, PTL DEF Spec, SessionIsOwned, Session!Spec
=============================================================================
