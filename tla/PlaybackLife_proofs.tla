------------------------- MODULE PlaybackLife_proofs -------------------------
(***************************************************************************)
(* What becomes of the media processes and of the TVs they send to, proved *)
(* of Playback for every value of its constants: no process is lost, a TV  *)
(* that is sent media can be stopped by its name, a Stop that returns has  *)
(* silenced its TVs, and the TVs are leased to one stream at a time.       *)
(***************************************************************************)
EXTENDS Playback_proofs

-----------------------------------------------------------------------------
(* The invariant.  Its parts speak of the attributes c of the Controller,  *)
(* the locals p of the Play and the keys R of retiring, because a handler  *)
(* changes these several times between two awaits.                         *)

\* A Play has no stream of its own before it creates one ...
Early == {"idle", "removing", "browse", "preview"}
\* ... and has not made it the current one at these awaits.
Warming == {"spawning", "closing", "warming", "replacing", "preparing", "nreplacing",
            "nbrowser", "connecting"}

\* The pending stream is the one the Play in progress is about to adopt, or one that a
\* Play left behind, told to end, when it was cancelled in its except clause.
PendingIsNew(c, p, R) ==
    /\ c.pending # None =>
         /\ c.pending # c.stream /\ c.pending \notin R
         /\ c.pending # p.new => engine[c.pending].stopping
    /\ c.pending = None => c.pendingTargets = {}

\* A stream that nobody created is nowhere, and was told nothing.
UnusedIsNowhere(c, p, R) ==
    \A s \in Streams : engine[s].proc = "unused" =>
        /\ s \notin torn \cup R \cup {c.stream, c.pending, p.new}
        /\ ~engine[s].stopping

\* A close task is done while its process runs only if close() came before the
\* process: the Play that spawned it closes it.
TornIsOver(c, p) ==
    \A s \in torn : Running(s) => s = p.new /\ s # c.stream

\* Nobody is orphaned that was not told to end.
Accounted(c, p, R) ==
    \A s \in Streams : Running(s) =>
        s \in {c.stream, c.pending, p.new} \/ s \in R \ torn \/ engine[s].stopping

\* The current stream was not given up.
CurrentKept(c, R) ==
    \A s \in Streams : c.stream = s =>
        s \notin R /\ (engine[s].stopping => failing[s] = "closing" \/ Native(s))

\* Whoever sends is current or pending, and its TVs are listed unless their remove
\* is on its way, or waits for its close task.
Listed(c, R) ==
    \A s \in Streams : Sends(s) =>
        \/ s \in R \ torn
        \/ s \in {c.stream, c.pending} /\ Told(s) \subseteq c.targets

\* A Stop that is the latest call: nobody plays anything, what it waits for is all
\* there is to wait for, and its TV has at least its remove on the way.
StopInForce(c, R, q) ==
    /\ c.pending = None
    /\ q.pc = "removing" => q.active # None /\ c.stream \in {q.active, None}
                            /\ q.receiver \in Receivers
    /\ q.pc = "teardown" => R \subseteq q.wait
    /\ q.receiver = All => c.stream = None
    /\ c.stream # None => q.receiver \notin Told(c.stream)

StopsKept(c, p, R) ==
    \A k \in Stoppers : stops[k].pc # "idle" =>
        /\ 0 < stops[k].gen /\ stops[k].gen <= c.generation
        /\ p.pc # "preview" => p.gen # stops[k].gen
        /\ stops[k].pc = "removing" => stops[k].active # None /\ stops[k].wait = {}
        /\ Current(c, stops[k]) => StopInForce(c, R, stops[k])

\* Without a stream no TV is a target.  Two disagreements with the tests are known:
\* a Play on a browser page (the engine dies while the page opens) and one of direct
\* video (superseded while it replaces a stream) leave targets behind.
Plain == Pages = {} /\ Videos = {}
NoLeftovers(c) == Plain /\ c.stream = None => c.targets = {}

\* What holds whenever a handler is about to leave c, p and R, wherever the Play is.
Life(c, p, R) ==
    /\ PendingIsNew(c, p, R)
    /\ UnusedIsNowhere(c, p, R)
    /\ TornIsOver(c, p)
    /\ Accounted(c, p, R)
    /\ CurrentKept(c, R)
    /\ Listed(c, R)
    /\ StopsKept(c, p, R)
    /\ NoLeftovers(c)

\* A pending stream that its Play left behind.
LeftBehind(c, p) == c.pending \notin {None, p.new}

\* The phase shown without a stream, unless a Play that nobody superseded shows its own,
\* or has left it behind.
RestingPhase(c, p) ==
    Plain /\ c.stream = None =>
        \/ c.phase \in {"idle", "error"}
        \/ Current(c, p) /\ p.pc \notin {"idle", "preview"}
        \/ LeftBehind(c, p)

\* The Play may have spawned a process whose close task was done before.
Late(p) == p.pc = "closing" \/ (p.pc = "aborting" /\ p.cancelled)

\* What is known at the await where the Play is.
At(c, p, R) ==
    /\ p.pc \in Early => p.new = None
    /\ p.pc \in Warming \cup {"aborting"} => p.new \notin {None, c.stream}
    /\ p.pc = "adding" => p.active # None /\ p.new \in {None, p.active}
    /\ p.pc = "adding" /\ Current(c, p) => p.new \in {None, c.stream} \/ ~Running(p.new)
    /\ p.pc = "browse" => p.source \in Pages
    /\ p.pc = "spawning" => engine[p.new].proc = "created"
    /\ p.pc = "aborting" => engine[p.new].stopping
    /\ p.pc \in Warming \cup {"aborting"} /\ Current(c, p) => c.pending = p.new
    /\ p.pc = "replacing" /\ Current(c, p) /\ engine[p.new].stopping => Native(p.new)
    /\ Late(p) \/ \A s \in torn : ~Running(s)
    /\ p.pc = "removing" =>
         /\ p.same /\ p.active # None
         /\ StillActive(c, p) => Told(p.active) \subseteq p.target \cup p.todo
    /\ p.pc \in {"idle", "preview"} \/ p.gen > 0
    /\ p.pc = "idle" => p = NoPlay
    /\ p.pc \in {"preparing", "nreplacing", "nbrowser", "connecting"} =>
         p.source \in Videos /\ \E r \in Receivers : p.target = {r}
    /\ RestingPhase(c, p)

LifeInv == Life(ctl, play, retiring) /\ At(ctl, play, retiring)

-----------------------------------------------------------------------------
(* Parts of several handlers.                                              *)

\* What both except clauses leave of the Controller.
LEMMA EndedLeaves ==
    ASSUME NEW c \in Ctl, NEW p \in Play, CallOK(c, p),
           c.pending = None => c.pendingTargets = {}
    PROVE  LET e == Ended(c, p) IN
           /\ e.pending = IF c.pending = p.new THEN None ELSE c.pending
           /\ e.pending = None => e.pendingTargets = {}
           /\ e.stream = c.stream /\ e.generation = c.generation
           /\ c.stream # None \/ ~Current(c, p) \/ ~p.replaced => e.targets = c.targets
           /\ e.targets \subseteq c.targets
           /\ IF Current(c, p) THEN c.stream = None => e.phase = "idle" ELSE e.phase = c.phase
<1> DEFINE d == IF p.new # None /\ c.pending = p.new
                THEN [c EXCEPT !.pending = None, !.pendingTargets = {}] ELSE c
           f == IF p.replaced THEN [Cleared(d) EXCEPT !.stream = None] ELSE d
           e == IF p.source \notin Videos THEN d
                ELSE [f EXCEPT !.error = IF p.why = "none" THEN @ ELSE p.why]
<1>1. /\ d \in Ctl /\ d.generation = c.generation /\ d.stream = c.stream
      /\ d.pending = IF c.pending = p.new THEN None ELSE c.pending
      /\ d.pending = None => d.pendingTargets = {}
      /\ d.targets = c.targets /\ d.phase = c.phase
  BY DEF Ctl
<1>2. /\ f \in Ctl /\ f.generation = c.generation /\ f.stream = c.stream
      /\ f.pending = d.pending /\ (d.pending = None => f.pendingTargets = {})
      /\ f.targets \subseteq c.targets
      /\ c.stream # None \/ ~p.replaced => f.targets = c.targets
  <2> HIDE DEF d
  <2>1. /\ Cleared(d) \in Ctl /\ Cleared(d).generation = d.generation
        /\ Cleared(d).pending = d.pending /\ Cleared(d).targets = {}
        /\ Cleared(d).pendingTargets = d.pendingTargets
    BY <1>1, ClearedType DEF Cleared, Ctl
  <2>2. LET g == [Cleared(d) EXCEPT !.stream = None] IN
        /\ g \in Ctl /\ g.generation = d.generation /\ g.stream = None
        /\ g.pending = d.pending /\ g.targets = {} /\ g.pendingTargets = d.pendingTargets
    <3> HIDE DEF Cleared
    <3> QED BY <2>1 DEF Ctl
  <2> QED BY <1>1, <2>2 DEF CallOK
<1>3. /\ e \in Ctl /\ e.generation = c.generation /\ e.stream = c.stream
      /\ e.pending = d.pending /\ (d.pending = None => e.pendingTargets = {})
      /\ e.targets \subseteq c.targets
      /\ c.stream # None \/ ~p.replaced => e.targets = c.targets
  <2> HIDE DEF d, f
  <2> QED BY <1>1, <1>2 DEF Ctl, Play
<1>4. Ended(c, p) = IF Current(c, p) THEN [e EXCEPT !.phase = Resting(e)] ELSE d
  BY DEF Ended
<1>5. LET g == [e EXCEPT !.phase = Resting(e)] IN
      /\ g.generation = e.generation /\ g.stream = e.stream /\ g.pending = e.pending
      /\ g.pendingTargets = e.pendingTargets /\ g.targets = e.targets
      /\ e.stream = None => g.phase = "idle"
  <2> HIDE DEF e
  <2> QED BY <1>3, RestingType DEF Ctl, Resting
<1> HIDE DEF d, e
<1> QED BY <1>1, <1>3, <1>4, <1>5

\* What an except clause needs to know of the attributes and the call it ends.
CanFail(c, p) ==
    /\ CallOK(c, p) /\ p.gen > 0
    /\ p.pc # "preview"
    /\ Plain /\ c.stream = None =>
         c.phase \in {"idle", "error"} \/ Current(c, p) \/ LeftBehind(c, p)
    /\ p.cancelled \/ \A s \in torn : ~Running(s)
    /\ Current(c, p) /\ p.new \notin {None, c.stream} =>
         c.pending = p.new \/ ~Running(p.new)
    /\ Current(c, p) /\ p.replaced => ~LeftBehind(c, p)

\* An except clause loses no process, whatever state it interrupts.
LEMMA FailedLives ==
    ASSUME TypeOK, SenderInv, NEW c \in Ctl, NEW p \in Play, Failed(c, p),
           Life(c, p, retiring'), CanFail(c, p), UNCHANGED <<torn, failing, stops>>
    PROVE  LifeInv'
<1>1. \A s \in Streams : /\ engine'[s].sessions = engine[s].sessions
                         /\ Told(s)' = Told(s)
                         /\ engine'[s].proc = engine[s].proc
                         /\ engine'[s].src = engine[s].src
                         /\ engine[s].stopping => engine'[s].stopping
                         /\ engine'[s].stopping => engine[s].stopping
                                \/ (s = p.new /\ s # c.stream)
  BY DEF Failed, TypeOK, Engine, Play, Told
<1>2. c.pending = None => c.pendingTargets = {}
  BY DEF Life, PendingIsNew
<1>3. \A s \in Streams : /\ Running(s)' <=> Running(s)
                         /\ Sends(s)' <=> Sends(s)
                         /\ Native(s)' <=> Native(s)
                         /\ Sends(s) => Running(s)
  BY <1>1 DEF Running, Sends, Native, SenderInv, Silent
<1>4. CASE /\ play' = NoPlay /\ ctl' = Ended(c, p)
           /\ p.new # None /\ p.new # c.stream => ~Running(p.new)
  <2>1. /\ ctl'.pending = IF c.pending = p.new THEN None ELSE c.pending
        /\ ctl'.pending = None => ctl'.pendingTargets = {}
        /\ ctl'.stream = c.stream /\ ctl'.generation = c.generation
        /\ c.stream # None \/ ~Current(c, p) \/ ~p.replaced => ctl'.targets = c.targets
        /\ ctl'.targets \subseteq c.targets
        /\ IF Current(c, p) THEN c.stream = None => ctl'.phase = "idle"
           ELSE ctl'.phase = c.phase
    BY <1>2, <1>4, EndedLeaves DEF CanFail
  <2>2. play'.pc = "idle" /\ play'.gen = 0 /\ play'.new = None
    BY <1>4 DEF NoPlay
  <2>3. \A s \in torn : ~Running(s)'
    BY <1>3, <1>4, Values DEF Life, TornIsOver, TypeOK
  <2>4. PendingIsNew(ctl, play, retiring)' /\ UnusedIsNowhere(ctl, play, retiring)'
    <3>1. c.pending \in Streams \cup {None}
      BY DEF Ctl
    <3>2. ASSUME c.pending # None, c.pending # p.new
          PROVE  /\ ctl'.pending = c.pending /\ c.pending \in Streams
                 /\ engine'[c.pending].stopping
      BY <1>1, <2>1, <3>1, <3>2 DEF Life, PendingIsNew
    <3>3. PendingIsNew(ctl, play, retiring)'
      BY <2>1, <2>2, <3>2, Values DEF Life, PendingIsNew
    <3>4. UnusedIsNowhere(ctl, play, retiring)'
      <4>1. ASSUME NEW s \in Streams, engine'[s].proc = "unused"
            PROVE  /\ s \notin torn \cup retiring' \cup {c.stream, c.pending, p.new}
                   /\ ~engine[s].stopping
        BY <1>1, <4>1 DEF Life, UnusedIsNowhere
      <4>2. ASSUME NEW s \in Streams, engine'[s].proc = "unused"
            PROVE  ~engine'[s].stopping
        BY <1>1, <4>1, <4>2
      <4> QED BY <1>4, <2>1, <2>2, <4>1, <4>2, Values DEF UnusedIsNowhere
    <3> QED BY <3>3, <3>4
  <2>5. TornIsOver(ctl, play)' /\ Accounted(ctl, play, retiring)'
    <3>1. TornIsOver(ctl, play)'
      BY <2>3 DEF TornIsOver
    <3>2. ASSUME NEW s \in Streams, Running(s)
          PROVE  s \in {c.stream, ctl'.pending} \/ s \in retiring' \ torn
                 \/ engine[s].stopping
      BY <1>4, <2>1, <3>2, Values DEF Life, Accounted
    <3> QED BY <1>1, <1>3, <1>4, <2>1, <3>1, <3>2 DEF Accounted
  <2>6. CurrentKept(ctl, retiring)' /\ Listed(ctl, retiring)'
    <3>1. CurrentKept(ctl, retiring)'
      BY <1>1, <1>3, <2>1, Values DEF Life, CurrentKept
    <3>2. ASSUME NEW s \in Streams, Sends(s), s \notin retiring' \ torn
          PROVE  s \in {c.stream, ctl'.pending} /\ Told(s)' \subseteq ctl'.targets
      <4>1. s \in {c.stream, c.pending} /\ Told(s) \subseteq c.targets
        BY <3>2 DEF Life, Listed
      <4>2. Running(s) /\ s # None
        BY <1>3, <3>2, Values
      <4>3. s # p.new \/ s = c.stream
        BY <1>4, <4>2
      <4>4. CASE s = c.stream
        BY <1>1, <2>1, <4>1, <4>2, <4>4
      <4>5. CASE s = c.pending /\ s # c.stream
        <5>1. LeftBehind(c, p) /\ ctl'.pending = s
          BY <2>1, <4>2, <4>3, <4>5 DEF LeftBehind
        <5>2. ctl'.targets = c.targets
          BY <2>1, <5>1 DEF CanFail
        <5>3. Told(s)' = Told(s)
          BY <1>1
        <5> QED BY <4>1, <5>1, <5>2, <5>3
      <4> QED BY <4>1, <4>4, <4>5
    <3> QED BY <1>3, <2>1, <3>1, <3>2 DEF Listed
  <2>7. StopsKept(ctl, play, retiring)' /\ NoLeftovers(ctl)'
    BY <1>1, <2>1, <2>2 DEF Life, StopsKept, StopInForce, Current, NoLeftovers, Ctl
  <2>8. At(ctl, play, retiring)'
    BY <1>4, <2>1, <2>2, <2>3, Values
       DEF At, RestingPhase, LeftBehind, Late, CanFail, Early, Warming
  <2> QED BY <2>4, <2>5, <2>6, <2>7, <2>8 DEF LifeInv, Life
<1>5. CASE /\ p.new # None /\ p.new # c.stream
           /\ play' = [p EXCEPT !.pc = "aborting"] /\ ctl' = c
           /\ engine' = [engine EXCEPT ![p.new].stopping = TRUE]
           /\ Running(p.new)
  <2>1. /\ play'.pc = "aborting" /\ play'.new = p.new /\ play'.gen = p.gen
        /\ play'.cancelled = p.cancelled
    BY <1>5 DEF Play
  <2>2. engine'[p.new].stopping
    BY <1>5 DEF TypeOK, Engine, Play
  <2>4. PendingIsNew(ctl, play, retiring)' /\ UnusedIsNowhere(ctl, play, retiring)'
    BY <1>1, <1>5, <2>1, Values DEF Life, PendingIsNew, UnusedIsNowhere
  <2>5. TornIsOver(ctl, play)' /\ Accounted(ctl, play, retiring)'
    BY <1>1, <1>3, <1>5, <2>1 DEF Life, TornIsOver, Accounted, TypeOK
  <2>6. CurrentKept(ctl, retiring)' /\ Listed(ctl, retiring)'
    BY <1>1, <1>3, <1>5, Values DEF Life, CurrentKept, Listed
  <2>7. StopsKept(ctl, play, retiring)' /\ NoLeftovers(ctl)'
    BY <1>1, <1>5, <2>1 DEF Life, StopsKept, StopInForce, Current, NoLeftovers, Ctl, CanFail
  <2>8. At(ctl, play, retiring)'
    BY <1>3, <1>5, <2>1, <2>2
       DEF At, RestingPhase, LeftBehind, Late, CanFail, Early, Warming, Current, TypeOK
  <2> QED BY <2>4, <2>5, <2>6, <2>7, <2>8 DEF LifeInv, Life
<1>6. \/ /\ play' = NoPlay /\ ctl' = Ended(c, p)
         /\ p.new # None /\ p.new # c.stream => ~Running(p.new)
      \/ /\ p.new # None /\ p.new # c.stream
         /\ play' = [p EXCEPT !.pc = "aborting"] /\ ctl' = c
         /\ engine' = [engine EXCEPT ![p.new].stopping = TRUE]
         /\ Running(p.new)
  BY DEF Failed
<1> QED BY <1>4, <1>5, <1>6

\* What the parts of a Play that nobody superseded need to know.
CanGoOn(c, p) ==
    /\ CanFail(c, p) /\ ~p.replaced /\ Current(c, p)
    /\ \A s \in torn : ~Running(s)

\* No Stop is in force while a Play goes on.
LEMMA NoStopInForce ==
    ASSUME NEW c, NEW p, NEW R, Life(c, p, R), CanGoOn(c, p), NEW k \in Stoppers,
           stops[k].pc # "idle"
    PROVE  ~Current(c, stops[k])
BY DEF Life, StopsKept, CanGoOn, CanFail, Current

\* A TV is added to the current stream and becomes a target of it.
LEMMA ConnectNextLives ==
    ASSUME TypeOK, SenderInv, NEW c \in Ctl, NEW p \in Play, ConnectNext(c, p),
           Life(c, p, retiring'), CanGoOn(c, p), Owned(c),
           p.active = c.stream, p.new \in {None, c.stream}, Plain => c.stream # None,
           UNCHANGED <<torn, failing, stops>>
    PROVE  LifeInv'
<1> DEFINE need == {r \in p.todo : Needs(c, r)}
           d(r) == [c EXCEPT !.targets = @ \cup {r}, !.receivers[r] = "connecting"]
<1>1. /\ c.pending # None => /\ c.pending # c.stream /\ engine[c.pending].stopping
                             /\ c.pending \notin retiring'
      /\ c.pending = None => c.pendingTargets = {}
  BY DEF Life, PendingIsNew
<1>2. \A k \in Stoppers : stops[k].pc # "idle" => ~Current(c, stops[k])
  BY NoStopInForce
<1>3. CASE need = {} /\ ctl' = c /\ play' = NoPlay /\ UNCHANGED engine
  <2>1. play'.pc = "idle" /\ play'.gen = 0 /\ play'.new = None
    BY <1>3 DEF NoPlay
  <2>2. Life(ctl, play, retiring)'
    BY <1>1, <1>2, <1>3, <2>1, Values
       DEF Life, PendingIsNew, UnusedIsNowhere, TornIsOver, Accounted, CurrentKept, Listed,
           StopsKept, NoLeftovers, CanGoOn, Running, Sends, Told, Native, Current
  <2>3. At(ctl, play, retiring)'
    BY <1>3, <2>1 DEF At, RestingPhase, Late, Early, Warming, CanGoOn, Running
  <2> QED BY <2>2, <2>3 DEF LifeInv
<1>4. ASSUME NEW r \in need, NEW passed \in SUBSET (p.todo \ need),
             Accepts(p.active),
             ctl' = d(r),
             engine' = [engine EXCEPT ![p.active].sessions = Joined(p.active, r),
                                      ![p.active].leaving = @ \ {r}],
             play' = [p EXCEPT !.pc = "adding", !.cur = r,
                               !.todo = (@ \ {r}) \ passed]
      PROVE  LifeInv'
  <2>1. /\ play'.pc = "adding" /\ play'.gen = p.gen /\ play'.new = p.new
        /\ play'.active = p.active
        /\ ctl'.generation = c.generation /\ ctl'.stream = c.stream
        /\ ctl'.pending = c.pending /\ ctl'.pendingTargets = c.pendingTargets
        /\ ctl'.targets = c.targets \cup {r}
    BY <1>4 DEF Play, Ctl
  <2>2. /\ c.stream \in Streams /\ c.stream # None
        /\ engine'[c.stream].sessions = Joined(c.stream, r)
        /\ engine'[c.stream].leaving = engine[c.stream].leaving \ {r}
        /\ \A s \in Streams : /\ engine'[s].stopping = engine[s].stopping
                              /\ engine'[s].proc = engine[s].proc
                              /\ engine'[s].src = engine[s].src
                              /\ s # c.stream => engine'[s] = engine[s]
    BY <1>4, JoinedEffect, TypeParts DEF Accepts, Ctl
  <2>3. \A s \in Streams : /\ Running(s)' <=> Running(s)
                           /\ Native(s)' <=> Native(s)
                           /\ s # c.stream => (Sends(s)' <=> Sends(s))
    BY <2>2 DEF Running, Native, Sends
  <2>4. Listed(ctl, retiring)'
    <3>1. ASSUME NEW s \in Streams, Sends(s)'
          PROVE  \/ s \in retiring' \ torn
                 \/ s = c.stream /\ Told(s)' \subseteq c.targets \cup {r}
      <4>1. CASE s = c.stream
        <5>1. Told(s) \subseteq c.targets
          BY <1>1, <2>2, <4>1 DEF Life, Listed, CurrentKept, Sends, Told
        <5> QED BY <2>2, <4>1, <5>1 DEF Joined, Told
      <4>2. CASE s # c.stream
        BY <2>3, <3>1, <4>2 DEF Owned
      <4> QED BY <4>1, <4>2
    <3> QED BY <2>1, <3>1 DEF Listed
  <2>5. PendingIsNew(ctl, play, retiring)' /\ UnusedIsNowhere(ctl, play, retiring)'
    <3>1. c.pending # None => engine'[c.pending].stopping
      BY <1>1, <2>2 DEF Ctl
    <3> QED BY <1>1, <2>1, <2>2, <3>1, Values DEF Life, PendingIsNew, UnusedIsNowhere
  <2>7. /\ TornIsOver(ctl, play)' /\ Accounted(ctl, play, retiring)'
        /\ CurrentKept(ctl, retiring)'
    BY <2>1, <2>2, <2>3
       DEF Life, TornIsOver, Accounted, CurrentKept, CanGoOn, TypeOK
  <2>8. StopsKept(ctl, play, retiring)' /\ NoLeftovers(ctl)'
    BY <1>2, <2>1, <2>2 DEF Life, StopsKept, NoLeftovers, CanGoOn, CanFail, Current
  <2>6. At(ctl, play, retiring)'
    BY <2>1, <2>2, <2>3
       DEF At, RestingPhase, Late, Early, Warming, CanGoOn, CanFail, TypeOK
  <2> QED BY <2>4, <2>5, <2>6, <2>7, <2>8 DEF LifeInv, Life
<1>5. ASSUME NEW r \in need, Failed(d(r), p)
      PROVE  LifeInv'
  <2>1. r \in Receivers
    BY DEF Play
  <2>2. /\ d(r) \in Ctl /\ d(r).stream = c.stream /\ d(r).generation = c.generation
        /\ d(r).pending = c.pending /\ d(r).pendingTargets = c.pendingTargets
        /\ d(r).targets = c.targets \cup {r} /\ d(r).phase = c.phase
    BY <2>1 DEF Ctl, Phases, ReceiverStates
  <2> HIDE DEF d
  <2>3. CanFail(d(r), p)
    BY <2>2 DEF CanGoOn, CanFail, CallOK, Current, LeftBehind
  <2>4. Life(d(r), p, retiring')
    BY <1>2, <2>2
       DEF Life, PendingIsNew, UnusedIsNowhere, TornIsOver, Accounted, CurrentKept, Listed,
           StopsKept, NoLeftovers, Current
  <2> QED BY <1>5, <2>2, <2>3, <2>4, FailedLives
<1> QED BY <1>3, <1>4, <1>5 DEF ConnectNext

LEMMA ConnectLives ==
    ASSUME TypeOK, SenderInv, NEW c \in Ctl, NEW p \in Play, Connect(c, p),
           Life(c, p, retiring'), CanGoOn(c, p), Owned(c),
           p.new \in {None, c.stream}, Plain => c.stream # None,
           UNCHANGED <<torn, failing, stops>>
    PROVE  LifeInv'
<1> DEFINE d == [c EXCEPT !.source = p.source, !.phase = "connecting"]
           q == [p EXCEPT !.active = c.stream, !.todo = p.target]
<1>1. /\ d \in Ctl /\ d.stream = c.stream /\ d.generation = c.generation
      /\ d.pending = c.pending /\ d.pendingTargets = c.pendingTargets
      /\ d.targets = c.targets
  BY DEF Ctl, Play, Phases
<1>2. /\ q \in Play /\ q.active = c.stream /\ q.gen = p.gen /\ q.replaced = p.replaced
      /\ q.pc = p.pc /\ q.new = p.new /\ q.cancelled = p.cancelled
  BY DEF Ctl, Play
<1>3. ConnectNext(d, q)
  BY DEF Connect
<1> HIDE DEF d, q
<1>4. CanGoOn(d, q) /\ Owned(d)
  BY <1>1, <1>2 DEF CanGoOn, CanFail, CallOK, Current, Owned, LeftBehind
<1>5. Life(d, q, retiring')
  BY <1>1, <1>2
     DEF Life, PendingIsNew, UnusedIsNowhere, TornIsOver, Accounted, CurrentKept, Listed,
         StopsKept, StopInForce, NoLeftovers, Current
<1> QED BY <1>1, <1>2, <1>3, <1>4, <1>5, ConnectNextLives

\* A warm stream is adopted when nobody sends and nobody is being given up.
LEMMA AdoptLives ==
    ASSUME TypeOK, SenderInv, NEW c \in Ctl, NEW p \in Play, Adopt(c, p),
           Life(c, p, {}), CanGoOn(c, p), retiring' = {}, c.stream = None,
           p.new # None, c.pending = p.new, engine[p.new].stopping => Native(p.new),
           \A s \in Streams : ~Sends(s), UNCHANGED <<torn, failing, stops>>
    PROVE  LifeInv'
<1> DEFINE d == [Cleared(c) EXCEPT !.stream = p.new, !.pending = None,
                                   !.pendingTargets = {}]
<1>1. /\ d \in Ctl /\ d.generation = c.generation /\ d.stream = p.new
      /\ d.pending = None /\ d.pendingTargets = {}
  <2>1. Cleared(c) \in Ctl /\ Cleared(c).generation = c.generation
    BY ClearedType DEF Ctl, Cleared
  <2> HIDE DEF Cleared
  <2> QED BY <2>1 DEF Ctl, Play
<1>2. Connect(d, p)
  BY DEF Adopt
<1> HIDE DEF d
<1>3. CanGoOn(d, p) /\ Owned(d)
  BY <1>1 DEF CanGoOn, CanFail, CallOK, Current, Owned
<1>4. \A k \in Stoppers : stops[k].pc # "idle" => ~Current(c, stops[k])
  BY NoStopInForce
<1>5. Life(d, p, {})
  BY <1>1, <1>4, Values
     DEF Life, PendingIsNew, UnusedIsNowhere, TornIsOver, Accounted, CurrentKept, Listed,
         StopsKept, NoLeftovers, Current, CanGoOn
<1> QED BY <1>1, <1>2, <1>3, <1>5, ConnectLives

\* A new process is the pending one.
LEMMA LaunchLives ==
    ASSUME TypeOK, SenderInv, NEW c \in Ctl, NEW p \in Play, Launch(c, p),
           Life(c, p, retiring'), CanGoOn(c, p), Owned(c),
           p.new = None, Plain /\ p.same => c.stream # None,
           UNCHANGED <<torn, failing, stops>>
    PROVE  LifeInv'
<1>1. CASE p.same
  BY <1>1, ConnectLives DEF Launch
<1>2. ASSUME NEW s \in Fresh,
             engine' = [engine EXCEPT ![s].src = p.source, ![s].proc = "created"],
             ctl' = [c EXCEPT !.phase = "preparing", !.pending = s,
                              !.pendingTargets = p.target],
             play' = [p EXCEPT !.pc = "spawning", !.new = s]
      PROVE  LifeInv'
  <2>1. s \in Streams /\ s # None /\ engine[s].proc = "unused"
    BY Values DEF Fresh
  <2>2. /\ play'.pc = "spawning" /\ play'.gen = p.gen /\ play'.new = s
        /\ ctl'.generation = c.generation /\ ctl'.stream = c.stream
        /\ ctl'.pending = s /\ ctl'.targets = c.targets
    BY <1>2, <2>1 DEF Play, Ctl
  <2>3. \A t \in Streams : /\ engine'[t].sessions = engine[t].sessions
                           /\ engine'[t].leaving = engine[t].leaving
                           /\ engine'[t].stopping = engine[t].stopping
                           /\ t # s => engine'[t] = engine[t]
    BY <1>2, <2>1 DEF TypeOK, Engine
  <2>4. engine'[s].proc = "created" /\ ~Running(s) /\ ~Running(s)'
    BY <1>2, <2>1 DEF TypeOK, Engine, Running
  <2>5. \A k \in Stoppers : stops[k].pc # "idle" => ~Current(c, stops[k])
    BY NoStopInForce
  <2>6. \A t \in Streams : (Running(t)' <=> Running(t)) /\ (Sends(t)' <=> Sends(t))
    BY <2>3, <2>4 DEF Running, Sends
  <2>7. /\ s # c.stream /\ s \notin retiring' /\ s \notin torn
        /\ c.pending # None => engine[c.pending].stopping
    BY <2>1 DEF Life, PendingIsNew, UnusedIsNowhere
  <2>8. PendingIsNew(ctl, play, retiring)' /\ UnusedIsNowhere(ctl, play, retiring)'
    BY <2>1, <2>2, <2>3, <2>4, <2>7 DEF Life, PendingIsNew, UnusedIsNowhere
  <2>9. TornIsOver(ctl, play)' /\ Accounted(ctl, play, retiring)'
    BY <2>2, <2>3, <2>6, <2>7, Values DEF Life, TornIsOver, Accounted, CanGoOn, TypeOK
  <2>10. CurrentKept(ctl, retiring)' /\ Listed(ctl, retiring)'
    BY <2>2, <2>3, <2>6, <2>7, Values
       DEF Life, CurrentKept, Listed, Native, Owned, Told
  <2>11. StopsKept(ctl, play, retiring)' /\ NoLeftovers(ctl)'
    BY <2>2, <2>5 DEF Life, StopsKept, NoLeftovers, Current, CanGoOn, CanFail
  <2>12. At(ctl, play, retiring)'
    BY <2>1, <2>2, <2>4, <2>6, <2>7
       DEF At, RestingPhase, Late, Early, Warming, CanGoOn, CanFail, TypeOK, Current
  <2> QED BY <2>8, <2>9, <2>10, <2>11, <2>12 DEF LifeInv, Life
<1> QED BY <1>1, <1>2 DEF Launch

\* A same-source Play removes the TVs it no longer names from the stream it joins.
Joins(c, p) ==
    p.same => /\ p.active = c.stream /\ p.active # None
              /\ Told(p.active) \subseteq p.target \cup p.todo

LEMMA RemoveNextLives ==
    ASSUME TypeOK, SenderInv, NEW c \in Ctl, NEW p \in Play, RemoveNext(c, p),
           Life(c, p, retiring'), CanGoOn(c, p), Owned(c), Joins(c, p),
           p.new = None, p.todo # {} => p.same,
           UNCHANGED <<torn, failing, stops>>
    PROVE  LifeInv'
<1>1. ASSUME NEW r \in p.todo, Accepts(p.active), ctl' = c,
             engine' = [engine EXCEPT ![p.active].leaving = Left(p.active, r)],
             play' = [p EXCEPT !.pc = "removing", !.cur = r, !.todo = @ \ {r}]
      PROVE  LifeInv'
  <2>1. /\ play'.pc = "removing" /\ play'.gen = p.gen /\ play'.new = None
        /\ play'.active = p.active /\ play'.same = p.same /\ play'.target = p.target
        /\ play'.todo = p.todo \ {r}
    BY <1>1 DEF Play
  <2>2. /\ p.active \in Streams
        /\ Told(p.active)' = Told(p.active) \ {r}
        /\ \A s \in Streams : /\ Told(s)' \subseteq Told(s)
                              /\ engine'[s].sessions = engine[s].sessions
                              /\ engine'[s].proc = engine[s].proc
                              /\ engine'[s].src = engine[s].src
                              /\ engine'[s].stopping = engine[s].stopping
    <3>1. p.active \in Streams
      BY <1>1 DEF Accepts, Play
    <3>2. /\ engine'[p.active].leaving = Left(p.active, r)
          /\ \A s \in Streams : /\ engine'[s].sessions = engine[s].sessions
                                /\ engine'[s].proc = engine[s].proc
                                /\ engine'[s].src = engine[s].src
                                /\ engine'[s].stopping = engine[s].stopping
                                /\ s # p.active => engine'[s].leaving = engine[s].leaving
      <4>1. Typed /\ engine' = [engine EXCEPT ![p.active].leaving = Left(p.active, r)]
        BY <1>1, TypeParts
      <4>2. \A t \in Streams : /\ engine'[t].sessions = engine[t].sessions
                               /\ engine'[t].proc = engine[t].proc
                               /\ engine'[t].stopping = engine[t].stopping
                               /\ engine'[t].src = engine[t].src
                               /\ t # p.active => engine'[t].leaving = engine[t].leaving
        BY <3>1, <4>1, LeftEffect
      <4>3. engine'[p.active].leaving = Left(p.active, r)
        BY <3>1, <4>1, LeftEffect, Zenon
      <4> QED BY <4>2, <4>3
    <3>3. Told(p.active)' = Told(p.active) \ {r}
      BY <3>1, <3>2 DEF Left, Told
    <3>4. ASSUME NEW s \in Streams
          PROVE  Told(s)' \subseteq Told(s)
      <4>1. CASE s = p.active
        BY <3>3, <4>1
      <4>2. CASE s # p.active
        BY <3>2, <4>2 DEF Told
      <4> QED BY <4>1, <4>2
    <3> QED BY <3>1, <3>2, <3>3, <3>4
  <2>3. \A s \in Streams : /\ Running(s)' <=> Running(s)
                           /\ Native(s)' <=> Native(s)
                           /\ Sends(s)' <=> Sends(s)
    BY <2>2 DEF Running, Native, Sends
  <2>4. PendingIsNew(ctl, play, retiring)' /\ UnusedIsNowhere(ctl, play, retiring)'
    BY <1>1, <2>1, <2>2, Values DEF Life, PendingIsNew, UnusedIsNowhere, Ctl
  <2>5. TornIsOver(ctl, play)' /\ Accounted(ctl, play, retiring)'
    BY <1>1, <2>1, <2>2, <2>3 DEF Life, TornIsOver, Accounted, TypeOK
  <2>6. CurrentKept(ctl, retiring)' /\ Listed(ctl, retiring)'
    BY <1>1, <2>2, <2>3 DEF Life, CurrentKept, Listed
  <2>7. StopsKept(ctl, play, retiring)' /\ NoLeftovers(ctl)'
    BY <1>1, <2>1, NoStopInForce
       DEF Life, StopsKept, NoLeftovers, CanGoOn, CanFail, Current
  <2>8. At(ctl, play, retiring)'
    BY <1>1, <2>1, <2>2, <2>3
       DEF At, RestingPhase, LeftBehind, Late, Early, Warming, CanGoOn, CanFail, TypeOK,
           Joins, Current
  <2> QED BY <2>4, <2>5, <2>6, <2>7, <2>8 DEF LifeInv, Life
<1>2. CASE Failed(c, p)
  BY <1>2, FailedLives DEF CanGoOn
<1>3. CASE p.todo = {}
  <2> DEFINE d == IF p.same THEN [c EXCEPT !.targets = @ \cap p.target] ELSE c
  <2>1. /\ d \in Ctl /\ d.stream = c.stream /\ d.generation = c.generation
        /\ d.pending = c.pending /\ d.pendingTargets = c.pendingTargets
        /\ d.phase = c.phase /\ d.targets \subseteq c.targets
        /\ d.targets = IF p.same THEN c.targets \cap p.target ELSE c.targets
    BY DEF Ctl
  <2>2. CanGoOn(d, p) /\ Owned(d)
    BY <2>1 DEF CanGoOn, CanFail, CallOK, Current, Owned, LeftBehind
  <2>4. Listed(d, retiring')
    BY <1>3, <2>1, Values DEF Life, Listed, Joins, Owned
  <2>5. Life(d, p, retiring')
    BY <2>1, <2>4
       DEF Life, PendingIsNew, UnusedIsNowhere, TornIsOver, Accounted, CurrentKept,
           StopsKept, StopInForce, NoLeftovers, Current
  <2>6. CASE p.source \in Pages
    <3>1. play' = [p EXCEPT !.pc = "browse"] /\ ctl' = d /\ UNCHANGED engine
      BY <1>3, <2>6 DEF RemoveNext
    <3>2. /\ play'.pc = "browse" /\ play'.gen = p.gen /\ play'.new = None
          /\ play'.source = p.source
      BY <3>1 DEF Play
    <3> HIDE DEF d
    <3>3. Life(ctl, play, retiring)'
      BY <2>2, <2>5, <3>1, <3>2, NoStopInForce
         DEF Life, PendingIsNew, UnusedIsNowhere, TornIsOver, Accounted, CurrentKept,
             Listed, StopsKept, NoLeftovers, Current, CanGoOn, Running, Sends, Told,
             Native
    <3>4. At(ctl, play, retiring)'
      BY <2>2, <2>6, <3>1, <3>2
         DEF At, RestingPhase, Late, Early, Warming, CanGoOn, CanFail, Running, Current
    <3> QED BY <3>3, <3>4 DEF LifeInv
  <2>7. CASE p.source \notin Pages
    <3>1. Launch(d, p)
      BY <1>3, <2>7 DEF RemoveNext
    <3>2. p.same => d.stream # None
      BY <2>1 DEF Joins
    <3> HIDE DEF d
    <3> QED BY <2>1, <2>2, <2>5, <3>1, <3>2, LaunchLives
  <2> QED BY <2>6, <2>7
<1> QED BY <1>1, <1>2, <1>3 DEF RemoveNext

LEMMA PrepareLives ==
    ASSUME TypeOK, SenderInv, NEW c \in Ctl, NEW p \in Play, Prepare(c, p),
           Life(c, p, retiring'), CanGoOn(c, p), Owned(c), p.new = None,
           p.source \in Videos, \E r \in Receivers : p.target = {r},
           UNCHANGED <<torn, failing, stops>>
    PROVE  LifeInv'
<1>1. PICK s \in Fresh :
             /\ engine' = [engine EXCEPT ![s].src = p.source, ![s].proc = "alive"]
             /\ ctl' = [c EXCEPT !.phase = "preparing", !.pending = s,
                                 !.pendingTargets = p.target]
             /\ play' = [p EXCEPT !.pc = "preparing", !.new = s]
  BY DEF Prepare
<1>2. s \in Streams /\ s # None /\ engine[s].proc = "unused"
  BY Values DEF Fresh
<1>3. /\ play'.pc = "preparing" /\ play'.gen = p.gen /\ play'.new = s
      /\ play'.target = p.target /\ play'.source = p.source
      /\ ctl'.generation = c.generation /\ ctl'.stream = c.stream
      /\ ctl'.pending = s /\ ctl'.targets = c.targets
  BY <1>1, <1>2 DEF Play, Ctl
<1>4. /\ engine'[s].proc = "alive"
      /\ \A t \in Streams : /\ engine'[t].sessions = engine[t].sessions
                            /\ engine'[t].leaving = engine[t].leaving
                            /\ engine'[t].stopping = engine[t].stopping
                            /\ t # s => engine'[t] = engine[t]
  BY <1>1, <1>2 DEF TypeOK, Engine
<1>5. \A t \in Streams : /\ t # s => (Running(t)' <=> Running(t))
                         /\ Sends(t)' <=> Sends(t)
  BY <1>4 DEF Running, Sends
<1>6. /\ s # c.stream /\ s \notin retiring' /\ s \notin torn
      /\ c.pending # None => engine[c.pending].stopping
  BY <1>2 DEF Life, PendingIsNew, UnusedIsNowhere
<1>7. PendingIsNew(ctl, play, retiring)' /\ UnusedIsNowhere(ctl, play, retiring)'
  BY <1>2, <1>3, <1>4, <1>6 DEF Life, PendingIsNew, UnusedIsNowhere
<1>8. TornIsOver(ctl, play)' /\ Accounted(ctl, play, retiring)'
  BY <1>3, <1>4, <1>5, <1>6, Values DEF Life, TornIsOver, Accounted, CanGoOn, TypeOK
<1>9. CurrentKept(ctl, retiring)' /\ Listed(ctl, retiring)'
  BY <1>3, <1>4, <1>5, <1>6, Values DEF Life, CurrentKept, Listed, Native, Owned, Told
<1>10. StopsKept(ctl, play, retiring)' /\ NoLeftovers(ctl)'
  BY <1>3, NoStopInForce DEF Life, StopsKept, NoLeftovers, Current, CanGoOn, CanFail
<1>11. At(ctl, play, retiring)'
  BY <1>2, <1>3, <1>5, <1>6
     DEF At, RestingPhase, Late, Early, Warming, CanGoOn, CanFail, TypeOK, Current
<1> QED BY <1>7, <1>8, <1>9, <1>10, <1>11 DEF LifeInv, Life

-----------------------------------------------------------------------------
(* The steps of a Play.                                                    *)

\* Keys of close tasks that are done may be forgotten.
LEMMA FewerKeys ==
    ASSUME NEW c, NEW p, NEW R, NEW Q, Life(c, p, R), Q \subseteq R, R \ torn \subseteq Q
    PROVE  Life(c, p, Q)
<1>1. PendingIsNew(c, p, Q) /\ UnusedIsNowhere(c, p, Q)
  BY DEF Life, PendingIsNew, UnusedIsNowhere
<1>2. TornIsOver(c, p) /\ Accounted(c, p, Q)
  BY DEF Life, TornIsOver, Accounted
<1>3. CurrentKept(c, Q) /\ Listed(c, Q)
  BY DEF Life, CurrentKept, Listed
<1>4. StopsKept(c, p, Q) /\ NoLeftovers(c)
  BY DEF Life, StopsKept, StopInForce, NoLeftovers
<1> QED BY <1>1, <1>2, <1>3, <1>4 DEF Life

\* A call in progress may fail at any await, and go on if nobody superseded it.
LEMMA InProgressLives ==
    ASSUME TypeOK, SenderInv, LifeInv, play.pc \notin {"idle", "preview"}
    PROVE  /\ CanFail(ctl, [play EXCEPT !.cancelled = TRUE])
           /\ play.pc \notin {"closing", "aborting"} \/ engine[play.new].proc = "reaped"
                  => CanFail(ctl, play)
           /\ Current(ctl, play) /\ ~play.replaced /\ play.pc \notin {"closing", "aborting"}
                  => CanGoOn(ctl, play)
<1> DEFINE p == [play EXCEPT !.cancelled = TRUE]
<1>1. /\ p \in Play /\ p.cancelled /\ p.pc = play.pc /\ p.new = play.new /\ p.gen = play.gen
      /\ p.replaced = play.replaced
  BY DEF TypeOK, Play
<1>2. Current(ctl, play) /\ play.new \notin {None, ctl.stream} =>
          ctl.pending = play.new \/ ~Running(play.new)
  BY DEF LifeInv, At, Early, Warming, TypeOK, Play, PlayPCs
<1>3. /\ play.pc \notin {"closing", "aborting"} => \A s \in torn : ~Running(s)
      /\ engine[play.new].proc = "reaped" => \A s \in torn : ~Running(s)
  BY DEF LifeInv, Life, At, Late, TornIsOver, Running, TypeOK
<1>4. /\ CallOK(ctl, play) /\ play.gen > 0
      /\ Plain /\ ctl.stream = None =>
           \/ ctl.phase \in {"idle", "error"}
           \/ Current(ctl, play)
           \/ LeftBehind(ctl, play)
  BY InProgress DEF LifeInv, At, RestingPhase
<1>5. Current(ctl, play) /\ play.replaced => ~LeftBehind(ctl, play)
  <2>1. play.replaced =>
          play.pc \in {"nreplacing", "nbrowser", "connecting", "aborting"}
    BY DEF SenderInv, Streamless
  <2>2. play.pc \in Warming \cup {"aborting"} /\ Current(ctl, play)
          => ctl.pending = play.new
    BY DEF LifeInv, At
  <2> QED BY <2>1, <2>2 DEF Warming, LeftBehind
<1>6. CanFail(ctl, p)
  <2> HIDE DEF p
  <2> QED BY <1>1, <1>2, <1>4, <1>5 DEF CanFail, CallOK, Current, LeftBehind
<1> QED BY <1>2, <1>3, <1>4, <1>5, <1>6 DEF CanFail, CanGoOn

\* A stream that is current and sends, sends to its targets.
LEMMA CurrentIsListed ==
    ASSUME NEW c, NEW p, NEW R, Life(c, p, R), c.stream \in Streams
    PROVE  Told(c.stream) \subseteq c.targets
BY DEF Life, Listed, CurrentKept, Sends, Told

\* A Play begins with the attributes c and the locals q.
Begins(c, q, src) ==
    /\ c.stream = ctl.stream /\ c.generation = ctl.generation + 1
    /\ c.pending = ctl.pending /\ c.pendingTargets = ctl.pendingTargets
    /\ c.targets = ctl.targets
    /\ q.gen = c.generation /\ ~q.replaced /\ q.new = None /\ q.pc = "idle"
    /\ q.source = src
    /\ q.same => /\ ctl.stream # None /\ q.active = ctl.stream
                 /\ ctl.targets \subseteq q.target \cup q.todo
    /\ q.todo # {} => q.same
    /\ \/ Prepare(c, q) /\ src \in Videos /\ \E r \in Receivers : q.target = {r}
       \/ RemoveNext(c, q)

LEMMA PlayBegins ==
    ASSUME TypeOK, NEW src \in Sources, NEW wanted \in (SUBSET Receivers) \ {{}},
           NEW add \in BOOLEAN, PlayBegin(src, wanted, add)
    PROVE  /\ play.pc = "idle" /\ UNCHANGED <<retiring, torn, failing, stops>>
           /\ \E c \in Ctl, q \in Play : Begins(c, q, src)
<1> DEFINE target == IF add THEN wanted \cup ctl.targets ELSE wanted
           same == SameSource(ctl, src)
           c == [ctl EXCEPT !.generation = @ + 1, !.error = "none"]
           gen == c.generation
           todo == IF same THEN ctl.targets \ target ELSE {}
           q == [NoPlay EXCEPT !.source = src, !.target = target, !.same = same,
                               !.gen = gen, !.active = ctl.stream, !.todo = todo]
<1>1. /\ c \in Ctl /\ c.stream = ctl.stream /\ c.generation = ctl.generation + 1
      /\ c.pending = ctl.pending /\ c.pendingTargets = ctl.pendingTargets
      /\ c.targets = ctl.targets
  <2> DEFINE b == [ctl EXCEPT !.generation = @ + 1]
  <2>1. /\ b \in Ctl /\ b.stream = ctl.stream /\ b.generation = ctl.generation + 1
        /\ b.pending = ctl.pending /\ b.pendingTargets = ctl.pendingTargets
        /\ b.targets = ctl.targets
    BY DEF TypeOK, Ctl
  <2>2. c = [b EXCEPT !.error = "none"]
    BY DEF TypeOK, Ctl
  <2> HIDE DEF b, c
  <2> QED BY <2>1, <2>2 DEF Ctl, Errors
<1>2. same \in BOOLEAN /\ target \in SUBSET Receivers
  <2>1. same \in BOOLEAN
    BY DEF SameSource
  <2>2. ctl.targets \in SUBSET Receivers
    BY DEF TypeOK, Ctl
  <2> QED BY <2>1, <2>2
<1>3. /\ gen \in Nat /\ gen = c.generation /\ ctl.stream \in Streams \cup {None}
      /\ todo \in SUBSET Receivers
      /\ todo # {} => same
      /\ same => ctl.targets \subseteq target \cup todo
  <2> HIDE DEF c
  <2> QED BY <1>1, <1>2 DEF TypeOK, Ctl
<1>4. /\ q \in Play /\ q.gen = gen /\ ~q.replaced /\ q.new = None
      /\ q.pc = "idle" /\ q.same = same /\ q.active = ctl.stream
      /\ q.target = target /\ q.todo = todo /\ q.source = src
  <2> HIDE DEF target, same, gen, todo
  <2>1. q \in Play
    BY <1>2, <1>3, NewPlayType
  <2>2. /\ q.gen = gen /\ q.replaced = FALSE /\ q.new = None /\ q.pc = "idle"
        /\ q.same = same /\ q.active = ctl.stream
    BY DEF NoPlay
  <2>3. q.target = target /\ q.todo = todo /\ q.source = src
    BY DEF NoPlay
  <2> QED BY <2>1, <2>2, <2>3
<1>5. \/ Prepare(c, q) /\ src \in Videos /\ \E r \in Receivers : target = {r}
      \/ RemoveNext(c, q)
  BY DEF PlayBegin
<1>6. same => ctl.stream # None
  BY DEF SameSource
<1>7. play.pc = "idle" /\ UNCHANGED <<retiring, torn, failing, stops>>
  BY Zenon DEF PlayBegin
<1> HIDE DEF c, q, gen, target, same, todo
<1>8. Begins(c, q, src)
  BY <1>1, <1>3, <1>4, <1>5, <1>6 DEF Begins
<1> QED BY <1>1, <1>4, <1>7, <1>8

\* A Play or a preview begins.
LEMMA LockLives ==
    ASSUME TypeOK, SenderInv, LifeInv, Lock
    PROVE  LifeInv'
<1>1. ASSUME NEW src \in Sources, NEW wanted \in (SUBSET Receivers) \ {{}},
             NEW add \in BOOLEAN, PlayBegin(src, wanted, add)
      PROVE  LifeInv'
  <2>1. PICK c \in Ctl, q \in Play : Begins(c, q, src)
    BY <1>1, PlayBegins
  <2>2. play.pc = "idle" /\ UNCHANGED <<retiring, torn, failing, stops>>
    BY <1>1, PlayBegins
  <2>3. play.new = None /\ \A s \in torn : ~Running(s)
    BY <2>2 DEF LifeInv, At, Late, Early
  <2>4. CanGoOn(c, q) /\ Owned(c)
    BY <2>1, <2>2, <2>3, InProgress
       DEF Begins, CanGoOn, CanFail, CallOK, Owned, Current, TypeOK, Ctl
  <2>5. StopsKept(c, q, retiring')
    BY <2>1, <2>2 DEF Begins, LifeInv, Life, StopsKept, Current, TypeOK, Ctl, Stop
  <2>6. Life(c, q, retiring')
    BY <2>1, <2>2, <2>3, <2>5
       DEF Begins, LifeInv, Life, PendingIsNew, UnusedIsNowhere, TornIsOver, Accounted,
           CurrentKept, Listed, NoLeftovers
  <2>7. Joins(c, q) /\ q.new = None /\ (q.todo # {} => q.same)
    <3>1. ctl.stream \in Streams => Told(ctl.stream) \subseteq ctl.targets
      BY CurrentIsListed DEF LifeInv
    <3> QED BY <2>1, <3>1 DEF Begins, Joins, TypeOK, Ctl
  <2>8. CASE RemoveNext(c, q)
    BY <2>2, <2>4, <2>6, <2>7, <2>8, RemoveNextLives
  <2>9. CASE Prepare(c, q) /\ q.source \in Videos /\ \E r \in Receivers : q.target = {r}
    BY <2>2, <2>4, <2>6, <2>7, <2>9, PrepareLives
  <2> QED BY <2>1, <2>8, <2>9 DEF Begins
<1>2. ASSUME NEW src \in Pages, PreviewBegin(src)
      PROVE  LifeInv'
  <2>1. /\ play'.pc = "preview" /\ play'.gen = ctl.generation /\ play'.new = None
        /\ play.pc = "idle" /\ UNCHANGED <<ctl, engine, retiring, torn, failing, stops>>
    BY <1>2 DEF PreviewBegin, NoPlay
  <2>2. play.new = None /\ \A s \in torn : ~Running(s)
    BY <2>1 DEF LifeInv, At, Late, Early
  <2>3. Life(ctl, play, retiring)'
    BY <2>1, <2>2
       DEF LifeInv, Life, PendingIsNew, UnusedIsNowhere, TornIsOver, Accounted,
           CurrentKept, Listed, StopsKept, StopInForce, NoLeftovers, Running, Sends,
           Told, Native, Current
  <2>4. At(ctl, play, retiring)'
    BY <2>1, <2>2
       DEF LifeInv, At, RestingPhase, LeftBehind, Late, Early, Warming, Running
  <2> QED BY <2>3, <2>4 DEF LifeInv
<1> QED BY <1>1, <1>2 DEF Lock

\* The steps of a Play up to the adoption of its stream.
LEMMA WarmupLives ==
    ASSUME TypeOK, SenderInv, LifeInv,
           PlayRemoved \/ PlayBrowsed \/ PlaySpawned \/ PlayStartClosed
           \/ PlayNotWarmed
    PROVE  LifeInv'
<1>1. /\ UNCHANGED <<retiring, torn, failing, stops>>
      /\ play.pc \notin {"idle", "preview"} /\ ctl \in Ctl /\ play \in Play
      /\ play.pc \notin {"closing", "aborting"} \/ engine[play.new].proc = "reaped"
  BY DEF PlayRemoved, PlayBrowsed, PlaySpawned, PlayStartClosed, PlayNotWarmed, TypeOK
<1>2. Life(ctl, play, retiring')
  BY <1>1 DEF LifeInv
<1>3. CASE Failed(ctl, play)
  BY <1>1, <1>2, <1>3, FailedLives, InProgressLives
<1>4. CASE PlayRemoved /\ ~Failed(ctl, play)
  <2> DEFINE c == [ctl EXCEPT !.receivers[play.cur] = "absent"]
  <2>1. /\ c \in Ctl /\ c.stream = ctl.stream /\ c.generation = ctl.generation
        /\ c.pending = ctl.pending /\ c.pendingTargets = ctl.pendingTargets
        /\ c.targets = ctl.targets /\ c.phase = ctl.phase
    BY DEF TypeOK, Ctl, ReceiverStates
  <2>2. RemoveNext(c, play) /\ play.pc = "removing" /\ StillActive(ctl, play)
    BY <1>4 DEF PlayRemoved
  <2>3. CanGoOn(ctl, play) /\ Owned(ctl)
    BY <1>1, <2>2, InProgress, InProgressLives DEF SenderInv, Streamless, StillActive
  <2> HIDE DEF c
  <2>4. CanGoOn(c, play) /\ Owned(c)
    BY <2>1, <2>3 DEF CanGoOn, CanFail, CallOK, Current, Owned, LeftBehind
  <2>5. Life(c, play, retiring')
    BY <1>2, <2>1
       DEF Life, PendingIsNew, UnusedIsNowhere, TornIsOver, Accounted, CurrentKept,
           Listed, StopsKept, StopInForce, NoLeftovers, Current
  <2>6. Joins(c, play) /\ play.new = None /\ play.same
    BY <2>1, <2>2 DEF LifeInv, At, Joins, StillActive, Early
  <2> QED BY <1>1, <2>1, <2>2, <2>4, <2>5, <2>6, RemoveNextLives
<1>5. CASE PlayBrowsed /\ ~Failed(ctl, play)
  <2>1. Launch(ctl, play) /\ play.pc = "browse" /\ Current(ctl, play)
    BY <1>5 DEF PlayBrowsed
  <2>2. CanGoOn(ctl, play) /\ Owned(ctl)
    BY <1>1, <2>1, InProgress, InProgressLives DEF SenderInv, Streamless
  <2>3. ~Plain /\ play.new = None
    BY <2>1 DEF LifeInv, At, Plain, Early
  <2> QED BY <1>1, <1>2, <2>1, <2>2, <2>3, LaunchLives
<1>6. CASE PlaySpawned /\ ~Failed(ctl, play)
  <2>1. /\ play.pc = "spawning" /\ UNCHANGED ctl
        /\ engine' = [engine EXCEPT ![play.new].proc = "alive"]
        /\ play' = [play EXCEPT !.pc = AfterSpawn(engine[play.new].stopping)]
    BY <1>6 DEF PlaySpawned
  <2>2. /\ play'.pc = IF engine[play.new].stopping THEN "closing" ELSE "warming"
        /\ play'.gen = play.gen /\ play'.new = play.new
    BY <2>1 DEF TypeOK, Play, AfterSpawn
  <2>3. /\ play.new \in Streams /\ play.new # None /\ engine[play.new].proc = "created"
        /\ play.gen > 0
    BY <1>1, <2>1 DEF LifeInv, At, Warming, Play
  <2>4. \A s \in Streams : /\ engine'[s].sessions = engine[s].sessions
                           /\ engine'[s].leaving = engine[s].leaving
                           /\ engine'[s].stopping = engine[s].stopping
                           /\ engine'[s].src = engine[s].src
                           /\ engine'[s].proc = IF s = play.new THEN "alive"
                                                ELSE engine[s].proc
    BY <2>1, <2>3 DEF TypeOK, Engine
  <2>5. \A s \in Streams : /\ s # play.new => (Running(s)' <=> Running(s))
                           /\ Sends(s)' <=> Sends(s)
                           /\ Told(s)' = Told(s)
                           /\ Native(s)' <=> Native(s)
    BY <2>4 DEF Running, Sends, Told, Native
  <2>6. /\ \A s \in torn : ~Running(s)
        /\ play.new \in torn => engine[play.new].stopping
        /\ play.new # ctl.stream
    BY <2>1 DEF LifeInv, At, Late, Warming, SenderInv, Silent
  <2>7. PendingIsNew(ctl, play, retiring)' /\ UnusedIsNowhere(ctl, play, retiring)'
    BY <1>1, <2>1, <2>2, <2>3, <2>4 DEF LifeInv, Life, PendingIsNew, UnusedIsNowhere
  <2>8. TornIsOver(ctl, play)' /\ Accounted(ctl, play, retiring)'
    BY <1>1, <2>1, <2>2, <2>4, <2>5, <2>6
       DEF LifeInv, Life, TornIsOver, Accounted, TypeOK
  <2>9. CurrentKept(ctl, retiring)' /\ Listed(ctl, retiring)'
    BY <1>1, <2>1, <2>4, <2>5 DEF LifeInv, Life, CurrentKept, Listed
  <2>10. StopsKept(ctl, play, retiring)' /\ NoLeftovers(ctl)'
    <3>1. \A k \in Stoppers : Current(ctl, stops[k]) /\ StopInForce(ctl, retiring, stops[k])
                              => StopInForce(ctl, retiring, stops[k])'
      BY <1>1, <2>1, <2>5 DEF StopInForce, TypeOK, Ctl
    <3> QED BY <1>1, <2>1, <2>2, <3>1 DEF LifeInv, Life, StopsKept, NoLeftovers, Current
  <2>11. At(ctl, play, retiring)'
    BY <1>1, <2>1, <2>2, <2>3, <2>4, <2>5, <2>6
       DEF LifeInv, At, RestingPhase, LeftBehind, Late, Early, Warming, Current, TypeOK
  <2> QED BY <2>7, <2>8, <2>9, <2>10, <2>11 DEF LifeInv, Life
<1> QED BY <1>3, <1>4, <1>5, <1>6 DEF PlayStartClosed, PlayNotWarmed

\* The cancellation of a Play: at any await, or in the except clause of a failure, where
\* it leaves a pending stream behind that has been told to end.
LEMMA CancelledLives ==
    ASSUME TypeOK, SenderInv, LifeInv, PlayCancelled \/ PlayAbandoned
    PROVE  LifeInv'
<1>1. CASE PlayCancelled
  <2> DEFINE p == [play EXCEPT !.cancelled = TRUE]
  <2>1. /\ p \in Play /\ p.new = play.new /\ p.gen = play.gen
        /\ Failed(ctl, p) /\ UNCHANGED <<retiring, torn, failing, stops>>
        /\ play.pc \notin {"idle", "preview"} /\ ctl \in Ctl /\ p.pc = play.pc
    BY <1>1 DEF PlayCancelled, TypeOK, Play
  <2>2. CanFail(ctl, p)
    BY <2>1, InProgressLives
  <2> HIDE DEF p
  <2>3. Life(ctl, p, retiring')
    BY <2>1 DEF LifeInv, Life, PendingIsNew, UnusedIsNowhere, TornIsOver, Accounted,
                StopsKept
  <2> QED BY <2>1, <2>2, <2>3, FailedLives
<1>2. CASE PlayAbandoned
  <2>1. /\ play.pc = "aborting" /\ ~play.cancelled
        /\ play'.pc = "idle" /\ play'.new = None /\ play'.gen = 0 /\ play' = NoPlay
        /\ UNCHANGED <<ctl, engine, retiring, torn, failing, stops>>
    BY <1>2 DEF PlayAbandoned, NoPlay
  <2>2. /\ engine[play.new].stopping /\ \A s \in torn : ~Running(s)
        /\ play.new # None
        /\ Current(ctl, play) => ctl.pending = play.new
    BY <2>1 DEF LifeInv, At, Late, Warming
  <2>3. Life(ctl, play, retiring)'
    BY <2>1, <2>2, Values
       DEF LifeInv, Life, PendingIsNew, UnusedIsNowhere, TornIsOver, Accounted,
           CurrentKept, Listed, StopsKept, StopInForce, NoLeftovers, Running, Sends,
           Told, Native, Current
  <2>4. At(ctl, play, retiring)'
    BY <2>1, <2>2, Values
       DEF LifeInv, Life, PendingIsNew, At, RestingPhase, LeftBehind, Late, Early,
           Warming, Running
  <2> QED BY <2>3, <2>4 DEF LifeInv
<1> QED BY <1>1, <1>2

\* The steps of a Play that adopt its stream and add its TVs, and its end.
LEMMA AdoptionLives ==
    ASSUME TypeOK, SenderInv, LifeInv,
           PlayWarmed \/ PlayReplaced \/ PlayAdded \/ PlayAborted
           \/ PreviewShown \/ PreviewFailed
    PROVE  LifeInv'
<1>1. UNCHANGED <<torn, failing, stops>> /\ ctl \in Ctl /\ play \in Play
  BY DEF PlayWarmed, PlayReplaced, PlayAdded, PlayAborted, PreviewShown, PreviewFailed,
         TypeOK
<1>2. Life(ctl, play, retiring)
  BY DEF LifeInv
<1>3. CASE PlayWarmed
  <2> DEFINE old == {ctl.stream} \ {None}
             keys == retiring \cup old
             c == IF old = {} THEN ctl ELSE [Cleared(ctl) EXCEPT !.stream = None]
  <2>1. /\ c \in Ctl /\ c.stream = None /\ c.generation = ctl.generation
        /\ c.pending = ctl.pending /\ c.pendingTargets = ctl.pendingTargets
        /\ c.targets = {} \/ (ctl.stream = None /\ c.targets = ctl.targets)
    <3>1. LET b == Cleared(ctl) IN
          /\ b \in Ctl /\ b.generation = ctl.generation /\ b.pending = ctl.pending
          /\ b.pendingTargets = ctl.pendingTargets /\ b.targets = {}
      BY ClearedType DEF TypeOK, Ctl, Cleared
    <3> HIDE DEF Cleared
    <3> QED BY <3>1 DEF TypeOK, Ctl
  <2>2. /\ play.pc = "warming" /\ Current(ctl, play) /\ ~play.replaced
        /\ ctl.pending = play.new /\ ~engine[play.new].stopping
    BY <1>3 DEF PlayWarmed, StillPending, Warm, SenderInv, Streamless
  <2>3. /\ play.new \notin {None, ctl.stream} /\ play.gen > 0
        /\ \A s \in torn : ~Running(s)
    BY <2>2 DEF LifeInv, At, Late, Warming
  <2>4. \A k \in Stoppers : stops[k].pc # "idle" => ~Current(ctl, stops[k])
    BY <1>2, <2>2, InProgressLives, NoStopInForce
  <2>5. CASE Unfinished(keys) = {}
    <3>1. Adopt(c, play) /\ retiring' = {} /\ keys \subseteq torn
      BY <1>3, <2>5 DEF PlayWarmed, Unfinished
    <3>2. \A s \in Streams : ~Sends(s)
      BY <2>2, <2>5, AllGone
    <3> HIDE DEF c
    <3>3. CanGoOn(c, play)
      BY <2>1, <2>2, <2>3, InProgress DEF CanGoOn, CanFail, CallOK, Current
    <3>4. Life(c, play, {})
      BY <1>2, <2>1, <2>3, <2>4, <3>1, <3>2, Values
         DEF Life, PendingIsNew, UnusedIsNowhere, TornIsOver, Accounted, CurrentKept,
             Listed, StopsKept, NoLeftovers, Current
    <3> QED BY <1>1, <2>1, <2>2, <2>3, <3>1, <3>2, <3>3, <3>4, AdoptLives
  <2>6. CASE Unfinished(keys) # {}
    <3>1. /\ retiring' = keys /\ ctl' = c /\ UNCHANGED engine
          /\ play' = [play EXCEPT !.pc = "replacing", !.wait = keys]
      BY <1>3, <2>6 DEF PlayWarmed
    <3>2. /\ play'.pc = "replacing" /\ play'.gen = play.gen /\ play'.new = play.new
      BY <3>1 DEF TypeOK, Play
    <3>3. \A s \in Streams : Sends(s) => s \in keys \ torn
      BY <2>2, Values DEF SenderInv, OwnedSenders, Silent
    <3>4. \A s \in Streams : /\ Running(s)' <=> Running(s)
                             /\ Sends(s)' <=> Sends(s)
      BY <3>1 DEF Running, Sends
    <3> HIDE DEF c
    <3>5. PendingIsNew(ctl, play, retiring)' /\ UnusedIsNowhere(ctl, play, retiring)'
      <4>1. PendingIsNew(ctl, play, retiring)'
        BY <1>2, <2>1, <2>2, <2>3, <3>1, <3>2 DEF Life, PendingIsNew
      <4>2. \A s \in Streams : engine[s].proc = "unused" =>
              /\ s \notin torn \cup keys \cup {c.stream, c.pending, play.new}
              /\ ~engine[s].stopping
        BY <1>2, <2>1, Values DEF Life, UnusedIsNowhere
      <4>3. UnusedIsNowhere(ctl, play, retiring)'
        BY <1>1, <3>1, <3>2, <4>2 DEF UnusedIsNowhere
      <4> QED BY <4>1, <4>3
    <3>6. TornIsOver(ctl, play)' /\ Accounted(ctl, play, retiring)'
      BY <1>1, <1>2, <2>1, <2>3, <3>1, <3>2, <3>4, Values
         DEF Life, TornIsOver, Accounted, TypeOK
    <3>7. CurrentKept(ctl, retiring)' /\ Listed(ctl, retiring)'
      BY <1>1, <2>1, <3>1, <3>3, <3>4, Values DEF CurrentKept, Listed
    <3>8. StopsKept(ctl, play, retiring)' /\ NoLeftovers(ctl)'
      BY <1>1, <1>2, <2>1, <2>2, <2>4, <3>1, <3>2
         DEF Life, StopsKept, NoLeftovers, Current
    <3>9. At(ctl, play, retiring)'
      BY <1>1, <2>1, <2>2, <2>3, <3>1, <3>2, <3>4
         DEF At, RestingPhase, Late, Early, Warming, Current, TypeOK
    <3> QED BY <3>5, <3>6, <3>7, <3>8, <3>9 DEF LifeInv, Life
  <2> QED BY <2>5, <2>6
<1>4. CASE PlayReplaced
  <2>1. /\ play.pc = "replacing" /\ ctl.stream = None /\ ~play.replaced
        /\ play.wait \subseteq torn /\ retiring' = retiring \ play.wait
    BY <1>4 DEF PlayReplaced, Unfinished, SenderInv, Streamless
  <2>2. Life(ctl, play, retiring')
    BY <1>2, <2>1, FewerKeys
  <2>3. CASE Current(ctl, play)
    <3>1. \A s \in Streams : ~Sends(s)
      BY <2>1, <2>3, AllGone DEF SenderInv, Awaited, Unfinished
    <3>2. retiring' = {}
      BY <2>1, <2>3 DEF SenderInv, Awaited
    <3>3. /\ play.new # None /\ ctl.pending = play.new
          /\ engine[play.new].stopping => Native(play.new)
      BY <2>1, <2>3 DEF LifeInv, At, Warming
    <3>4. CanGoOn(ctl, play)
      BY <2>1, <2>3, InProgressLives
    <3> QED BY <1>1, <1>4, <2>1, <2>2, <2>3, <3>1, <3>2, <3>3, <3>4, AdoptLives
            DEF PlayReplaced
  <2>4. CASE ~Current(ctl, play)
    BY <1>1, <1>4, <2>1, <2>2, <2>4, FailedLives, InProgressLives DEF PlayReplaced
  <2> QED BY <2>3, <2>4
<1>5. CASE PlayAdded
  <2>1. play.pc = "adding" /\ retiring' = retiring
    BY <1>5 DEF PlayAdded
  <2>2. CASE Failed(ctl, play)
    BY <1>1, <1>2, <2>1, <2>2, FailedLives, InProgressLives
  <2>3. CASE StillActive(ctl, play) /\ ConnectNext(ctl, play)
    <3>1. CanGoOn(ctl, play) /\ Owned(ctl)
      BY <2>1, <2>3, InProgress, InProgressLives DEF SenderInv, Streamless, StillActive
    <3>2. /\ play.active = ctl.stream /\ ctl.stream # None
          /\ play.new \in {None, ctl.stream}
      BY <2>1, <2>3 DEF LifeInv, At, StillActive
    <3> QED BY <1>1, <1>2, <2>1, <2>3, <3>1, <3>2, ConnectNextLives
  <2> QED BY <1>5, <2>2, <2>3 DEF PlayAdded
<1>6. CASE PlayAborted
  <2>1. /\ play.pc = "aborting" /\ engine[play.new].proc = "reaped"
        /\ ctl' = Ended(ctl, play) /\ play' = NoPlay /\ UNCHANGED <<engine, retiring>>
    BY <1>6 DEF PlayAborted
  <2>2. play.new \in Streams /\ engine[play.new].stopping
    BY <2>1 DEF LifeInv, At, TypeOK, Play
  <2>3. engine = [engine EXCEPT ![play.new].stopping = TRUE]
    <3>1. \A e \in Engine : e.stopping => [e EXCEPT !.stopping = TRUE] = e
      BY DEF Engine
    <3>2. engine \in [Streams -> Engine]
      BY DEF TypeOK
    <3>3. engine[play.new] = [engine[play.new] EXCEPT !.stopping = TRUE]
      BY <2>2, <3>1, <3>2
    <3> QED BY <2>2, <3>2, <3>3
  <2>4. Failed(ctl, play)
    BY <2>1, <2>3 DEF Failed, Running
  <2> QED BY <1>1, <1>2, <2>1, <2>4, FailedLives, InProgressLives
<1>7. CASE PreviewShown \/ PreviewFailed
  <2>1. /\ ctl'.stream = ctl.stream /\ ctl'.generation = ctl.generation
        /\ ctl'.pending = ctl.pending /\ ctl'.pendingTargets = ctl.pendingTargets
        /\ ctl'.targets = ctl.targets /\ ctl'.phase \in {ctl.phase, "idle"}
    <3> DEFINE c == [ctl EXCEPT !.source = IF @ \in Pages THEN play.source ELSE @]
    <3>1. /\ c \in Ctl /\ c.stream = ctl.stream /\ c.generation = ctl.generation
          /\ c.pending = ctl.pending /\ c.pendingTargets = ctl.pendingTargets
          /\ c.targets = ctl.targets /\ c.phase = ctl.phase
      BY DEF TypeOK, Ctl, Play
    <3>2. \/ ctl' = [c EXCEPT !.error = "none",
                              !.phase = IF @ = "error" THEN "idle" ELSE @]
          \/ ctl' = c
          \/ ctl' = ctl
      BY <1>7 DEF PreviewShown, PreviewFailed
    <3> HIDE DEF c
    <3> QED BY <3>1, <3>2 DEF Ctl
  <2>2. /\ play.pc = "preview" /\ UNCHANGED <<engine, retiring>>
        /\ play' = NoPlay
    BY <1>7 DEF PreviewShown, PreviewFailed
  <2>3. play'.pc = "idle" /\ play'.gen = 0 /\ play'.new = None /\ play.new = None
    BY <2>2 DEF NoPlay, LifeInv, At, Early
  <2>4. \A s \in torn : ~Running(s)
    BY <2>2 DEF LifeInv, At, Late
  <2>5. Life(ctl, play, retiring)'
    BY <1>1, <1>2, <2>1, <2>2, <2>3
       DEF Life, PendingIsNew, UnusedIsNowhere, TornIsOver, Accounted, CurrentKept,
           Listed, StopsKept, StopInForce, NoLeftovers, Running, Sends, Told, Native,
           Current
  <2>6. At(ctl, play, retiring)'
    BY <1>1, <2>1, <2>2, <2>3, <2>4
       DEF LifeInv, At, RestingPhase, LeftBehind, Late, Early, Warming, Running
  <2> QED BY <2>5, <2>6 DEF LifeInv
<1> QED BY <1>3, <1>4, <1>5, <1>6, <1>7


\* An except clause of play_native.
LEMMA RaisedLives ==
    ASSUME TypeOK, SenderInv, NEW c \in Ctl, Failed(c, Raised(play)),
           Life(c, play, retiring'), CanFail(c, play), UNCHANGED <<torn, failing, stops>>
    PROVE  LifeInv'
<1>1. /\ Raised(play) \in Play
      /\ Raised(play).new = play.new /\ Raised(play).gen = play.gen
      /\ Raised(play).pc = play.pc /\ Raised(play).replaced = play.replaced
      /\ Raised(play).cancelled = play.cancelled
  BY DEF Raised, TypeOK, Play, Errors
<1>2. Life(c, Raised(play), retiring') /\ CanFail(c, Raised(play))
  BY <1>1 DEF Life, PendingIsNew, UnusedIsNowhere, TornIsOver, Accounted, StopsKept,
              CanFail, CallOK, Current, LeftBehind
<1> QED BY <1>1, <1>2, FailedLives

\* The steps of a Play of direct video.
LEMMA NativePlayLives ==
    ASSUME TypeOK, SenderInv, LifeInv,
           PlayPrepared \/ PlayNotPrepared \/ PlayNativeReplaced
           \/ PlayBrowserClosed \/ PlayConnected \/ PlayNotConnected
    PROVE  LifeInv'
<1>1. /\ UNCHANGED <<torn, failing, stops>> /\ ctl \in Ctl /\ play \in Play
      /\ play.pc \in {"preparing", "nreplacing", "nbrowser", "connecting"}
  BY DEF PlayPrepared, PlayNotPrepared, PlayNativeReplaced, PlayBrowserClosed,
         PlayConnected, PlayNotConnected, TypeOK
<1>2. Life(ctl, play, retiring) /\ CanFail(ctl, play)
  BY <1>1, InProgressLives DEF LifeInv
<1>3. /\ play.new \notin {None, ctl.stream} /\ play.new \in Streams /\ play.gen > 0
      /\ \A s \in torn : ~Running(s)
      /\ play.source \in Videos /\ ~Plain
      /\ \E r \in Receivers : play.target = {r}
  BY <1>1 DEF LifeInv, At, Late, Warming, Play, Plain
<1>4. Current(ctl, play) =>
        \A k \in Stoppers : stops[k].pc # "idle" => ~Current(ctl, stops[k])
  BY <1>2 DEF Life, StopsKept, Current, CanFail
<1>5. CASE retiring' = retiring /\ Failed(ctl, Raised(play))
  BY <1>1, <1>2, <1>5, RaisedLives
<1>6. CASE PlayPrepared
  <2> DEFINE keys == retiring \cup ({ctl.stream} \ {None})
             q == [play EXCEPT !.replaced = TRUE]
  <2>1. /\ play.pc = "preparing" /\ StillPending(ctl, play) /\ UNCHANGED engine
        /\ ctl' = [ctl EXCEPT !.stream = None]
        /\ IF Unfinished(keys) = {}
           THEN /\ retiring' = {}
                /\ play' = [q EXCEPT !.pc = "nbrowser"]
           ELSE /\ retiring' = keys
                /\ play' = [q EXCEPT !.pc = "nreplacing", !.wait = keys]
    BY <1>6 DEF PlayPrepared
  <2>2. /\ ctl'.stream = None /\ ctl'.generation = ctl.generation
        /\ ctl'.pending = play.new /\ Current(ctl, play)
    BY <2>1 DEF TypeOK, Ctl, StillPending
  <2>3. /\ play'.new = play.new /\ play'.gen = play.gen /\ play'.target = play.target
        /\ play'.source = play.source /\ play'.pc \in {"nbrowser", "nreplacing"}
    <3>1. /\ q \in Play /\ q.new = play.new /\ q.gen = play.gen
          /\ q.target = play.target /\ q.source = play.source
      BY DEF TypeOK, Play
    <3> HIDE DEF q, keys
    <3> QED BY <2>1, <3>1 DEF Play
  <2>4. \A s \in Streams : Sends(s) => s \in keys \ torn
    BY <1>3, <2>1, Values DEF SenderInv, OwnedSenders, Silent
  <2>5. retiring' \subseteq keys /\ keys \ torn \subseteq retiring'
    BY <2>1 DEF Unfinished
  <2>6. \A s \in Streams : /\ Running(s)' <=> Running(s)
                           /\ Sends(s)' <=> Sends(s)
    BY <2>1 DEF Running, Sends
  <2>7. /\ PendingIsNew(ctl, play, retiring) /\ ctl.pending = play.new
        /\ \A s \in Streams : engine[s].proc = "unused" =>
             /\ s \notin torn \cup keys \cup {None, play.new}
             /\ ~engine[s].stopping
    BY <1>2, <2>1, Values DEF Life, UnusedIsNowhere, StillPending
  <2>8. \A s \in Streams :
          Running(s) => s = play.new \/ s \in keys \ torn \/ engine[s].stopping
    BY <1>2, <1>3, <2>7, Values DEF Life, Accounted, TypeOK
  <2>9. play.new \notin keys
    BY <1>3, <2>7 DEF PendingIsNew
  <2> HIDE DEF keys, q
  <2>10. PendingIsNew(ctl, play, retiring)'
    BY <1>3, <2>2, <2>3, <2>5, <2>9 DEF PendingIsNew
  <2>11. UnusedIsNowhere(ctl, play, retiring)'
    BY <1>1, <2>1, <2>2, <2>3, <2>5, <2>7 DEF UnusedIsNowhere
  <2>12. TornIsOver(ctl, play)' /\ Accounted(ctl, play, retiring)'
    BY <1>1, <1>3, <2>1, <2>3, <2>5, <2>6, <2>8 DEF TornIsOver, Accounted, TypeOK
  <2>13. CurrentKept(ctl, retiring)' /\ Listed(ctl, retiring)'
    BY <1>1, <2>2, <2>4, <2>5, <2>6, Values DEF CurrentKept, Listed
  <2>14. StopsKept(ctl, play, retiring)' /\ NoLeftovers(ctl)'
    BY <1>1, <1>2, <1>3, <1>4, <2>1, <2>2, <2>3
       DEF Life, StopsKept, NoLeftovers, Current
  <2>15. At(ctl, play, retiring)'
    BY <1>1, <1>3, <2>1, <2>2, <2>3, <2>6
       DEF At, RestingPhase, Late, Early, Warming, Current, TypeOK
  <2> QED BY <2>10, <2>11, <2>12, <2>13, <2>14, <2>15 DEF LifeInv, Life
<1>7. CASE PlayNativeReplaced
  <2>1. /\ play.pc = "nreplacing" /\ ctl.stream = None
        /\ play.wait \subseteq torn /\ retiring' = retiring \ play.wait
    BY <1>7 DEF PlayNativeReplaced, Unfinished, SenderInv, Streamless
  <2>2. Life(ctl, play, retiring')
    BY <1>2, <2>1, FewerKeys
  <2>3. CASE ~StillPending(ctl, play)
    BY <1>1, <1>2, <1>7, <2>2, <2>3, RaisedLives DEF PlayNativeReplaced
  <2>4. CASE StillPending(ctl, play)
    <3>1. play' = [play EXCEPT !.pc = "nbrowser"] /\ UNCHANGED <<ctl, engine>>
      BY <1>7, <2>4 DEF PlayNativeReplaced
    <3>2. /\ play'.new = play.new /\ play'.gen = play.gen /\ play'.pc = "nbrowser"
          /\ play'.target = play.target /\ play'.source = play.source
      BY <3>1 DEF TypeOK, Play
    <3>3. Life(ctl, play, retiring)'
      BY <1>1, <1>3, <1>4, <2>2, <2>4, <3>1, <3>2
         DEF Life, PendingIsNew, UnusedIsNowhere, TornIsOver, Accounted, CurrentKept,
             Listed, StopsKept, NoLeftovers, Current, StillPending, Running, Sends, Told,
             Native
    <3>4. At(ctl, play, retiring)'
      BY <1>1, <1>3, <2>4, <3>1, <3>2
         DEF At, RestingPhase, Late, Early, Warming, Current, StillPending, Running
    <3> QED BY <3>3, <3>4 DEF LifeInv
  <2> QED BY <2>3, <2>4
<1>8. CASE PlayBrowserClosed /\ ~Failed(ctl, Raised(play))
  <2> DEFINE c == [ctl EXCEPT !.source = play.source, !.targets = play.target,
                              !.phase = "connecting",
                              !.receivers = [r \in Receivers |->
                                IF r \in play.target THEN "connecting" ELSE "absent"]]
  <2>1. /\ c \in Ctl /\ c.stream = ctl.stream /\ c.generation = ctl.generation
        /\ c.pending = ctl.pending /\ c.pendingTargets = ctl.pendingTargets
        /\ c.targets = play.target
    BY DEF TypeOK, Ctl, Play, Phases, ReceiverStates
  <2>2. /\ play.pc = "nbrowser" /\ StillPending(ctl, play) /\ Current(ctl, play)
        /\ retiring' = retiring /\ ctl.stream = None /\ ctl.pending = play.new
    BY <1>8 DEF PlayBrowserClosed, StillPending, SenderInv, Streamless
  <2>3. \A s \in Streams : ~Sends(s)
    BY <2>2 DEF SenderInv, NativeAlone
  <2>4. CASE Failed(c, Raised(play))
    <3> HIDE DEF c
    <3>1. Life(c, play, retiring')
      BY <1>2, <1>3, <1>4, <2>1, <2>2, <2>3, Values
         DEF Life, PendingIsNew, UnusedIsNowhere, TornIsOver, Accounted, CurrentKept,
             Listed, StopsKept, NoLeftovers, Current
    <3>2. CanFail(c, play)
      BY <1>2, <1>3, <2>1 DEF CanFail, CallOK, Current, LeftBehind
    <3> QED BY <1>1, <2>1, <2>4, <3>1, <3>2, RaisedLives
  <2>5. CASE ~Failed(c, Raised(play))
    <3>1. /\ ctl' = c
          /\ engine[play.new].proc = "alive" /\ ~engine[play.new].stopping
          /\ engine' = [engine EXCEPT ![play.new].sessions = play.target]
          /\ play' = [play EXCEPT !.pc = "connecting"]
      BY <1>8, <2>5 DEF PlayBrowserClosed
    <3>2. /\ play'.pc = "connecting" /\ play'.gen = play.gen /\ play'.new = play.new
          /\ play'.target = play.target /\ play'.source = play.source
      BY <3>1 DEF TypeOK, Play
    <3>3. /\ \A s \in Streams : /\ engine'[s].proc = engine[s].proc
                                /\ engine'[s].stopping = engine[s].stopping
                                /\ engine'[s].src = engine[s].src
                                /\ s # play.new => engine'[s].sessions = engine[s].sessions
          /\ Told(play.new)' \subseteq play.target
      BY <1>3, <3>1 DEF TypeOK, Engine, Told
    <3>4. \A s \in Streams : /\ Sends(s)' => s = play.new
                             /\ Running(s)' <=> Running(s)
      BY <2>3, <3>3 DEF Sends, Running
    <3> HIDE DEF c
    <3>5. PendingIsNew(ctl, play, retiring)' /\ UnusedIsNowhere(ctl, play, retiring)'
      BY <1>1, <1>2, <2>1, <2>2, <3>1, <3>2, <3>3
         DEF Life, PendingIsNew, UnusedIsNowhere
    <3>6. TornIsOver(ctl, play)' /\ Accounted(ctl, play, retiring)'
      BY <1>1, <1>2, <2>1, <2>2, <3>1, <3>2, <3>3, <3>4
         DEF Life, TornIsOver, Accounted, TypeOK
    <3>7. CurrentKept(ctl, retiring)' /\ Listed(ctl, retiring)'
      BY <1>1, <2>1, <2>2, <3>1, <3>3, <3>4, Values DEF CurrentKept, Listed
    <3>8. StopsKept(ctl, play, retiring)' /\ NoLeftovers(ctl)'
      BY <1>1, <1>2, <1>3, <1>4, <2>1, <2>2, <3>1, <3>2
         DEF Life, StopsKept, NoLeftovers, Current
    <3>9. At(ctl, play, retiring)'
      BY <1>1, <1>3, <2>1, <2>2, <3>1, <3>2, <3>4
         DEF At, RestingPhase, Late, Early, Warming, Current, TypeOK
    <3> QED BY <3>5, <3>6, <3>7, <3>8, <3>9 DEF LifeInv, Life
  <2> QED BY <2>4, <2>5
<1>9. CASE PlayConnected /\ ~Failed(ctl, Raised(play))
  <2>1. /\ play.pc = "connecting" /\ play' = NoPlay /\ UNCHANGED <<engine, retiring>>
        /\ ctl' = [ctl EXCEPT !.stream = play.new, !.pending = None,
                              !.pendingTargets = {}, !.phase = "playing",
                              !.receivers = [r \in Receivers |->
                                IF r \in play.target THEN "streaming" ELSE "absent"]]
        /\ StillPending(ctl, play) /\ ~engine[play.new].stopping
    BY <1>9 DEF PlayConnected
  <2>2. /\ ctl'.stream = play.new /\ ctl'.generation = ctl.generation
        /\ ctl'.pending = None /\ ctl'.pendingTargets = {} /\ ctl'.targets = ctl.targets
        /\ ctl.pending = play.new /\ Current(ctl, play)
        /\ ctl.stream = None
    BY <2>1 DEF TypeOK, Ctl, StillPending, SenderInv, Streamless
  <2>3. play'.pc = "idle" /\ play'.gen = 0 /\ play'.new = None
    BY <2>1 DEF NoPlay
  <2>4. \A s \in Streams : /\ Running(s)' <=> Running(s)
                           /\ Sends(s)' <=> Sends(s)
    BY <2>1 DEF Running, Sends
  <2>5. PendingIsNew(ctl, play, retiring)' /\ UnusedIsNowhere(ctl, play, retiring)'
    BY <1>1, <1>2, <2>1, <2>2, <2>3, Values DEF Life, PendingIsNew, UnusedIsNowhere
  <2>6. TornIsOver(ctl, play)' /\ Accounted(ctl, play, retiring)'
    BY <1>1, <1>2, <1>3, <2>1, <2>2, <2>3, <2>4, Values
       DEF Life, TornIsOver, Accounted, TypeOK
  <2>7. CurrentKept(ctl, retiring)' /\ Listed(ctl, retiring)'
    BY <1>1, <1>2, <1>3, <2>1, <2>2, <2>4, Values
       DEF Life, PendingIsNew, CurrentKept, Listed, Told
  <2>8. StopsKept(ctl, play, retiring)' /\ NoLeftovers(ctl)'
    BY <1>1, <1>2, <1>3, <1>4, <2>2, <2>3
       DEF Life, StopsKept, NoLeftovers, Current
  <2>9. At(ctl, play, retiring)'
    BY <1>1, <1>3, <2>1, <2>2, <2>3, <2>4, Values
       DEF At, RestingPhase, Late, Early, Warming, TypeOK
  <2> QED BY <2>5, <2>6, <2>7, <2>8, <2>9 DEF LifeInv, Life
<1> QED BY <1>5, <1>6, <1>7, <1>8, <1>9
        DEF PlayNotPrepared, PlayBrowserClosed, PlayConnected, PlayNotConnected

-----------------------------------------------------------------------------
(* The steps of a Stop.                                                    *)

\* A Stop that is called supersedes every Play and every other Stop.
LEMMA SupersedingEffect ==
    ASSUME TypeOK, SenderInv, LifeInv
    PROVE  LET c == Superseding(ctl) IN
           /\ c \in Ctl /\ c.stream = ctl.stream /\ c.generation = ctl.generation + 1
           /\ c.pending = None /\ c.pendingTargets = {} /\ c.targets = ctl.targets
           /\ c.generation > 0 /\ c.generation > play.gen
           /\ \A k \in Stoppers : stops[k].pc # "idle" => c.generation > stops[k].gen
<1>1. /\ ctl.generation \in Nat /\ play.gen \in Nat /\ play.gen <= ctl.generation
      /\ \A k \in Stoppers : stops[k].gen \in Nat
  BY DEF TypeOK, Ctl, Play, Stop, SenderInv, Awaited
<1>2. \A k \in Stoppers : stops[k].pc # "idle" => stops[k].gen <= ctl.generation
  BY DEF LifeInv, Life, StopsKept
<1>3. LET c == Superseding(ctl) IN
      c.pending = None /\ c.pendingTargets = {} /\ c.targets = ctl.targets
  BY DEF Superseding, TypeOK, Ctl
<1> HIDE DEF Superseding
<1> QED BY <1>1, <1>2, <1>3, SupersedingType

\* One TV of several leaves a stream that goes on.
LEMMA StopOneLives ==
    ASSUME TypeOK, SenderInv, LifeInv, NEW k \in Stoppers,
           NEW r \in Receivers \cup {All}, StopOne(k, r)
    PROVE  LifeInv'
<1> DEFINE gen == Superseding(ctl).generation
           q == [NoStop EXCEPT !.receiver = r, !.gen = gen, !.active = ctl.stream]
<1>1. /\ ctl' = Superseding(ctl) /\ UNCHANGED <<torn, failing, play>>
      /\ retiring' = retiring \cup ({ctl.pending} \ {None})
      /\ r \in ctl.targets /\ ctl.stream # None
  BY DEF StopOne
<1>2. /\ ctl'.stream = ctl.stream /\ ctl'.generation = ctl.generation + 1
      /\ ctl'.pending = None /\ ctl'.pendingTargets = {} /\ ctl'.targets = ctl.targets
      /\ gen = ctl'.generation /\ gen > 0 /\ gen > play.gen
      /\ \A j \in Stoppers : stops[j].pc # "idle" => gen > stops[j].gen
  BY <1>1, SupersedingEffect
<1>3. /\ gen \in Nat /\ play.gen \in Nat /\ \A j \in Stoppers : stops[j].gen \in Nat
      /\ r \in Receivers /\ r # All /\ ctl.stream \in Streams
  BY <1>1, SupersedingType, PlaybackAssumption DEF TypeOK, Ctl, Play, Stop
<1>4. /\ q.receiver = r /\ q.gen = gen /\ q.active = ctl.stream /\ q.wait = {}
      /\ q.pc = "idle"
  <2> HIDE DEF gen
  <2> QED BY DEF NoStop
<1>5. \/ /\ stops' = [stops EXCEPT ![k] = [q EXCEPT !.pc = "removing"]]
         /\ engine' = [engine EXCEPT ![ctl.stream].leaving = Left(ctl.stream, r)]
      \/ stops' = [stops EXCEPT ![k] = NoStop] /\ UNCHANGED engine
  BY DEF StopOne
<1>6. /\ \A s \in Streams : /\ Told(s)' \subseteq Told(s)
                            /\ engine'[s].sessions = engine[s].sessions
                            /\ engine'[s].proc = engine[s].proc
                            /\ engine'[s].src = engine[s].src
                            /\ engine'[s].stopping = engine[s].stopping
      /\ stops'[k].pc # "idle" => r \notin Told(ctl.stream)'
  <2>1. CASE engine' = [engine EXCEPT ![ctl.stream].leaving = Left(ctl.stream, r)]
    <3>1. /\ engine'[ctl.stream].leaving = Left(ctl.stream, r)
          /\ \A s \in Streams : /\ engine'[s].sessions = engine[s].sessions
                                /\ engine'[s].proc = engine[s].proc
                                /\ engine'[s].src = engine[s].src
                                /\ engine'[s].stopping = engine[s].stopping
                                /\ s # ctl.stream => engine'[s].leaving = engine[s].leaving
      <4>1. Typed /\ ctl.stream \in Streams
        BY <1>3, TypeParts
      <4>2. \A t \in Streams : /\ engine'[t].sessions = engine[t].sessions
                               /\ engine'[t].proc = engine[t].proc
                               /\ engine'[t].stopping = engine[t].stopping
                               /\ engine'[t].src = engine[t].src
                               /\ t # ctl.stream => engine'[t].leaving = engine[t].leaving
        BY <2>1, <4>1, LeftEffect
      <4>3. engine'[ctl.stream].leaving = Left(ctl.stream, r)
        BY <2>1, <4>1, LeftEffect
      <4> QED BY <4>2, <4>3
    <3>2. /\ engine'[ctl.stream].sessions \ engine'[ctl.stream].leaving
               = Told(ctl.stream) \ {r}
          /\ ctl'.stream = ctl.stream
      BY <1>2, <1>3, <3>1 DEF Left, Told
    <3>3. r \notin Told(ctl.stream)'
      BY <3>2 DEF Told
    <3>4. ASSUME NEW s \in Streams
          PROVE  Told(s)' \subseteq Told(s)
      <4>1. CASE s = ctl.stream
        BY <3>2, <4>1 DEF Told
      <4>2. CASE s # ctl.stream
        BY <3>1, <4>2 DEF Told
      <4> QED BY <4>1, <4>2
    <3> QED BY <3>1, <3>3, <3>4
  <2>2. CASE stops' = [stops EXCEPT ![k] = NoStop] /\ UNCHANGED engine
    BY <2>2 DEF TypeOK, NoStop, Told
  <2> QED BY <1>5, <2>1, <2>2
<1> HIDE DEF gen, q
<1>7. /\ \A j \in Stoppers \ {k} : stops'[j] = stops[j]
      /\ stops'[k].pc # "idle" =>
           /\ stops'[k].pc = "removing" /\ stops'[k].gen = gen /\ stops'[k].receiver = r
           /\ stops'[k].active = ctl.stream /\ stops'[k].wait = {}
  <2>1. LET x == [q EXCEPT !.pc = "removing"] IN
        /\ x.pc = "removing" /\ x.gen = gen /\ x.receiver = r
        /\ x.active = ctl.stream /\ x.wait = {}
    BY <1>4 DEF q, NoStop
  <2>2. NoStop.pc = "idle"
    BY DEF NoStop
  <2> QED BY <1>5, <2>1, <2>2 DEF TypeOK
<1>8. \A s \in Streams : /\ Running(s)' <=> Running(s)
                         /\ Native(s)' <=> Native(s)
                         /\ Sends(s)' <=> Sends(s)
  BY <1>6 DEF Running, Native, Sends
<1>9. PendingIsNew(ctl, play, retiring)' /\ UnusedIsNowhere(ctl, play, retiring)'
  BY <1>1, <1>2, <1>6, Values DEF LifeInv, Life, PendingIsNew, UnusedIsNowhere
<1>10. TornIsOver(ctl, play)' /\ Accounted(ctl, play, retiring)'
  <2>1. TornIsOver(ctl, play)'
    BY <1>1, <1>2, <1>8 DEF LifeInv, Life, TornIsOver, TypeOK
  <2>2. ASSUME NEW s \in Streams, Running(s), s \in torn
        PROVE  s = play.new
    BY <2>2 DEF LifeInv, Life, TornIsOver
  <2> QED BY <1>1, <1>2, <1>6, <1>8, <2>1, <2>2, Values
          DEF LifeInv, Life, Accounted, TypeOK
<1>11. CurrentKept(ctl, retiring)' /\ Listed(ctl, retiring)'
  BY <1>1, <1>2, <1>6, <1>8, Values
     DEF LifeInv, Life, PendingIsNew, CurrentKept, Listed, SenderInv, Silent
<1>12. StopsKept(ctl, play, retiring)' /\ NoLeftovers(ctl)'
  BY <1>1, <1>2, <1>3, <1>6, <1>7
     DEF LifeInv, Life, StopsKept, StopInForce, NoLeftovers, Current
<1>13. At(ctl, play, retiring)'
  BY <1>1, <1>2, <1>3, <1>6, <1>8
     DEF LifeInv, At, RestingPhase, Late, Early, Warming, Current, StillActive, TypeOK, Play
<1> QED BY <1>9, <1>10, <1>11, <1>12, <1>13 DEF LifeInv, Life

\* The current stream, or the pending one, or both are given up.
LEMMA StopWholeLives ==
    ASSUME TypeOK, SenderInv, LifeInv, NEW k \in Stoppers,
           NEW r \in Receivers \cup {All}, StopWhole(k, r)
    PROVE  LifeInv'
<1> DEFINE whole == r = All \/ r \in ctl.targets
           c == Superseding(ctl)
           gen == c.generation
           q == [NoStop EXCEPT !.receiver = r, !.gen = gen]
           gone == {ctl.pending} \cup (IF whole THEN {ctl.stream} ELSE {})
           keys == retiring \cup (gone \ {None})
<1>1. /\ ctl' = IF whole THEN [Cleared(c) EXCEPT !.stream = None, !.phase = "idle"]
                ELSE [c EXCEPT !.phase = Resting(c)]
      /\ StopAwaits(k, q, keys)
      /\ UNCHANGED <<engine, torn, failing, play>>
  BY DEF StopWhole
<1>2. /\ c \in Ctl /\ c.stream = ctl.stream /\ gen = ctl.generation + 1
      /\ c.pending = None /\ c.pendingTargets = {} /\ c.targets = ctl.targets
      /\ gen > 0 /\ gen > play.gen
      /\ \A j \in Stoppers : stops[j].pc # "idle" => gen > stops[j].gen
  BY SupersedingEffect
<1> HIDE DEF c
<1>3. /\ ctl'.generation = gen /\ ctl'.pending = None /\ ctl'.pendingTargets = {}
      /\ ctl'.stream = IF whole THEN None ELSE ctl.stream
      /\ ctl'.targets = IF whole THEN {} ELSE ctl.targets
      /\ ctl'.stream = None => ctl'.phase = "idle"
  <2>1. LET b == Cleared(c) IN
        /\ b \in Ctl /\ b.generation = gen /\ b.pending = None
        /\ b.pendingTargets = {} /\ b.targets = {}
    BY <1>2, ClearedType DEF Cleared, Ctl
  <2>2. LET d == [c EXCEPT !.phase = Resting(c)] IN
        /\ d.generation = gen /\ d.pending = None /\ d.pendingTargets = {}
        /\ d.stream = ctl.stream /\ d.targets = ctl.targets
        /\ d.stream = None => d.phase = "idle"
    BY <1>2 DEF Ctl, Resting
  <2> HIDE DEF gen, whole, Cleared
  <2> QED BY <1>1, <2>1, <2>2 DEF Ctl
<1>4. /\ gen \in Nat /\ play.gen \in Nat /\ \A j \in Stoppers : stops[j].gen \in Nat
      /\ r = All => whole
  BY SupersedingType DEF TypeOK, Ctl, Play, Stop, c
<1>5. /\ \A j \in Stoppers \ {k} : stops'[j] = stops[j]
      /\ stops'[k].pc # "idle" =>
           /\ stops'[k].pc = "teardown" /\ stops'[k].gen = gen /\ stops'[k].receiver = r
           /\ stops'[k].wait = keys /\ retiring' = keys
  <2> HIDE DEF keys, gen
  <2>1. LET x == [q EXCEPT !.pc = "teardown", !.wait = keys, !.active = None] IN
        /\ x.pc = "teardown" /\ x.gen = gen /\ x.receiver = r /\ x.wait = keys
    BY DEF NoStop
  <2>2. NoStop.pc = "idle"
    BY DEF NoStop
  <2> QED BY <1>1, <2>1, <2>2 DEF TypeOK, StopAwaits
<1>6. retiring' \subseteq keys /\ keys \ torn \subseteq retiring'
  BY <1>1 DEF StopAwaits, Unfinished
<1>7. \A s \in Streams : /\ Running(s)' <=> Running(s)
                         /\ Native(s)' <=> Native(s)
                         /\ Sends(s)' <=> Sends(s)
                         /\ Told(s)' = Told(s)
  BY <1>1 DEF Running, Native, Sends, Told
<1>8. \A s \in keys : s \in Streams /\ (s \in retiring \/ s = ctl.pending
                                        \/ (whole /\ s = ctl.stream))
  BY DEF TypeOK, Ctl
<1>9. \A s \in Streams : s = ctl.pending \/ (whole /\ s = ctl.stream) \/ s \in retiring
                         => s \in keys
  BY Values
<1> HIDE DEF keys, gen, q, whole, gone
<1>10. PendingIsNew(ctl, play, retiring)' /\ UnusedIsNowhere(ctl, play, retiring)'
  <2>1. PendingIsNew(ctl, play, retiring)'
    BY <1>3 DEF PendingIsNew
  <2>2. ASSUME NEW s \in Streams, engine[s].proc = "unused"
        PROVE  /\ s \notin torn \cup keys \cup {ctl'.stream, None, play.new}
               /\ ~engine[s].stopping
    BY <1>3, <1>8, <2>2, Values DEF LifeInv, Life, UnusedIsNowhere
  <2> QED BY <1>1, <1>3, <1>6, <2>1, <2>2 DEF UnusedIsNowhere
<1>11. TornIsOver(ctl, play)' /\ Accounted(ctl, play, retiring)'
  <2>1. TornIsOver(ctl, play)'
    BY <1>1, <1>3, <1>7, Values DEF LifeInv, Life, TornIsOver, TypeOK
  <2>2. ASSUME NEW s \in Streams, Running(s), s # play.new
        PROVE  s = ctl'.stream \/ s \in retiring' \ torn \/ engine[s].stopping
    <3>1. s \notin torn
      BY <2>2 DEF LifeInv, Life, TornIsOver
    <3>2. s \in {ctl.stream, ctl.pending} \/ s \in retiring \/ engine[s].stopping
      BY <2>2, Values DEF LifeInv, Life, Accounted
    <3> QED BY <1>3, <1>6, <1>9, <3>1, <3>2
  <2> QED BY <1>1, <1>7, <2>1, <2>2 DEF Accounted
<1>12. CurrentKept(ctl, retiring)' /\ Listed(ctl, retiring)'
  <2>1. CurrentKept(ctl, retiring)'
    BY <1>1, <1>3, <1>6, <1>7, <1>8, Values
       DEF LifeInv, Life, PendingIsNew, CurrentKept
  <2>2. ASSUME NEW s \in Streams, Sends(s)
        PROVE  \/ s \in retiring' \ torn
               \/ s = ctl'.stream /\ Told(s) \subseteq ctl'.targets
    <3>1. s \notin torn
      BY <2>2 DEF SenderInv, Silent
    <3> QED BY <1>3, <1>6, <1>9, <2>2, <3>1, Values DEF LifeInv, Life, Listed
  <2> QED BY <1>1, <1>7, <2>1, <2>2 DEF Listed
<1>13. StopsKept(ctl, play, retiring)' /\ NoLeftovers(ctl)'
  <2>1. ctl'.stream # None =>
          ctl.stream \in Streams /\ r \notin Told(ctl'.stream)
    <3>1. ctl.stream \in Streams => Told(ctl.stream) \subseteq ctl.targets
      BY CurrentIsListed DEF LifeInv
    <3> QED BY <1>3, <3>1 DEF TypeOK, Ctl, whole
  <2>2. ctl'.stream # None => r \notin Told(ctl.stream)'
    BY <1>1, <2>1 DEF Told
  <2> QED BY <1>1, <1>2, <1>3, <1>4, <1>5, <2>2
          DEF LifeInv, Life, StopsKept, StopInForce, NoLeftovers, Current
<1>14. At(ctl, play, retiring)'
  BY <1>1, <1>2, <1>3, <1>4, <1>7, Values
     DEF LifeInv, At, RestingPhase, Late, Early, Warming, Current, StillActive, TypeOK, Play
<1> QED BY <1>10, <1>11, <1>12, <1>13, <1>14 DEF LifeInv, Life

\* The rest of a Stop, and its cancellation.
LEMMA StopRestLives ==
    ASSUME TypeOK, SenderInv, LifeInv, NEW k \in Stoppers,
           StopSteps(k) \/ StopCancelled(k)
    PROVE  LifeInv'
<1>1. UNCHANGED <<engine, torn, failing, play>> /\ stops[k].pc # "idle"
  BY DEF StopSteps, StopRemoved, StopTornDown, StopCancelled
<1>2. /\ ctl'.stream = ctl.stream /\ ctl'.generation = ctl.generation
      /\ ctl'.pending = ctl.pending /\ ctl'.pendingTargets = ctl.pendingTargets
      /\ ctl'.phase = ctl.phase
      /\ \/ ctl'.targets = ctl.targets
         \/ /\ Current(ctl, stops[k]) /\ stops[k].pc = "removing"
            /\ ctl.stream = stops[k].active
            /\ ctl'.targets = ctl.targets \ {stops[k].receiver}
  BY DEF StopSteps, StopRemoved, StopTornDown, StopCancelled, TypeOK, Ctl
<1>3. retiring' \subseteq retiring /\ retiring \ torn \subseteq retiring'
  BY DEF StopSteps, StopRemoved, StopTornDown, StopCancelled, StopAwaits, Unfinished
<1>4. /\ \A j \in Stoppers \ {k} : stops'[j] = stops[j]
      /\ stops'[k].pc # "idle" =>
           /\ stops'[k].pc = "teardown" /\ stops'[k].gen = stops[k].gen
           /\ stops'[k].receiver = stops[k].receiver
           /\ stops'[k].wait = retiring /\ retiring' = retiring
  <2>1. LET x == [stops[k] EXCEPT !.pc = "teardown", !.wait = retiring, !.active = None] IN
        /\ x.pc = "teardown" /\ x.gen = stops[k].gen /\ x.wait = retiring
        /\ x.receiver = stops[k].receiver
    BY DEF TypeOK, Stop
  <2>2. NoStop.pc = "idle"
    BY DEF NoStop
  <2> QED BY <2>1, <2>2
          DEF StopSteps, StopRemoved, StopTornDown, StopCancelled, StopAwaits, TypeOK
<1>5. Life(ctl, play, retiring')
  BY <1>3, FewerKeys DEF LifeInv
<1>6. \A s \in Streams : /\ Running(s)' <=> Running(s)
                         /\ Native(s)' <=> Native(s)
                         /\ Sends(s)' <=> Sends(s)
                         /\ Told(s)' = Told(s)
  BY <1>1 DEF Running, Native, Sends, Told
<1>7. PendingIsNew(ctl, play, retiring)' /\ UnusedIsNowhere(ctl, play, retiring)'
  BY <1>1, <1>2, <1>5 DEF Life, PendingIsNew, UnusedIsNowhere
<1>8. TornIsOver(ctl, play)' /\ Accounted(ctl, play, retiring)'
  BY <1>1, <1>2, <1>5, <1>6 DEF Life, TornIsOver, Accounted, TypeOK
<1>9. CurrentKept(ctl, retiring)' /\ Listed(ctl, retiring)'
  <2>1. CurrentKept(ctl, retiring)'
    BY <1>1, <1>2, <1>5, <1>6 DEF Life, CurrentKept
  <2>2. CASE ctl'.targets = ctl.targets
    BY <1>1, <1>2, <1>5, <1>6, <2>1, <2>2 DEF Life, Listed
  <2>3. CASE /\ Current(ctl, stops[k]) /\ stops[k].pc = "removing"
             /\ ctl'.targets = ctl.targets \ {stops[k].receiver}
    <3>1. StopInForce(ctl, retiring', stops[k])
      BY <1>1, <1>5, <2>3 DEF Life, StopsKept
    <3>2. ASSUME NEW s \in Streams, Sends(s), s \notin retiring' \ torn
          PROVE  s = ctl.stream /\ Told(s) \subseteq ctl'.targets
      BY <1>5, <2>3, <3>1, <3>2, Values DEF Life, Listed, StopInForce
    <3> QED BY <1>1, <1>2, <1>6, <2>1, <3>2 DEF Listed
  <2> QED BY <1>2, <2>2, <2>3
<1>10. StopsKept(ctl, play, retiring)' /\ NoLeftovers(ctl)'
  <2>1. StopsKept(ctl, play, retiring)'
    BY <1>1, <1>2, <1>4, <1>5 DEF Life, StopsKept, StopInForce, Current, Told
  <2> QED BY <1>2, <1>5, <2>1 DEF Life, NoLeftovers
<1>11. At(ctl, play, retiring)'
  <2>1. /\ ctl'.stream = ctl.stream /\ ctl'.generation = ctl.generation
        /\ ctl'.pending = ctl.pending /\ ctl'.phase = ctl.phase
        /\ UNCHANGED <<engine, torn, play>>
    BY <1>1, <1>2
  <2>2. At(ctl, play, retiring)
    BY DEF LifeInv
  <2> QED BY <2>1, <2>2
          DEF At, RestingPhase, LeftBehind, Late, Current, StillActive, Running, Native, Told
<1> QED BY <1>7, <1>8, <1>9, <1>10, <1>11 DEF LifeInv, Life

-----------------------------------------------------------------------------
(* The steps of the other tasks and of the media processes.                *)

\* The Controller keeps its stream, or gives up one whose process is gone.
Follows(s) ==
    /\ ctl'.generation = ctl.generation /\ ctl'.pending = ctl.pending
    /\ ctl'.pendingTargets = ctl.pendingTargets
    /\ \/ /\ ctl'.stream = ctl.stream /\ ctl'.targets = ctl.targets
          /\ ctl'.phase = ctl.phase \/ ctl.stream # None
       \/ /\ ctl.stream = s /\ ctl'.stream = None /\ ctl'.targets = {}
          /\ ctl'.phase \in {"idle", "error"}
          /\ ~Running(s)' /\ ~Sends(s)'

\* A process sends less, and only s is told to stop, for a reason.
Subsides(s) ==
    \A t \in Streams :
      /\ engine'[t].sessions \subseteq engine[t].sessions
      /\ Told(t)' \subseteq Told(t)
      /\ engine'[t].src = engine[t].src
      /\ Running(t)' => Running(t)
      /\ \A proc \in {"unused", "created"} : engine'[t].proc = proc <=> engine[t].proc = proc
      /\ engine[t].stopping => engine'[t].stopping
      /\ engine'[t].stopping =>
           \/ engine[t].stopping
           \/ /\ t = s /\ engine[s].proc # "unused"
              /\ \/ Native(s)
                 \/ s \in retiring
                 \/ s = ctl.stream /\ failing'[s] = "closing"

\* A task that does so loses no process.
LEMMA OthersLive ==
    ASSUME TypeOK, SenderInv, LifeInv, NEW s \in Streams,
           UNCHANGED <<retiring, play, stops>>, Follows(s), Subsides(s),
           torn' = torn \/ (torn' = torn \cup {s} /\ s \in retiring /\ ~Running(s)),
           \A t \in Streams : failing[t] = "closing" =>
               failing'[t] = "closing" \/ ctl'.stream # t
    PROVE  LifeInv'
<1>1. \A t \in Streams : /\ Native(t)' <=> Native(t)
                         /\ Sends(t)' => Sends(t)
                         /\ Sends(t) => Running(t)
  BY DEF Subsides, Native, Sends, SenderInv, Silent, Running
<1>2. /\ ctl'.generation = ctl.generation /\ ctl'.pending = ctl.pending
      /\ ctl'.pendingTargets = ctl.pendingTargets
      /\ ctl'.stream \in {ctl.stream, None}
      /\ ctl'.stream # ctl.stream =>
           /\ ctl.stream = s /\ ctl'.targets = {} /\ ~Running(s)' /\ ~Sends(s)'
           /\ ctl'.phase \in {"idle", "error"}
      /\ ctl'.stream = ctl.stream =>
           ctl'.targets = ctl.targets /\ (ctl'.phase = ctl.phase \/ ctl.stream # None)
  BY Values DEF Follows
<1>3. PendingIsNew(ctl, play, retiring)'
  BY <1>2 DEF LifeInv, Life, PendingIsNew, Subsides, TypeOK, Ctl
<1>4. UnusedIsNowhere(ctl, play, retiring)'
  BY <1>2, Values DEF LifeInv, Life, UnusedIsNowhere, Subsides
<1>5. TornIsOver(ctl, play)' /\ Accounted(ctl, play, retiring)'
  BY <1>2, Values DEF LifeInv, Life, TornIsOver, Accounted, Subsides, TypeOK
<1>6. CurrentKept(ctl, retiring)'
  BY <1>1, <1>2, Values DEF LifeInv, Life, CurrentKept, Subsides
<1>7. Listed(ctl, retiring)'
  <2>1. ASSUME NEW t \in Streams, Sends(t)', t \notin retiring \ torn'
        PROVE  t \in {ctl'.stream, ctl.pending} /\ Told(t)' \subseteq ctl'.targets
    <3>1. /\ t \in {ctl.stream, ctl.pending}
          /\ Told(t) \subseteq ctl.targets
      BY <1>1, <2>1 DEF LifeInv, Life, Listed
    <3>2. ctl.stream \in {t, None}
      BY <1>1, <2>1 DEF SenderInv, Alone
    <3>3. Told(t)' \subseteq Told(t)
      BY DEF Subsides
    <3> QED BY <2>1, <3>1, <3>2, <3>3, Values DEF Follows
  <2> QED BY <1>2, <2>1 DEF Listed
<1>8. StopsKept(ctl, play, retiring)' /\ NoLeftovers(ctl)'
  <2>1. NoLeftovers(ctl)'
    BY DEF LifeInv, Life, NoLeftovers, Follows
  <2>2. ASSUME NEW k \in Stoppers, StopInForce(ctl, retiring, stops[k])
        PROVE  StopInForce(ctl, retiring, stops[k])'
    BY <1>2, <2>2 DEF StopInForce, Subsides, TypeOK, Ctl
  <2>3. \A k \in Stoppers : Current(ctl, stops[k])' <=> Current(ctl, stops[k])
    BY <1>2 DEF Current
  <2> QED BY <1>2, <2>1, <2>2, <2>3 DEF LifeInv, Life, StopsKept
<1>9. At(ctl, play, retiring)'
  <2>1. RestingPhase(ctl, play)'
    BY DEF LifeInv, At, RestingPhase, LeftBehind, Follows, Current
  <2>2. play.pc \in Warming \cup {"adding", "aborting"} => play.new \in Streams \cup {None}
    BY DEF TypeOK, Play
  <2>3. Late(play) \/ \A t \in torn' : ~Running(t)'
    BY DEF LifeInv, At, Subsides, TypeOK
  <2>4. play.pc = "replacing" /\ Current(ctl, play) /\ engine'[play.new].stopping
            => Native(play.new)'
    <3> SUFFICES ASSUME play.pc = "replacing", Current(ctl, play),
                        engine'[play.new].stopping
                 PROVE  Native(play.new)'
      OBVIOUS
    <3>1. /\ ctl.stream = None /\ play.new \in Streams
          /\ ctl.pending = play.new /\ play.new # None
      BY DEF SenderInv, Streamless, LifeInv, At, Warming, TypeOK, Play
    <3>2. play.new \notin retiring
      BY <3>1 DEF LifeInv, Life, PendingIsNew
    <3>3. engine[play.new].stopping => Native(play.new)
      BY DEF LifeInv, At
    <3> QED BY <1>1, <3>1, <3>2, <3>3 DEF Subsides
  <2>5. play.pc = "removing" =>
          /\ play.same /\ play.active # None
          /\ StillActive(ctl, play)' =>
               Told(play.active)' \subseteq play.target \cup play.todo
    BY <1>2 DEF LifeInv, At, StillActive, Current, Subsides, TypeOK, Ctl
  <2>6. /\ play.pc = "spawning" => engine'[play.new].proc = "created"
        /\ play.pc = "aborting" => engine'[play.new].stopping
    BY DEF LifeInv, At, Warming, Subsides, TypeOK, Play
  <2>7. Current(ctl, play)' <=> Current(ctl, play)
    BY <1>2 DEF Current
  <2>8. play.pc = "adding" /\ Current(ctl, play) =>
          play.new \in {None, ctl'.stream} \/ ~Running(play.new)'
    <3>1. play.new # None => (Running(play.new)' => Running(play.new))
      BY DEF Subsides, TypeOK, Play
    <3>2. play.pc = "adding" /\ Current(ctl, play) =>
            play.new \in {None, ctl.stream} \/ ~Running(play.new)
      BY DEF LifeInv, At
    <3> QED BY <1>2, <3>1, <3>2
  <2> QED BY <1>2, <2>1, <2>3, <2>4, <2>5, <2>6, <2>7, <2>8 DEF LifeInv, At, Late
<1> QED BY <1>3, <1>4, <1>5, <1>6, <1>7, <1>8, <1>9 DEF LifeInv, Life

\* The close tasks, stop_failed and watch_native.
LEMMA TasksLive ==
    ASSUME TypeOK, SenderInv, LifeInv, NEW s \in Streams, Tasks(s)
    PROVE  LifeInv'
<1>1. UNCHANGED <<retiring, play, stops>>
  BY DEF Tasks, CloseBegin, CloseEnd, StopFailedBegin, StopFailedEnd, WatchNative
<1>2. CASE CloseBegin(s) \/ CloseEnd(s)
  <2>1. /\ UNCHANGED <<ctl, failing>> /\ s \in retiring
        /\ \/ torn' = torn
           \/ torn' = torn \cup {s} /\ Gone(s)
    BY <1>2 DEF CloseBegin, CloseEnd
  <2>2. Subsides(s)
    <3>1. CASE CloseBegin(s)
      <4>1. engine[s].proc # "unused"
        BY <2>1 DEF LifeInv, Life, UnusedIsNowhere
      <4> QED BY <2>1, <3>1, <4>1 DEF CloseBegin, Subsides, Running, TypeOK, Engine, Told
    <3>2. CASE CloseEnd(s)
      BY <3>2 DEF CloseEnd, Subsides, Running, Told
    <3> QED BY <1>2, <3>1, <3>2
  <2>3. Follows(s)
    BY <2>1 DEF Follows
  <2>4. Gone(s) => ~Running(s)
    BY DEF Gone, Running
  <2> QED BY <1>1, <2>1, <2>2, <2>3, <2>4, OthersLive
<1>3. CASE StopFailedBegin(s)
  <2>1. torn' = torn
    BY <1>3 DEF StopFailedBegin
  <2>2. CASE ctl.stream = s
    <3>1. /\ ctl' = [ctl EXCEPT !.error = "receivers"]
          /\ engine' = [engine EXCEPT ![s].stopping = TRUE]
          /\ failing' = [failing EXCEPT ![s] = "closing"]
      BY <1>3, <2>2 DEF StopFailedBegin
    <3>2. engine[s].proc # "unused"
      BY <2>2 DEF LifeInv, Life, UnusedIsNowhere
    <3>3. /\ failing'[s] = "closing"
          /\ \A t \in Streams : failing[t] = "closing" => failing'[t] = "closing"
      BY <3>1 DEF TypeOK
    <3>4. Subsides(s)
      BY <2>2, <3>1, <3>2, <3>3 DEF Subsides, Running, TypeOK, Engine, Told
    <3>5. Follows(s)
      BY <3>1 DEF Follows, TypeOK, Ctl
    <3> QED BY <1>1, <2>1, <3>3, <3>4, <3>5, OthersLive
  <2>3. CASE ctl.stream # s
    <3>1. /\ failing[s] = "scheduled" /\ failing' = [failing EXCEPT ![s] = "no"]
          /\ UNCHANGED <<ctl, engine>>
      BY <1>3, <2>3 DEF StopFailedBegin
    <3>2. Subsides(s) /\ Follows(s)
      BY <3>1 DEF Subsides, Follows, Running, Told
    <3>3. \A t \in Streams : failing[t] = "closing" => failing'[t] = "closing"
      BY <3>1 DEF TypeOK
    <3> QED BY <1>1, <2>1, <3>2, <3>3, OthersLive
  <2> QED BY <2>2, <2>3
<1>4. CASE StopFailedEnd(s) \/ WatchNative(s)
  <2>1. /\ UNCHANGED <<engine, torn>> /\ engine[s].proc = "reaped"
        /\ failing' \in {failing, [failing EXCEPT ![s] = "no"]}
    BY <1>4 DEF StopFailedEnd, WatchNative
  <2>2. /\ ~Running(s)' /\ ~Sends(s)' /\ Subsides(s)
    BY <2>1 DEF SenderInv, Silent, Running, Sends, Subsides, Told
  <2>3. Follows(s) /\ ctl'.stream # s
    <3>1. CASE StopFailedEnd(s)
      <4>1. CASE ctl.stream = s
        BY <2>2, <3>1, <4>1, Values DEF StopFailedEnd, Follows, TypeOK, Ctl
      <4>2. CASE ctl.stream # s
        BY <3>1, <4>2 DEF StopFailedEnd, Follows
      <4> QED BY <4>1, <4>2
    <3>2. CASE WatchNative(s)
      <4>1. PICK error \in {"none", "native"} :
              ctl' = [Cleared(ctl) EXCEPT !.stream = None, !.error = error,
                        !.phase = IF error = "none" THEN "idle" ELSE "error"]
        BY <3>2 DEF WatchNative
      <4>2. LET b == Cleared(ctl) IN
            /\ b \in Ctl /\ b.generation = ctl.generation /\ b.targets = {}
            /\ b.pending = ctl.pending /\ b.pendingTargets = ctl.pendingTargets
        BY ClearedType DEF TypeOK, Cleared, Ctl
      <4>3. ctl.stream = s
        BY <3>2 DEF WatchNative
      <4> HIDE DEF Cleared
      <4> QED BY <2>2, <4>1, <4>2, <4>3, Values DEF Follows, Ctl
    <3> QED BY <1>4, <3>1, <3>2
  <2>4. \A t \in Streams : failing[t] = "closing" =>
            failing'[t] = "closing" \/ ctl'.stream # t
    BY <2>1, <2>3 DEF TypeOK
  <2> QED BY <1>1, <2>1, <2>2, <2>3, <2>4, OthersLive
<1> QED BY <1>2, <1>3, <1>4 DEF Tasks

\* A process that comes to a remove sends to fewer TVs, and is told of none.
LEMMA RemovesEffect ==
    ASSUME TypeOK, NEW s \in Streams, NEW r \in Receivers, Removes(s, r)
    PROVE  \A t \in Streams : /\ engine'[t].sessions \subseteq engine[t].sessions
                              /\ Told(t)' \subseteq Told(t)
                              /\ engine'[t].src = engine[t].src
                              /\ engine'[t].proc = engine[t].proc
                              /\ engine'[t].stopping = engine[t].stopping
<1> DEFINE f == [engine[s] EXCEPT !.sessions = @ \ {r}]
           g == [f EXCEPT !.leaving = @ \ {r}]
<1>1. engine \in [Streams -> Engine] /\ engine[s] \in Engine
  BY DEF TypeOK
<1>2. engine' = [engine EXCEPT ![s] = g]
  BY DEF Removes
<1>3. /\ f.sessions = engine[s].sessions \ {r} /\ f.leaving = engine[s].leaving
      /\ f.src = engine[s].src /\ f.proc = engine[s].proc
      /\ f.stopping = engine[s].stopping /\ f \in Engine
  BY <1>1 DEF Engine
<1>4. /\ g.sessions = f.sessions /\ g.leaving = f.leaving \ {r}
      /\ g.src = f.src /\ g.proc = f.proc /\ g.stopping = f.stopping
  <2> HIDE DEF f
  <2> QED BY <1>3 DEF Engine
<1> HIDE DEF g, f
<1>5. engine'[s] = g /\ \A t \in Streams \ {s} : engine'[t] = engine[t]
  BY <1>1, <1>2
<1> QED BY <1>3, <1>4, <1>5 DEF Told

\* The media processes and their events.
LEMMA MediaLive ==
    ASSUME TypeOK, SenderInv, LifeInv, NEW s \in Streams, Media(s)
    PROVE  LifeInv'
<1>1. UNCHANGED <<retiring, torn, play, stops>>
  BY DEF Media, Ready, SourceError, ReceiverEvent, Exit, Reap, NativeEnd, Removes
<1>2. \A t \in Streams : failing[t] = "closing" => failing'[t] = "closing"
  BY DEF Media, Ready, SourceError, ReceiverEvent, Exit, Reap, NativeEnd, Removes, TypeOK
<1>3. Subsides(s)
  <2>1. CASE Ready(s)
    BY <2>1 DEF Ready, Subsides, Running, TypeOK, Engine, Told
  <2>2. CASE SourceError(s)
    BY <2>2 DEF SourceError, Subsides, Running, TypeOK, Engine, Told
  <2>3. CASE \E r \in Receivers, state \in ReceiverEvents : ReceiverEvent(s, r, state)
    BY <2>3 DEF ReceiverEvent, Subsides, Running, Told
  <2>4. CASE Exit(s)
    BY <2>4 DEF Exit, Subsides, Running, TypeOK, Engine, Told
  <2>5. CASE Reap(s)
    <3>1. /\ engine[s].proc = "exited"
          /\ engine' = [engine EXCEPT ![s].proc = "reaped", ![s].sessions = {},
                                      ![s].leaving = {},
                                      ![s].ready = IF @ = "no" THEN "failed" ELSE @]
      BY <2>5 DEF Reap
    <3> QED BY <3>1 DEF Subsides, Running, TypeOK, Engine, Told
  <2>6. CASE NativeEnd(s)
    <3>1. /\ engine[s].proc = "alive" /\ Native(s)
          /\ engine' = [engine EXCEPT ![s].proc = "reaped", ![s].stopping = TRUE,
                                      ![s].sessions = {}, ![s].leaving = {},
                                      ![s].ready = IF @ = "no" THEN "failed" ELSE @]
      BY <2>6 DEF NativeEnd
    <3> QED BY <3>1 DEF Subsides, Running, TypeOK, Engine, Told
  <2>7. CASE \E r \in Receivers : Removes(s, r)
    BY <2>7, RemovesEffect DEF Subsides, Running
  <2> QED BY <2>1, <2>2, <2>3, <2>4, <2>5, <2>6, <2>7 DEF Media
<1>4. Follows(s)
  <2>1. CASE Ready(s) \/ Exit(s) \/ NativeEnd(s) \/ \E r \in Receivers : Removes(s, r)
    BY <2>1 DEF Ready, Exit, NativeEnd, Removes, Follows
  <2>2. CASE SourceError(s)
    BY <2>2, Values DEF SourceError, Follows, TypeOK, Ctl
  <2>3. CASE \E r \in Receivers, state \in ReceiverEvents : ReceiverEvent(s, r, state)
    BY <2>3, Values DEF ReceiverEvent, Follows, TypeOK, Ctl
  <2>4. CASE Reap(s)
    <3>1. ~Running(s)' /\ ~Sends(s)'
      BY <2>4 DEF Reap, Running, Sends, TypeOK, Engine
    <3>2. CASE UNCHANGED ctl
      BY <3>2 DEF Follows
    <3>3. CASE ~UNCHANGED ctl
      <4>1. PICK complete \in BOOLEAN :
              ctl' = [Cleared(ctl) EXCEPT !.stream = None,
                        !.phase = IF complete THEN "idle" ELSE "error",
                        !.error = IF complete THEN "none"
                                  ELSE IF @ = "none" THEN "source" ELSE @]
        BY <2>4, <3>3 DEF Reap
      <4>2. LET b == Cleared(ctl) IN
            /\ b \in Ctl /\ b.generation = ctl.generation /\ b.targets = {}
            /\ b.pending = ctl.pending /\ b.pendingTargets = ctl.pendingTargets
        BY ClearedType DEF TypeOK, Cleared, Ctl
      <4>3. ctl.stream = s
        BY <2>4, <3>3 DEF Reap
      <4> HIDE DEF Cleared
      <4> QED BY <3>1, <4>1, <4>2, <4>3 DEF Follows, Ctl
    <3> QED BY <3>2, <3>3
  <2> QED BY <2>1, <2>2, <2>3, <2>4 DEF Media
<1> QED BY <1>1, <1>2, <1>3, <1>4, OthersLive

-----------------------------------------------------------------------------
\* The life of every media process, and of every Stop that is in force, is as the
\* invariant says in every reachable state.
THEOREM LifeCorrect == Spec => [](TypeOK /\ SenderInv /\ LifeInv)
<1>1. Init => LifeInv
  <2> SUFFICES ASSUME Init PROVE LifeInv
    OBVIOUS
  <2>1. /\ play.pc = "idle" /\ play.new = None /\ play.gen = 0 /\ play = NoPlay
        /\ ctl.stream = None /\ ctl.pending = None /\ ctl.pendingTargets = {}
        /\ ctl.targets = {} /\ ctl.phase = "idle"
        /\ retiring = {} /\ torn = {}
        /\ \A s \in Streams : /\ engine[s].proc = "unused" /\ engine[s].sessions = {}
                              /\ ~engine[s].stopping
        /\ \A k \in Stoppers : stops[k].pc = "idle"
    BY DEF Init, NoPlay, NoStop
  <2> QED BY <2>1, Values
          DEF LifeInv, Life, PendingIsNew, UnusedIsNowhere, TornIsOver, Accounted,
              CurrentKept, Listed, StopsKept, NoLeftovers, At, RestingPhase, Early,
              Warming, Late, Running, Sends
<1>2. TypeOK /\ SenderInv /\ LifeInv /\ [Next]_vars => LifeInv'
  <2> SUFFICES ASSUME TypeOK, SenderInv, LifeInv, [Next]_vars PROVE LifeInv'
    OBVIOUS
  <2>1. CASE Lock
    BY <2>1, LockLives
  <2>2. CASE PlaySteps \/ PlayCancelled \/ PlayAbandoned
    BY <2>2, WarmupLives, CancelledLives, AdoptionLives, NativePlayLives DEF PlaySteps
  <2>3. ASSUME NEW k \in Stoppers, StopCalls(k) \/ StopSteps(k) \/ StopCancelled(k)
        PROVE  LifeInv'
    BY <2>3, StopOneLives, StopWholeLives, StopRestLives DEF StopCalls
  <2>4. ASSUME NEW s \in Streams, Tasks(s) \/ Media(s)
        PROVE  LifeInv'
    BY <2>4, TasksLive, MediaLive
  <2>5. CASE UNCHANGED vars
    BY <2>5
       DEF vars, LifeInv, Life, PendingIsNew, UnusedIsNowhere, TornIsOver, Accounted,
           CurrentKept, Listed, StopsKept, StopInForce, NoLeftovers, At, RestingPhase,
           LeftBehind, Late, Running, Sends, Told, Native, Current, StillActive
  <2> QED BY <2>1, <2>2, <2>3, <2>4, <2>5 DEF Next
<1>3. Spec => [](TypeOK /\ SenderInv)
  BY SenderCorrect
<1> QED BY <1>1, <1>2, <1>3, PTL DEF Spec

\* No media process is orphaned, and none that was given up is the current stream: a
\* process that runs and was not told to end is one that the next Stop or the Play in
\* progress will close, whatever Stops, cancellations and failures come between its
\* creation and its end.
THEOREM NoneIsLost == Spec => []NoneLost
<1>1. LifeInv => NoOrphan
  BY DEF LifeInv, Life, Accounted, NoOrphan
<1>2. LifeInv => CurrentNotClosing
  BY DEF LifeInv, Life, CurrentKept, CurrentNotClosing
<1> QED BY <1>1, <1>2, LifeCorrect, PTL DEF NoneLost

\* A TV that is sent media can be stopped by its name: it is among the targets of the
\* current or the pending stream, unless the stream that sends is being closed or has
\* the TV's remove command still to read.
THEOREM SessionsListed == Spec => []SessionsAreListed
<1>1. LifeInv => SessionsAreListed
  BY DEF LifeInv, Life, Listed, SessionsAreListed, Sends, Told
<1> QED BY <1>1, LifeCorrect, PTL

\* Without browser pages and direct videos, for which the code is known to disagree
\* with its tests, a Controller at rest also shows nothing of the past: no targets, and
\* no pending stream and "idle" or "error", unless a Play that was cancelled in its
\* except clause left a pending stream behind, which has been told to end.
THEOREM ConsistentSources ==
    ASSUME Pages = {}, Videos = {}
    PROVE  Spec => []Consistent
<1>1. TypeOK /\ LifeInv => RestingConsistent
  <2> SUFFICES ASSUME TypeOK, LifeInv, Quiet, ctl.stream = None
               PROVE  /\ ctl.targets = {}
                      /\ ctl.pending = None => /\ ctl.pendingTargets = {}
                                               /\ ctl.phase \in {"idle", "error"}
                      /\ ctl.pending # None => engine[ctl.pending].stopping
    BY DEF RestingConsistent
  <2>1. play.pc = "idle" /\ play.new = None /\ Plain
    BY DEF Quiet, LifeInv, At, Early, Plain
  <2> QED BY <2>1
          DEF LifeInv, Life, PendingIsNew, NoLeftovers, At, RestingPhase, LeftBehind
<1>2. LifeInv => SessionsAreListed
  BY DEF LifeInv, Life, Listed, SessionsAreListed, Sends, Told
<1> QED BY <1>1, <1>2, LifeCorrect, PTL DEF Consistent

-----------------------------------------------------------------------------
\* When a Stop returns and nothing was asked since, the TVs it names are silent, but for
\* one that the stream that goes on has still to drop: what the Stop waited for is all
\* there was to wait for, and nobody started to send again.
THEOREM StopSilences == Spec => StopReturnsQuiet
<1> DEFINE A == \A k \in Stoppers :
                  /\ stops[k].pc # "idle" /\ stops'[k].pc = "idle"
                  /\ Current(ctl, stops[k])
                  /\ stops[k].pc = "removing" => ctl.stream = stops[k].active
                  /\ stops[k].wait \subseteq torn
                  =>
                      \A s \in Streams, r \in Receivers :
                          stops[k].receiver \in {All, r} /\ r \in engine'[s].sessions =>
                              s = ctl'.stream /\ r \in engine'[s].leaving
<1>1. TypeOK /\ SenderInv /\ LifeInv /\ [Next]_vars => [A]_vars
  <2> SUFFICES ASSUME TypeOK, SenderInv, LifeInv, Next, NEW k \in Stoppers,
                      stops[k].pc # "idle", stops'[k].pc = "idle",
                      Current(ctl, stops[k]),
                      stops[k].pc = "removing" => ctl.stream = stops[k].active,
                      stops[k].wait \subseteq torn,
                      NEW s \in Streams, NEW r \in Receivers,
                      stops[k].receiver \in {All, r}, r \in engine'[s].sessions
               PROVE  s = ctl'.stream /\ r \in engine'[s].leaving
    BY DEF vars
  <2>1. StopInForce(ctl, retiring, stops[k])
    BY DEF LifeInv, Life, StopsKept
  <2>2. UNCHANGED engine /\ ctl'.stream = ctl.stream
    <3>1. ASSUME NEW j \in Stoppers, NEW q \in Receivers \cup {All},
                 StopOne(j, q) \/ StopWhole(j, q)
          PROVE  stops'[k] = stops[k] \/ j = k
      BY <3>1 DEF StopOne, StopWhole, StopAwaits, TypeOK
    <3>2. StopSteps(k) \/ StopCancelled(k) \/ UNCHANGED stops \/ stops'[k] = stops[k]
      <4>1. CASE Lock
        BY <4>1 DEF Lock, PlayBegin, PreviewBegin
      <4>2. CASE PlaySteps \/ PlayCancelled \/ PlayAbandoned
        BY <4>2
           DEF PlaySteps, PlayCancelled, PlayAbandoned, PlayRemoved, PlayBrowsed, PlaySpawned,
               PlayStartClosed, PlayWarmed, PlayNotWarmed, PlayReplaced, PlayAdded,
               PlayAborted, PlayPrepared, PlayNotPrepared, PlayNativeReplaced,
               PlayBrowserClosed, PlayConnected, PlayNotConnected, PreviewShown,
               PreviewFailed
      <4>3. ASSUME NEW j \in Stoppers, StopCalls(j) \/ StopSteps(j) \/ StopCancelled(j)
            PROVE  stops'[k] = stops[k] \/ StopSteps(k) \/ StopCancelled(k)
        <5>1. CASE StopCalls(j)
          BY <3>1, <5>1 DEF StopCalls, StopOne, StopWhole
        <5>2. CASE (StopSteps(j) \/ StopCancelled(j)) /\ j # k
          BY <5>2 DEF StopSteps, StopRemoved, StopTornDown, StopCancelled, StopAwaits,
                      TypeOK
        <5> QED BY <4>3, <5>1, <5>2
      <4>4. ASSUME NEW t \in Streams, Tasks(t) \/ Media(t)
            PROVE  UNCHANGED stops
        BY <4>4
           DEF Tasks, CloseBegin, CloseEnd, StopFailedBegin, StopFailedEnd, WatchNative,
               Media, Ready, SourceError, ReceiverEvent, Exit, Reap, NativeEnd, Removes
      <4> QED BY <4>1, <4>2, <4>3, <4>4 DEF Next
    <3> QED BY <3>2
            DEF StopSteps, StopRemoved, StopTornDown, StopCancelled, TypeOK, Ctl
  <2>3. CASE stops[k].pc = "removing"
    <3>1. /\ stops[k].receiver = r /\ ctl.stream # None
          /\ r \notin Told(ctl.stream)
      BY <2>1, <2>3, PlaybackAssumption DEF StopInForce
    <3>2. Sends(s) => ctl.stream = s
      BY <3>1 DEF SenderInv, Alone
    <3> QED BY <2>2, <3>1, <3>2 DEF Sends, Told
  <2>4. CASE stops[k].pc = "teardown"
    <3>1. Sends(s) => s = ctl.stream
      BY <2>1, <2>4, Values DEF StopInForce, LifeInv, Life, Listed
    <3>2. s = ctl.stream => r \notin Told(s)
      BY <2>1, Values DEF StopInForce
    <3> QED BY <2>2, <3>1, <3>2 DEF Sends, Told
  <2> QED BY <2>3, <2>4 DEF TypeOK, Stop
<1> QED BY <1>1, LifeCorrect, PTL DEF Spec, StopReturnsQuiet

-----------------------------------------------------------------------------
(* What one step does to the TVs: it adds one TV that no stream sends to,  *)
(* for a call that nobody superseded, or it adds none and takes TVs from   *)
(* streams that are given up, or takes some and gives no stream up.  Only  *)
(* such a call tells a stream of a TV, one whose remove is on its way too. *)

Retired(s) == engine[s].stopping \/ engine[s].proc \in {"exited", "reaped"}

Adds(s, r) ==
    /\ engine'[s].sessions = engine[s].sessions \cup {r}
    /\ \A t \in Streams : /\ t # s => engine'[t].sessions = engine[t].sessions
                          /\ Retired(t)' <=> Retired(t)
    /\ ~Retired(s) /\ \A t \in Streams : r \notin engine[t].sessions
    /\ ctl'.generation = play'.gen

Fades ==
    /\ \A s \in Streams : /\ engine'[s].sessions \subseteq engine[s].sessions
                          /\ Retired(s) => Retired(s)'
    /\ ctl'.generation = play'.gen \/ \A s \in Streams : Told(s)' \subseteq Told(s)
    /\ \/ \A s \in Streams : Retired(s)' <=> Retired(s)
       \/ \A s \in Streams : engine'[s].sessions = engine[s].sessions \/ Retired(s)'

AddsOrFades == Fades \/ \E s \in Streams, r \in Receivers : Adds(s, r)

\* A step that leaves the processes alone does neither.
LEMMA UnchangedFades == ASSUME UNCHANGED engine PROVE Fades
BY DEF Fades, Retired, Told

LEMMA FailedFades ==
    ASSUME TypeOK, NEW c, NEW p \in Play, Failed(c, p)
    PROVE  Fades
<1>1. CASE UNCHANGED engine
  BY <1>1, UnchangedFades
<1>2. CASE p.new # None /\ engine' = [engine EXCEPT ![p.new].stopping = TRUE]
  <2>1. \A s \in Streams : /\ engine'[s].sessions = engine[s].sessions
                           /\ Told(s)' = Told(s)
                           /\ engine'[s].proc = engine[s].proc
                           /\ engine[s].stopping => engine'[s].stopping
    BY <1>2 DEF TypeOK, Engine, Play, Told
  <2> QED BY <2>1 DEF Fades, Retired
<1> QED BY <1>1, <1>2 DEF Failed

\* The loop over the TVs adds them one by one.
LEMMA ConnectNextAdds ==
    ASSUME TypeOK, SenderInv, NEW c \in Ctl, NEW p \in Play, ConnectNext(c, p),
           Owned(c), Current(c, p), p.active = c.stream
    PROVE  AddsOrFades
<1> DEFINE need == {r \in p.todo : Needs(c, r)}
           d(r) == [c EXCEPT !.targets = @ \cup {r}, !.receivers[r] = "connecting"]
<1>1. CASE UNCHANGED engine
  BY <1>1, UnchangedFades DEF AddsOrFades
<1>2. ASSUME NEW r \in need, Failed(d(r), p)
      PROVE  AddsOrFades
  <2> HIDE DEF d
  <2> QED BY <1>2, FailedFades DEF AddsOrFades
<1>3. ASSUME NEW r \in need, NEW passed \in SUBSET (p.todo \ need),
             Accepts(p.active),
             ctl' = d(r),
             engine' = [engine EXCEPT ![p.active].sessions = Joined(p.active, r),
                                      ![p.active].leaving = @ \ {r}],
             play' = [p EXCEPT !.pc = "adding", !.cur = r,
                               !.todo = (@ \ {r}) \ passed]
      PROVE  AddsOrFades
  <2> DEFINE s == p.active
  <2>1. s \in Streams /\ ~engine[s].stopping /\ Running(s) /\ r \in Receivers
    BY <1>3 DEF Accepts, Play
  <2>2. ctl'.generation = play'.gen
    BY <1>3 DEF Ctl, Play, Current
  <2>3. /\ engine'[s].sessions = Joined(s, r)
        /\ \A t \in Streams : /\ t # s => engine'[t].sessions = engine[t].sessions
                              /\ engine'[t].proc = engine[t].proc
                              /\ engine'[t].stopping = engine[t].stopping
                              /\ Retired(t)' <=> Retired(t)
    BY <1>3, <2>1, JoinedEffect, TypeParts DEF Retired
  <2>4. CASE engine[s].proc = "alive" /\ r \notin engine[s].sessions
    <3>1. engine'[s].sessions = engine[s].sessions \cup {r}
      BY <2>3, <2>4 DEF Joined
    <3>2. \A t \in Streams : r \notin engine[t].sessions
      BY <2>1, <2>4, Values DEF Owned, Sends
    <3>3. ~Retired(s)
      BY <2>1, <2>4 DEF Retired
    <3> QED BY <2>1, <2>2, <2>3, <3>1, <3>2, <3>3 DEF AddsOrFades, Adds
  <2>5. CASE engine[s].proc # "alive" \/ r \in engine[s].sessions
    <3>1. engine'[s].sessions = engine[s].sessions
      <4>1. CASE engine[s].proc # "alive"
        BY <2>1, <2>3, <4>1 DEF Joined, SenderInv, Silent, Sends
      <4>2. CASE engine[s].proc = "alive" /\ r \in engine[s].sessions
        <5>1. engine[s].sessions \cup {r} = engine[s].sessions
          BY <4>2
        <5> QED BY <2>3, <4>2, <5>1 DEF Joined
      <4> QED BY <2>5, <4>1, <4>2
    <3> QED BY <2>2, <2>3, <3>1 DEF AddsOrFades, Fades
  <2> QED BY <2>4, <2>5
<1> QED BY <1>1, <1>2, <1>3 DEF ConnectNext

LEMMA ConnectAdds ==
    ASSUME TypeOK, SenderInv, NEW c \in Ctl, NEW p \in Play, Connect(c, p),
           Owned(c), Current(c, p)
    PROVE  AddsOrFades
<1> DEFINE d == [c EXCEPT !.source = p.source, !.phase = "connecting"]
           q == [p EXCEPT !.active = c.stream, !.todo = p.target]
<1>1. d \in Ctl /\ d.stream = c.stream /\ d.generation = c.generation
  BY DEF Ctl, Play, Phases
<1>2. q \in Play /\ q.active = c.stream /\ q.gen = p.gen
  BY DEF Ctl, Play
<1>3. ConnectNext(d, q)
  BY DEF Connect
<1>4. Owned(d) /\ Current(d, q)
  BY <1>1, <1>2 DEF Owned, Current
<1> HIDE DEF d, q
<1> QED BY <1>1, <1>2, <1>3, <1>4, ConnectNextAdds

LEMMA AdoptAdds ==
    ASSUME TypeOK, SenderInv, NEW c \in Ctl, NEW p \in Play, Adopt(c, p),
           Current(c, p), \A s \in Streams : ~Sends(s)
    PROVE  AddsOrFades
<1> DEFINE d == [Cleared(c) EXCEPT !.stream = p.new, !.pending = None,
                                   !.pendingTargets = {}]
<1>1. d \in Ctl /\ d.generation = c.generation
  BY ClearedType DEF Ctl, Play, Cleared
<1>2. Connect(d, p)
  BY DEF Adopt
<1> HIDE DEF d
<1>3. Owned(d) /\ Current(d, p)
  BY <1>1 DEF Owned, Current
<1> QED BY <1>1, <1>2, <1>3, ConnectAdds

\* A process that is created sends nothing yet.
LEMMA SpawnedFades ==
    ASSUME TypeOK, NEW s \in Fresh, NEW src, NEW state \in {"created", "alive"},
           engine' = [engine EXCEPT ![s].src = src, ![s].proc = state]
    PROVE  Fades
<1>1. s \in Streams /\ engine[s].proc = "unused"
  BY DEF Fresh
<1>2. \A t \in Streams : /\ engine'[t].sessions = engine[t].sessions
                         /\ Told(t)' = Told(t)
                         /\ engine'[t].stopping = engine[t].stopping
                         /\ engine'[t].proc = IF t = s THEN state ELSE engine[t].proc
  BY <1>1 DEF TypeOK, Engine, Told
<1> QED BY <1>1, <1>2 DEF Fades, Retired

LEMMA LaunchAdds ==
    ASSUME TypeOK, SenderInv, NEW c \in Ctl, NEW p \in Play, Launch(c, p),
           Owned(c), Current(c, p)
    PROVE  AddsOrFades
<1>1. CASE p.same
  BY <1>1, ConnectAdds DEF Launch
<1>2. CASE ~p.same
  <2>1. PICK s \in Fresh :
               engine' = [engine EXCEPT ![s].src = p.source, ![s].proc = "created"]
    BY <1>2 DEF Launch
  <2> QED BY <2>1, SpawnedFades DEF AddsOrFades
<1> QED BY <1>1, <1>2

\* A remove command takes a TV from what a stream that goes on was told.
LEMMA LeftFades ==
    ASSUME TypeOK, NEW s \in Streams, NEW r,
           engine' = [engine EXCEPT ![s].leaving = Left(s, r)]
    PROVE  Fades
<1>1. \A t \in Streams : /\ engine'[t].sessions = engine[t].sessions
                         /\ Told(t)' \subseteq Told(t)
                         /\ engine'[t].stopping = engine[t].stopping
                         /\ engine'[t].proc = engine[t].proc
  BY LeftEffect, TypeParts DEF Left, Told
<1> QED BY <1>1 DEF Fades, Retired

LEMMA RemoveNextAdds ==
    ASSUME TypeOK, SenderInv, NEW c \in Ctl, NEW p \in Play, RemoveNext(c, p),
           Owned(c), Current(c, p)
    PROVE  AddsOrFades
<1>1. ASSUME NEW r \in p.todo, Accepts(p.active),
             engine' = [engine EXCEPT ![p.active].leaving = Left(p.active, r)]
      PROVE  AddsOrFades
  <2>1. p.active \in Streams
    BY <1>1 DEF Accepts, Play
  <2> QED BY <1>1, <2>1, LeftFades DEF AddsOrFades
<1>2. CASE Failed(c, p)
  BY <1>2, FailedFades DEF AddsOrFades
<1>3. CASE p.todo = {}
  <2> DEFINE d == IF p.same THEN [c EXCEPT !.targets = @ \cap p.target] ELSE c
  <2>1. d \in Ctl /\ d.stream = c.stream /\ d.generation = c.generation
    BY DEF Ctl
  <2>2. UNCHANGED engine \/ Launch(d, p)
    BY <1>3 DEF RemoveNext
  <2>3. Owned(d) /\ Current(d, p)
    BY <2>1 DEF Owned, Current
  <2> HIDE DEF d
  <2> QED BY <2>1, <2>2, <2>3, LaunchAdds, UnchangedFades DEF AddsOrFades
<1> QED BY <1>1, <1>2, <1>3 DEF RemoveNext

LEMMA LockAdds ==
    ASSUME TypeOK, SenderInv, Lock
    PROVE  AddsOrFades
<1>1. ASSUME NEW src \in Sources, NEW wanted \in (SUBSET Receivers) \ {{}},
             NEW add \in BOOLEAN, PlayBegin(src, wanted, add)
      PROVE  AddsOrFades
  <2>1. PICK c \in Ctl, q \in Play : Begins(c, q, src)
    BY <1>1, PlayBegins
  <2>2. play.pc = "idle" /\ UNCHANGED <<retiring, torn, failing, stops>>
    BY <1>1, PlayBegins
  <2>3. Owned(c) /\ Current(c, q)
    BY <2>1, <2>2, InProgress DEF Begins, Owned, Current
  <2>4. CASE Prepare(c, q)
    <3>1. PICK s \in Fresh :
            engine' = [engine EXCEPT ![s].src = q.source, ![s].proc = "alive"]
      BY <2>4 DEF Prepare
    <3> QED BY <3>1, SpawnedFades DEF AddsOrFades
  <2>5. CASE RemoveNext(c, q)
    BY <2>3, <2>5, RemoveNextAdds
  <2> QED BY <2>1, <2>4, <2>5 DEF Begins
<1>2. ASSUME NEW src \in Pages, PreviewBegin(src)
      PROVE  AddsOrFades
  BY <1>2, UnchangedFades DEF PreviewBegin, AddsOrFades
<1> QED BY <1>1, <1>2 DEF Lock

LEMMA PlayAdds ==
    ASSUME TypeOK, SenderInv, LifeInv, PlaySteps \/ PlayCancelled \/ PlayAbandoned
    PROVE  AddsOrFades
<1>1. /\ ctl \in Ctl /\ play \in Play /\ Raised(play) \in Play
      /\ [play EXCEPT !.cancelled = TRUE] \in Play
  BY DEF TypeOK, Play, Raised, Errors
<1>2. CASE UNCHANGED engine
  BY <1>2, UnchangedFades DEF AddsOrFades
<1>3. CASE \/ Failed(ctl, play) \/ \E c : Failed(c, Raised(play))
           \/ PlayCancelled \/ PlayAbandoned
  BY <1>1, <1>2, <1>3, FailedFades DEF AddsOrFades, PlayCancelled, PlayAbandoned
<1>4. CASE PlayRemoved /\ ~Failed(ctl, play)
  <2> DEFINE c == [ctl EXCEPT !.receivers[play.cur] = "absent"]
  <2>1. c \in Ctl /\ c.stream = ctl.stream /\ c.generation = ctl.generation
    BY DEF TypeOK, Ctl, ReceiverStates
  <2>2. /\ RemoveNext(c, play) /\ play.pc = "removing" /\ StillActive(ctl, play)
        /\ retiring' = retiring /\ torn' = torn
    BY <1>4 DEF PlayRemoved
  <2> HIDE DEF c
  <2>3. Owned(c) /\ Current(c, play)
    BY <2>1, <2>2, InProgress DEF Owned, Current, StillActive
  <2> QED BY <1>1, <2>1, <2>2, <2>3, RemoveNextAdds
<1>5. CASE PlayBrowsed /\ ~Failed(ctl, play)
  <2>1. /\ Launch(ctl, play) /\ play.pc = "browse" /\ Current(ctl, play)
        /\ retiring' = retiring
    BY <1>5 DEF PlayBrowsed
  <2> QED BY <1>1, <2>1, InProgress, LaunchAdds
<1>6. CASE PlaySpawned /\ ~Failed(ctl, play)
  <2>1. /\ engine' = [engine EXCEPT ![play.new].proc = "alive"]
        /\ play.pc = "spawning"
    BY <1>6 DEF PlaySpawned
  <2>2. play.new \in Streams /\ engine[play.new].proc = "created"
    BY <1>1, <2>1 DEF LifeInv, At, Warming, Play
  <2>3. \A t \in Streams : /\ engine'[t].sessions = engine[t].sessions
                           /\ Told(t)' = Told(t)
                           /\ engine'[t].stopping = engine[t].stopping
                           /\ Retired(t)' <=> Retired(t)
    BY <2>1, <2>2 DEF TypeOK, Engine, Retired, Told
  <2> QED BY <2>3 DEF AddsOrFades, Fades
<1>7. CASE PlayWarmed /\ ~UNCHANGED engine
  <2> DEFINE old == {ctl.stream} \ {None}
             keys == retiring \cup old
             c == IF old = {} THEN ctl ELSE [Cleared(ctl) EXCEPT !.stream = None]
  <2>1. c \in Ctl /\ c.generation = ctl.generation
    <3>1. Cleared(ctl) \in Ctl /\ Cleared(ctl).generation = ctl.generation
      BY <1>1, ClearedType DEF Cleared, Ctl
    <3> HIDE DEF Cleared
    <3> QED BY <1>1, <3>1 DEF Ctl
  <2>2. /\ play.pc = "warming" /\ Current(ctl, play)
        /\ Adopt(c, play) /\ Unfinished(keys) = {}
    BY <1>7 DEF PlayWarmed, StillPending
  <2>3. \A s \in Streams : ~Sends(s)
    BY <2>2, AllGone
  <2> HIDE DEF c
  <2> QED BY <1>1, <2>1, <2>2, <2>3, AdoptAdds DEF Current
<1>8. CASE PlayReplaced /\ ~Failed(ctl, play)
  <2>1. /\ play.pc = "replacing" /\ Current(ctl, play) /\ Adopt(ctl, play)
        /\ play.wait \subseteq torn /\ ctl.stream = None
    BY <1>8 DEF PlayReplaced, Unfinished, SenderInv, Streamless
  <2>2. \A s \in Streams : ~Sends(s)
    BY <2>1, AllGone DEF SenderInv, Awaited, Unfinished
  <2> QED BY <1>1, <2>1, <2>2, AdoptAdds
<1>9. CASE PlayAdded /\ ~Failed(ctl, play)
  <2>1. /\ play.pc = "adding" /\ StillActive(ctl, play) /\ ConnectNext(ctl, play)
        /\ retiring' = retiring
    BY <1>9 DEF PlayAdded
  <2> QED BY <1>1, <2>1, InProgress, ConnectNextAdds DEF StillActive
<1>10. CASE PlayBrowserClosed /\ ~UNCHANGED engine /\ ~\E c : Failed(c, Raised(play))
  <2>1. /\ play.pc = "nbrowser" /\ Current(ctl, play)
        /\ engine[play.new].proc = "alive" /\ ~engine[play.new].stopping
        /\ engine' = [engine EXCEPT ![play.new].sessions = play.target]
        /\ play' = [play EXCEPT !.pc = "connecting"]
        /\ ctl'.generation = ctl.generation
    BY <1>10 DEF PlayBrowserClosed, StillPending, TypeOK, Ctl
  <2>2. /\ play.new \in Streams /\ \E r \in Receivers : play.target = {r}
        /\ \A t \in Streams : engine[t].sessions = {}
    BY <1>1, <2>1 DEF LifeInv, At, Warming, Play, SenderInv, NativeAlone, Sends
  <2>3. PICK r \in Receivers : play.target = {r}
    BY <2>2
  <2>4. /\ engine'[play.new].sessions = engine[play.new].sessions \cup {r}
        /\ \A t \in Streams : /\ t # play.new => engine'[t].sessions = engine[t].sessions
                              /\ Retired(t)' <=> Retired(t)
    BY SMTT(20), <2>1, <2>2, <2>3 DEF TypeOK, Engine, Retired
  <2>5. ctl'.generation = play'.gen /\ ~Retired(play.new)
    BY <2>1 DEF Current, Retired, TypeOK, Play
  <2> QED BY <2>2, <2>4, <2>5 DEF AddsOrFades, Adds
<1> QED BY <1>2, <1>3, <1>4, <1>5, <1>6, <1>7, <1>8, <1>9, <1>10
        DEF PlaySteps, PlayRemoved, PlayBrowsed, PlaySpawned, PlayStartClosed,
            PlayWarmed, PlayNotWarmed, PlayReplaced, PlayAdded,
            PlayAborted, PlayPrepared, PlayNotPrepared, PlayNativeReplaced,
            PlayBrowserClosed, PlayConnected, PlayNotConnected, PreviewShown,
            PreviewFailed

LEMMA StepAdds ==
    ASSUME TypeOK, SenderInv, LifeInv, Next
    PROVE  AddsOrFades
<1>1. CASE Lock
  BY <1>1, LockAdds
<1>2. CASE PlaySteps \/ PlayCancelled \/ PlayAbandoned
  BY <1>2, PlayAdds
<1>3. ASSUME NEW k \in Stoppers, StopCalls(k) \/ StopSteps(k) \/ StopCancelled(k)
      PROVE  AddsOrFades
  <2>1. CASE UNCHANGED engine
    BY <2>1, UnchangedFades DEF AddsOrFades
  <2>2. ASSUME NEW r \in Receivers \cup {All}, StopOne(k, r), ~UNCHANGED engine
        PROVE  AddsOrFades
    <3>1. /\ engine' = [engine EXCEPT ![ctl.stream].leaving = Left(ctl.stream, r)]
          /\ ctl.stream \in Streams
      BY <2>2 DEF StopOne, TypeOK, Ctl
    <3> QED BY <3>1, LeftFades DEF AddsOrFades
  <2> QED BY <1>3, <2>1, <2>2
          DEF StopCalls, StopWhole, StopSteps, StopRemoved, StopTornDown, StopCancelled
<1>4. ASSUME NEW s \in Streams, Tasks(s) \/ Media(s)
      PROVE  AddsOrFades
  <2>1. CASE UNCHANGED engine
    BY <2>1, UnchangedFades DEF AddsOrFades
  <2>2. CASE CloseBegin(s) \/ StopFailedBegin(s)
    <3>1. UNCHANGED engine \/ engine' = [engine EXCEPT ![s].stopping = TRUE]
      BY <2>2 DEF CloseBegin, StopFailedBegin
    <3>2. \A t \in Streams : /\ engine'[t].sessions = engine[t].sessions
                             /\ Told(t)' = Told(t)
                             /\ engine'[t].proc = engine[t].proc
                             /\ engine[t].stopping => engine'[t].stopping
      BY <3>1 DEF TypeOK, Engine, Told
    <3> QED BY <3>2 DEF AddsOrFades, Fades, Retired
  <2>3. CASE Ready(s) \/ SourceError(s)
    <3>1. \A t \in Streams : /\ engine'[t].sessions = engine[t].sessions
                             /\ Told(t)' = Told(t)
                             /\ engine'[t].proc = engine[t].proc
                             /\ engine'[t].stopping = engine[t].stopping
      <4>1. CASE Ready(s)
        BY <4>1 DEF Ready, TypeOK, Engine, Told
      <4>2. CASE SourceError(s)
        BY <4>2 DEF SourceError, TypeOK, Engine, Told
      <4> QED BY <2>3, <4>1, <4>2
    <3> QED BY <3>1 DEF AddsOrFades, Fades, Retired
  <2>4. CASE Exit(s) \/ Reap(s) \/ NativeEnd(s)
    <3>1. /\ engine'[s].sessions = {} /\ engine'[s].proc \in {"exited", "reaped"}
          /\ \A t \in Streams \ {s} : engine'[t] = engine[t]
      BY <2>4 DEF Exit, Reap, NativeEnd, TypeOK, Engine
    <3> QED BY <3>1 DEF AddsOrFades, Fades, Retired, Told
  <2>5. CASE \E r \in Receivers : Removes(s, r)
    BY <2>5, RemovesEffect DEF AddsOrFades, Fades, Retired
  <2> QED BY <1>4, <2>1, <2>2, <2>3, <2>4, <2>5
          DEF Tasks, CloseEnd, StopFailedEnd, WatchNative, Media, ReceiverEvent
<1> QED BY <1>1, <1>2, <1>3, <1>4 DEF Next

\* A Play that a Stop or a later Play superseded commands no TV any more.
THEOREM Superseded == Spec => SupersededNeverAdds
<1> DEFINE A == \A s \in Streams :
                  ~(Told(s)' \subseteq Told(s)) => play'.gen = ctl'.generation
<1>1. TypeOK /\ SenderInv /\ LifeInv /\ [Next]_vars => [A]_vars
  BY StepAdds DEF AddsOrFades, Adds, Fades, vars
<1> QED BY <1>1, LifeCorrect, PTL DEF Spec, SupersededNeverAdds

\* Whoever sends to a TV is the one that holds it.
Holders == [r \in Receivers |-> Holder(r)]
GivenUp == {s \in Streams : Retired(s)}

Held ==
    /\ Holders \in [Receivers -> Streams \cup {None}]
    /\ \A r \in Receivers, s \in Streams : Holders[r] = s <=> r \in engine[s].sessions

LEMMA HeldOnce ==
    /\ SenderInv => Held
    /\ SenderInv' => Held'
<1>1. ASSUME SenderInv PROVE Held
  <2>1. \A s, t \in Streams, r \in Receivers :
          r \in engine[s].sessions /\ r \in engine[t].sessions => s = t
    BY <1>1 DEF SenderInv, Alone, Sends
  <2> QED BY <2>1, Values DEF Held, Holders, Holder
<1>2. ASSUME SenderInv' PROVE Held'
  <2>1. \A s, t \in Streams, r \in Receivers :
          r \in engine'[s].sessions /\ r \in engine'[t].sessions => s = t
    BY <1>2 DEF SenderInv, Alone, Sends
  <2> QED BY <2>1, Values DEF Held, Holders, Holder
<1> QED BY <1>1, <1>2

\* Playback implements the lease of TVs to streams: a TV is sent media by at most one
\* stream, it changes hands only by being free in between, and a stream that is given
\* up never takes a TV again.
THEOREM LeaseImplemented == Spec => ImplementsLease
<1>1. Init => Lease!LeaseInit
  <2> SUFFICES ASSUME Init PROVE Lease!LeaseInit
    OBVIOUS
  <2>1. \A s \in Streams : engine[s].sessions = {} /\ ~Retired(s)
    BY DEF Init, Retired
  <2>2. Holders = [r \in Receivers |-> None]
    BY <2>1 DEF Holders, Holder
  <2> QED BY <2>1, <2>2 DEF Lease!LeaseInit, Holders, Retired
<1>2. TypeOK /\ SenderInv /\ SenderInv' /\ LifeInv /\ [Next]_vars
          => [Lease!LeaseNext]_(Lease!leaseVars)
  <2> SUFFICES ASSUME TypeOK, SenderInv, SenderInv', LifeInv, [Next]_vars
               PROVE  [Lease!LeaseNext]_(Lease!leaseVars)
    OBVIOUS
  <2>1. Held /\ Held'
    BY HeldOnce
  <2>2. CASE UNCHANGED vars
    BY <2>2 DEF vars, Lease!leaseVars, Holder
  <2>3. ASSUME NEW s \in Streams, NEW r \in Receivers, Adds(s, r)
        PROVE  Lease!LeaseNext
    <3>1. /\ engine'[s].sessions = engine[s].sessions \cup {r}
          /\ \A t \in Streams : /\ t # s => engine'[t].sessions = engine[t].sessions
                                /\ Retired(t)' <=> Retired(t)
      BY <2>3 DEF Adds
    <3>2. GivenUp' = GivenUp /\ s \notin GivenUp
      BY <2>3, <3>1 DEF Adds, GivenUp
    <3>3. Holders[r] = None /\ Holders'[r] = s
      BY <2>1, <2>3, <3>1 DEF Held, Adds
    <3>4. ASSUME NEW x \in Receivers \ {r}
          PROVE  Holders'[x] = Holders[x]
      <4>1. \A t \in Streams : x \in engine'[t].sessions <=> x \in engine[t].sessions
        BY <3>1
      <4> QED BY <2>1, <4>1, Values DEF Held
    <3>5. Holders' = [Holders EXCEPT ![r] = s]
      BY <2>1, <3>3, <3>4 DEF Held
    <3>6. Lease!Attach(s, r)
      BY <3>2, <3>3, <3>5 DEF Lease!Attach, Holders, GivenUp, Retired, Holder
    <3> QED BY <3>6 DEF Lease!LeaseNext
  <2>4. CASE Fades
    <3> DEFINE R == {r \in Receivers : Holders[r] # None /\ Holders'[r] # Holders[r]}
    <3>1. ASSUME NEW r \in Receivers
          PROVE  Holders'[r] \in {Holders[r], None}
      BY <2>1, <2>4 DEF Held, Fades
    <3>2. Holders' = [r \in Receivers |-> IF r \in R THEN None ELSE Holders[r]]
      BY <2>1, <3>1 DEF Held
    <3>3. GivenUp \subseteq GivenUp' /\ GivenUp' \in SUBSET Streams
      BY <2>4 DEF Fades, GivenUp
    <3>4. CASE \A s \in Streams : Retired(s)' <=> Retired(s)
      <4>1. GivenUp' = GivenUp
        BY <3>4 DEF GivenUp
      <4>2. Lease!Detach(R)
        BY <3>2, <4>1 DEF Lease!Detach, Lease!Released, Holders, GivenUp, Retired, Holder
      <4> QED BY <4>2 DEF Lease!LeaseNext
    <3>5. CASE \A s \in Streams : engine'[s].sessions = engine[s].sessions \/ Retired(s)'
      <4>1. ASSUME NEW r \in R
            PROVE  Holders[r] \in GivenUp'
        <5>1. Holders[r] \in Streams /\ r \in engine[Holders[r]].sessions
          BY <2>1 DEF Held
        <5>2. r \notin engine'[Holders[r]].sessions
          BY <2>1, <5>1 DEF Held
        <5> QED BY <3>5, <5>1, <5>2 DEF GivenUp
      <4>2. Lease!Retire(R)
        BY <3>2, <3>3, <4>1 DEF Lease!Retire, Lease!Released, Holders, GivenUp, Retired,
                                Holder
      <4>3. R \in SUBSET Receivers
        OBVIOUS
      <4>4. Lease!LeaseNext
        <5> HIDE DEF R
        <5> QED BY <4>2, <4>3 DEF Lease!LeaseNext, Lease!Retire, Lease!Released
      <4> QED BY <4>4
    <3> QED BY <2>4, <3>4, <3>5 DEF Fades
  <2> QED BY <2>2, <2>3, <2>4, StepAdds DEF AddsOrFades
<1> QED BY <1>1, <1>2, LifeCorrect, PTL DEF Spec, ImplementsLease, Lease!LeaseSpec
=============================================================================
