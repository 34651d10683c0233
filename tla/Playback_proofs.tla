--------------------------- MODULE Playback_proofs ---------------------------
(***************************************************************************)
(* What TLAPS proves of Playback, for every set of TVs and sources and any *)
(* number of media processes, calls and callers.                           *)
(***************************************************************************)
EXTENDS Playback, TLAPS

\* The part of the state that a Play works on.
Typed == ctl \in Ctl /\ engine \in [Streams -> Engine] /\ play \in Play

-----------------------------------------------------------------------------
(* Parts of several handlers keep the types.                               *)

\* The values the model puts into fields are of their types.
LEMMA Values ==
    /\ NoPlay \in Play /\ NoStop \in Stop
    /\ Absent \in [Receivers -> ReceiverStates]
    /\ Fresh \subseteq Streams /\ None \notin Streams
BY PlaybackAssumption
   DEF NoPlay, Play, PlayPCs, Errors, NoStop, Stop, Absent, ReceiverStates, Fresh

\* Giving a stream up keeps the Controller's attributes in their types.
LEMMA ClearedType == ASSUME NEW c \in Ctl PROVE Cleared(c) \in Ctl
BY Values DEF Ctl, Cleared

LEMMA RestingType == ASSUME NEW c PROVE Resting(c) \in Phases
BY DEF Resting, Phases

\* The end of an except clause keeps them too.
LEMMA EndedType ==
    ASSUME NEW c \in Ctl, NEW p \in Play
    PROVE  Ended(c, p) \in Ctl
<1> DEFINE d == IF p.new # None /\ c.pending = p.new
                THEN [c EXCEPT !.pending = None, !.pendingTargets = {}] ELSE c
           f == IF p.replaced THEN [Cleared(d) EXCEPT !.stream = None] ELSE d
           e == IF p.source \notin Videos THEN d
                ELSE [f EXCEPT !.error = IF p.why = "none" THEN @ ELSE p.why]
<1>1. d \in Ctl
  BY DEF Ctl
<1>2. f \in Ctl
  <2>1. Cleared(d) \in Ctl
    BY <1>1, ClearedType
  <2>2. [Cleared(d) EXCEPT !.stream = None] \in Ctl
    BY <2>1 DEF Ctl
  <2> QED BY <1>1, <2>2
<1>3. e \in Ctl
  <2>1. p.why \in Errors
    BY DEF Play
  <2>2. \A x \in Ctl, why \in Errors : [x EXCEPT !.error = why] \in Ctl /\ x.error \in Errors
    BY DEF Ctl
  <2> HIDE DEF d, f
  <2> QED BY <1>1, <1>2, <2>1, <2>2
<1>4. Ended(c, p) = IF Current(c, p) THEN [e EXCEPT !.phase = Resting(e)] ELSE d
  BY DEF Ended
<1>5. [e EXCEPT !.phase = Resting(e)] \in Ctl
  <2>1. \A x \in Ctl, phase \in Phases : [x EXCEPT !.phase = phase] \in Ctl
    BY DEF Ctl
  <2> HIDE DEF e
  <2> QED BY <1>3, <2>1, RestingType
<1> QED BY <1>1, <1>4, <1>5

\* An except clause, whatever state it interrupts.
LEMMA FailedType ==
    ASSUME Typed, NEW c \in Ctl, NEW p \in Play, Failed(c, p)
    PROVE  Typed'
<1>1. CASE p.new # None /\ p.new # c.stream
  <2>1. engine' \in [Streams -> Engine]
    <3>1. engine[p.new] \in Engine /\ p.new \in Streams
      BY <1>1 DEF Typed, Play
    <3>2. [engine[p.new] EXCEPT !.stopping = TRUE] \in Engine
      BY <3>1 DEF Engine
    <3> QED BY <1>1, <3>1, <3>2 DEF Failed, Typed
  <2>2. ctl' \in Ctl
    BY <1>1, EndedType DEF Failed
  <2>3. play' \in Play
    BY <1>1, Values DEF Failed, Play, PlayPCs
  <2> QED BY <2>1, <2>2, <2>3 DEF Typed
<1>2. CASE ~(p.new # None /\ p.new # c.stream)
  BY <1>2, EndedType, Values DEF Failed, Typed
<1> QED BY <1>1, <1>2

\* What a process is told with an add or a remove, and what it makes of it.
LEMMA SessionsType ==
    ASSUME Typed, NEW s \in Streams, NEW R \in SUBSET Receivers,
           NEW L \in SUBSET Receivers
    PROVE  /\ [engine EXCEPT ![s].sessions = R, ![s].leaving = L] \in [Streams -> Engine]
           /\ [engine EXCEPT ![s].leaving = L] \in [Streams -> Engine]
<1>1. \A e \in Engine : /\ [e EXCEPT !.sessions = R, !.leaving = L] \in Engine
                        /\ [e EXCEPT !.leaving = L] \in Engine
  BY DEF Engine
<1> QED BY <1>1 DEF Typed

\* The TVs of an add and of a remove.
LEMMA JoinedType ==
    ASSUME Typed, NEW s \in Streams, NEW r
    PROVE  /\ r \in Receivers => Joined(s, r) \in SUBSET Receivers
           /\ Left(s, r) \in SUBSET Receivers
           /\ engine[s].leaving \ {r} \in SUBSET Receivers
BY DEF Typed, Engine, Joined, Left

\* An add leaves the rest of the process, and every other one, as it was.
LEMMA JoinedEffect ==
    ASSUME Typed, NEW s \in Streams, NEW r,
           engine' = [engine EXCEPT ![s].sessions = Joined(s, r),
                                    ![s].leaving = @ \ {r}]
    PROVE  /\ engine'[s].sessions = Joined(s, r)
           /\ engine'[s].leaving = engine[s].leaving \ {r}
           /\ engine'[s].proc = engine[s].proc
           /\ engine'[s].stopping = engine[s].stopping
           /\ engine'[s].src = engine[s].src /\ engine'[s].ready = engine[s].ready
           /\ \A t \in Streams \ {s} : engine'[t] = engine[t]
           /\ r \in Receivers => engine' \in [Streams -> Engine]
<1>1. engine[s] \in Engine /\ engine \in [Streams -> Engine]
  BY DEF Typed
<1>2. \A e \in Engine : \A R, L :
        LET f == [e EXCEPT !.sessions = R, !.leaving = L]
        IN /\ f.sessions = R /\ f.leaving = L /\ f.proc = e.proc
           /\ f.stopping = e.stopping /\ f.src = e.src /\ f.ready = e.ready
  BY DEF Engine
<1> DEFINE f == [engine[s] EXCEPT !.sessions = Joined(s, r)]
           g == [f EXCEPT !.leaving = @ \ {r}]
<1>3. engine' = [engine EXCEPT ![s] = g]
  OBVIOUS
<1>4. g = [engine[s] EXCEPT !.sessions = Joined(s, r), !.leaving = engine[s].leaving \ {r}]
  BY <1>1 DEF Engine
<1> HIDE DEF g
<1>5. engine'[s] = g /\ \A t \in Streams \ {s} : engine'[t] = engine[t]
  BY <1>1, <1>3
<1>6. r \in Receivers => engine' \in [Streams -> Engine]
  <2>1. \A R, L \in SUBSET Receivers :
          [engine[s] EXCEPT !.sessions = R, !.leaving = L] \in Engine
    BY <1>1 DEF Engine
  <2>2. r \in Receivers => g \in Engine
    BY <1>4, <2>1, JoinedType
  <2> QED BY <1>1, <1>3, <2>2
<1> QED BY <1>1, <1>2, <1>4, <1>5, <1>6

\* A remove that is written changes nothing but what is left to read.
LEMMA LeftEffect ==
    ASSUME Typed, NEW s \in Streams, NEW r,
           engine' = [engine EXCEPT ![s].leaving = Left(s, r)]
    PROVE  /\ engine' \in [Streams -> Engine]
           /\ engine'[s].leaving = Left(s, r)
           /\ \A t \in Streams : /\ engine'[t].sessions = engine[t].sessions
                                  /\ engine'[t].proc = engine[t].proc
                                  /\ engine'[t].stopping = engine[t].stopping
                                  /\ engine'[t].src = engine[t].src
                                  /\ engine'[t].ready = engine[t].ready
                                  /\ t # s => engine'[t].leaving = engine[t].leaving
<1>1. engine[s] \in Engine /\ engine \in [Streams -> Engine]
  BY DEF Typed
<1>2. \A e \in Engine : \A L :
        LET f == [e EXCEPT !.leaving = L]
        IN /\ f.sessions = e.sessions /\ f.leaving = L /\ f.proc = e.proc
           /\ f.stopping = e.stopping /\ f.src = e.src /\ f.ready = e.ready
  BY DEF Engine
<1>3. engine'[s] = [engine[s] EXCEPT !.leaving = Left(s, r)]
      /\ \A t \in Streams \ {s} : engine'[t] = engine[t]
  BY <1>1
<1>4. engine' \in [Streams -> Engine]
  BY JoinedType, SessionsType
<1> QED BY <1>1, <1>2, <1>3, <1>4

\* The loop over the TVs of a Play, from one await to the next.
LEMMA ConnectNextType ==
    ASSUME Typed, NEW c \in Ctl, NEW p \in Play, ConnectNext(c, p)
    PROVE  Typed'
<1> DEFINE need == {r \in p.todo : Needs(c, r)}
           d(r) == [c EXCEPT !.targets = @ \cup {r}, !.receivers[r] = "connecting"]
<1>1. CASE need = {} /\ ctl' = c /\ play' = NoPlay /\ UNCHANGED engine
  BY <1>1, Values DEF Typed
<1>2. ASSUME NEW r \in need, NEW passed \in SUBSET (p.todo \ need),
             \/ /\ Accepts(p.active)
                /\ ctl' = d(r)
                /\ engine' = [engine EXCEPT ![p.active].sessions = Joined(p.active, r),
                                              ![p.active].leaving = @ \ {r}]
                /\ play' = [p EXCEPT !.pc = "adding", !.cur = r,
                                     !.todo = (@ \ {r}) \ passed]
             \/ Refuses(p.active) /\ Failed(d(r), p)
      PROVE  Typed'
  <2>1. r \in Receivers
    BY DEF Play
  <2>2. d(r) \in Ctl
    BY <2>1 DEF Ctl, Phases, ReceiverStates
  <2>3. CASE /\ Accepts(p.active)
             /\ ctl' = d(r)
             /\ engine' = [engine EXCEPT ![p.active].sessions = Joined(p.active, r),
                                           ![p.active].leaving = @ \ {r}]
             /\ play' = [p EXCEPT !.pc = "adding", !.cur = r,
                                  !.todo = (@ \ {r}) \ passed]
    <3>1. p.active \in Streams
      BY <2>3 DEF Accepts, Play
    <3>2. engine' \in [Streams -> Engine]
      BY <2>1, <2>3, <3>1, JoinedEffect
    <3>3. play' \in Play
      BY <2>1, <2>3 DEF Play, PlayPCs
    <3> QED BY <2>2, <2>3, <3>2, <3>3 DEF Typed
  <2>4. CASE Failed(d(r), p)
    BY <2>2, <2>4, FailedType
  <2> QED BY <1>2, <2>3, <2>4
<1> QED BY <1>1, <1>2 DEF ConnectNext

LEMMA ConnectType ==
    ASSUME Typed, NEW c \in Ctl, NEW p \in Play, Connect(c, p)
    PROVE  Typed'
<1>1. [c EXCEPT !.source = p.source, !.phase = "connecting"] \in Ctl
  BY DEF Ctl, Play, Phases
<1>2. [p EXCEPT !.active = c.stream, !.todo = p.target] \in Play
  BY DEF Ctl, Play
<1> QED BY <1>1, <1>2, ConnectNextType DEF Connect

LEMMA AdoptType ==
    ASSUME Typed, NEW c \in Ctl, NEW p \in Play, Adopt(c, p)
    PROVE  Typed'
<1>1. [Cleared(c) EXCEPT !.stream = p.new, !.pending = None,
                         !.pendingTargets = {}] \in Ctl
  BY ClearedType DEF Ctl, Play
<1> QED BY <1>1, ConnectType DEF Adopt

\* A new media process has a source.
LEMMA SpawnedType ==
    ASSUME Typed, NEW s \in Streams, NEW p \in Play, NEW state \in {"created", "alive"}
    PROVE  [engine EXCEPT ![s].src = p.source, ![s].proc = state]
               \in [Streams -> Engine]
<1>1. p.source \in Sources \cup {None}
  BY DEF Play
<1>2. [engine[s] EXCEPT !.src = p.source] \in Engine
  BY <1>1 DEF Typed, Engine
<1>3. \A e \in Engine : [e EXCEPT !.proc = state] \in Engine
  BY DEF Engine
<1>4. [[engine[s] EXCEPT !.src = p.source] EXCEPT !.proc = state] \in Engine
  BY <1>2, <1>3
<1> QED BY <1>4 DEF Typed

\* Joining the current stream, or creating a new one.
LEMMA LaunchType ==
    ASSUME Typed, NEW c \in Ctl, NEW p \in Play, Launch(c, p)
    PROVE  Typed'
<1>1. CASE p.same
  BY <1>1, ConnectType DEF Launch
<1>2. ASSUME ~p.same, NEW s \in Fresh,
             /\ engine' = [engine EXCEPT ![s].src = p.source, ![s].proc = "created"]
             /\ ctl' = [c EXCEPT !.phase = "preparing", !.pending = s,
                                 !.pendingTargets = p.target]
             /\ play' = [p EXCEPT !.pc = "spawning", !.new = s]
      PROVE  Typed'
  <2>1. s \in Streams
    BY Values
  <2>2. engine' \in [Streams -> Engine]
    BY <1>2, <2>1, SpawnedType
  <2>3. p.target \in SUBSET Receivers
    BY DEF Play
  <2>4. ctl' \in Ctl
    BY <1>2, <2>1, <2>3 DEF Ctl, Phases
  <2>5. play' \in Play
    BY <1>2, <2>1 DEF Play, PlayPCs
  <2> QED BY <2>2, <2>4, <2>5 DEF Typed
<1> QED BY <1>1, <1>2 DEF Launch

\* The loop over the TVs a same-source Play no longer names.
LEMMA RemoveNextType ==
    ASSUME Typed, NEW c \in Ctl, NEW p \in Play, RemoveNext(c, p)
    PROVE  Typed'
<1>1. ASSUME NEW r \in p.todo, Accepts(p.active), ctl' = c,
             engine' = [engine EXCEPT ![p.active].leaving = Left(p.active, r)],
             play' = [p EXCEPT !.pc = "removing", !.cur = r, !.todo = @ \ {r}]
      PROVE  Typed'
  <2>1. r \in Receivers /\ p.active \in Streams
    BY <1>1 DEF Play, Accepts
  <2>2. engine' \in [Streams -> Engine]
    BY <1>1, <2>1, LeftEffect
  <2>3. play' \in Play
    BY <1>1, <2>1 DEF Play, PlayPCs
  <2> QED BY <1>1, <2>2, <2>3 DEF Typed
<1>2. CASE p.todo # {} /\ Failed(c, p)
  BY <1>2, FailedType
<1>3. CASE p.todo = {}
  <2> DEFINE d == IF p.same THEN [c EXCEPT !.targets = @ \cap p.target] ELSE c
  <2>1. d \in Ctl
    BY DEF Ctl
  <2>2. [p EXCEPT !.pc = "browse"] \in Play
    BY DEF Play, PlayPCs
  <2>3. CASE p.source \in Pages
    BY <1>3, <2>1, <2>2, <2>3 DEF RemoveNext, Typed
  <2>4. CASE p.source \notin Pages
    <3>1. Launch(d, p)
      BY <1>3, <2>4 DEF RemoveNext
    <3> HIDE DEF d
    <3> QED BY <2>1, <3>1, LaunchType
  <2> QED BY <2>3, <2>4
<1> QED BY <1>1, <1>2, <1>3 DEF RemoveNext

LEMMA PrepareType ==
    ASSUME Typed, NEW c \in Ctl, NEW p \in Play, Prepare(c, p)
    PROVE  Typed'
<1>1. PICK s \in Fresh :
             /\ engine' = [engine EXCEPT ![s].src = p.source, ![s].proc = "alive"]
             /\ ctl' = [c EXCEPT !.phase = "preparing", !.pending = s,
                                 !.pendingTargets = p.target]
             /\ play' = [p EXCEPT !.pc = "preparing", !.new = s]
  BY DEF Prepare
<1>2. s \in Streams
  BY Values
<1>3. p.target \in SUBSET Receivers
  BY DEF Play
<1>4. engine' \in [Streams -> Engine]
  BY <1>1, <1>2, SpawnedType
<1>5. ctl' \in Ctl
  BY <1>1, <1>2, <1>3 DEF Ctl, Phases
<1>6. play' \in Play
  BY <1>1, <1>2 DEF Play, PlayPCs
<1> QED BY <1>4, <1>5, <1>6 DEF Typed

-----------------------------------------------------------------------------
(* Type correctness: one lemma per group of actions.                       *)

\* The part of the state that no Play assigns, retiring aside.
Others == /\ retiring \subseteq Streams /\ torn \subseteq Streams
          /\ failing \in [Streams -> {"no", "scheduled", "closing"}]
          /\ stops \in [Stoppers -> Stop]

LEMMA TypeParts == TypeOK => Typed /\ Others
BY DEF TypeOK, Typed, Others

LEMMA NextTypeParts == Typed' /\ Others' => TypeOK'
BY DEF TypeOK, Typed, Others

\* The end of a call that raises and nothing else.
LEMMA GivenUpType ==
    ASSUME TypeOK, Failed(ctl, play)
    PROVE  Typed'
BY FailedType, TypeParts DEF Typed

LEMMA RaisedType ==
    ASSUME TypeOK, NEW c \in Ctl, Failed(c, Raised(play))
    PROVE  Typed'
<1>1. Raised(play) \in Play
  BY DEF Raised, TypeOK, Play, Errors
<1> QED BY <1>1, FailedType, TypeParts

\* The local variables of a new call.
LEMMA NewPlayType ==
    ASSUME NEW src \in Sources, NEW target \in SUBSET Receivers, NEW same \in BOOLEAN,
           NEW gen \in Nat, NEW active \in Streams \cup {None},
           NEW todo \in SUBSET Receivers
    PROVE  [NoPlay EXCEPT !.source = src, !.target = target, !.same = same,
                          !.gen = gen, !.active = active, !.todo = todo] \in Play
BY Values DEF Play

\* A Play or a preview begins.
LEMMA LockType == TypeOK /\ Lock => TypeOK'
<1> SUFFICES ASSUME TypeOK, Lock PROVE TypeOK'
  OBVIOUS
<1>1. ASSUME NEW src \in Sources, NEW wanted \in (SUBSET Receivers) \ {{}},
             NEW add \in BOOLEAN, PlayBegin(src, wanted, add)
      PROVE  TypeOK'
  <2> DEFINE target == IF add THEN wanted \cup ctl.targets ELSE wanted
             same == SameSource(ctl, src)
             c == [ctl EXCEPT !.generation = @ + 1, !.error = "none"]
             gen == c.generation
             todo == IF same THEN ctl.targets \ target ELSE {}
             q == [NoPlay EXCEPT !.source = src, !.target = target, !.same = same,
                                 !.gen = gen, !.active = ctl.stream, !.todo = todo]
  <2>1. c \in Ctl
    <3>1. [ctl EXCEPT !.generation = @ + 1] \in Ctl
      BY DEF TypeOK, Ctl
    <3>2. \A d \in Ctl : [d EXCEPT !.error = "none"] \in Ctl
      BY DEF Ctl, Errors
    <3> QED BY <3>1, <3>2
  <2>2. same \in BOOLEAN /\ target \in SUBSET Receivers
    <3>1. same \in BOOLEAN
      BY DEF SameSource
    <3>2. ctl.targets \in SUBSET Receivers
      BY DEF TypeOK, Ctl
    <3> QED BY <3>1, <3>2
  <2>3. gen \in Nat /\ ctl.stream \in Streams \cup {None} /\ todo \in SUBSET Receivers
    BY DEF TypeOK, Ctl
  <2>4. q \in Play
    <3> HIDE DEF target, same, gen, todo
    <3> QED BY <2>2, <2>3, NewPlayType
  <2>5. Prepare(c, q) \/ RemoveNext(c, q)
    BY <1>1 DEF PlayBegin
  <2>6. Typed'
    <3> HIDE DEF c, q
    <3> QED BY <2>1, <2>4, <2>5, PrepareType, RemoveNextType, TypeParts
  <2>7. UNCHANGED <<retiring, torn, failing, stops>>
    BY <1>1, Zenon DEF PlayBegin
  <2> QED BY <2>6, <2>7, TypeParts, NextTypeParts DEF Others
<1>2. ASSUME NEW src \in Pages, PreviewBegin(src)
      PROVE  TypeOK'
  <2>1. ctl.error \in Errors /\ ctl.generation \in Nat /\ Inactive(ctl) \in BOOLEAN
    BY DEF TypeOK, Ctl, Inactive
  <2>2. play' \in Play
    BY <1>2, <2>1 DEF PreviewBegin, NoPlay, Play, PlayPCs, Sources
  <2> QED BY <1>2, <2>2 DEF PreviewBegin, TypeOK
<1> QED BY <1>1, <1>2 DEF Lock

\* A Play keeps the types when it keeps those of its part of the state.
LEMMA PlayPartType ==
    ASSUME TypeOK, Typed', retiring' \subseteq Streams, UNCHANGED <<torn, failing, stops>>
    PROVE  TypeOK'
BY DEF TypeOK, Typed

\* The steps of a Play up to the adoption of its stream.
LEMMA WarmupType ==
    ASSUME TypeOK, PlayRemoved \/ PlayBrowsed \/ PlaySpawned \/ PlayStartClosed
                   \/ PlayNotWarmed \/ PlayCancelled \/ PlayAbandoned
    PROVE  TypeOK'
<1> USE TypeParts
<1>1. CASE PlayRemoved
  <2>1. [ctl EXCEPT !.receivers[play.cur] = "absent"] \in Ctl
    BY DEF TypeOK, Ctl, ReceiverStates
  <2>2. Typed'
    BY <1>1, <2>1, RemoveNextType, GivenUpType DEF PlayRemoved, Typed
  <2> QED BY <1>1, <2>2, PlayPartType DEF PlayRemoved, TypeOK
<1>2. CASE PlayBrowsed
  <2>1. Typed'
    BY <1>2, LaunchType, GivenUpType DEF PlayBrowsed, Typed
  <2> QED BY <1>2, <2>1, PlayPartType DEF PlayBrowsed, TypeOK
<1>3. CASE PlaySpawned
  <2>1. CASE Failed(ctl, play)
    BY <1>3, <2>1, GivenUpType, PlayPartType DEF PlaySpawned, TypeOK
  <2>2. CASE ~Failed(ctl, play)
    <3>1. engine' = [engine EXCEPT ![play.new].proc = "alive"] /\ UNCHANGED ctl
          /\ play' = [play EXCEPT !.pc = AfterSpawn(engine[play.new].stopping)]
      BY <1>3, <2>2 DEF PlaySpawned
    <3>2. \A e \in Engine : [e EXCEPT !.proc = "alive"] \in Engine
      BY DEF Engine
    <3>3. engine' \in [Streams -> Engine]
      BY <3>1, <3>2 DEF TypeOK
    <3>4. play' \in Play
      BY <3>1 DEF TypeOK, Play, PlayPCs, AfterSpawn
    <3> QED BY <1>3, <3>1, <3>3, <3>4 DEF PlaySpawned, TypeOK
  <2> QED BY <2>1, <2>2
<1>4. CASE PlayStartClosed
  BY <1>4, GivenUpType, PlayPartType DEF PlayStartClosed, TypeOK
<1>5. CASE PlayNotWarmed
  BY <1>5, GivenUpType, PlayPartType DEF PlayNotWarmed, TypeOK
<1>6. CASE PlayCancelled
  <2>1. [play EXCEPT !.cancelled = TRUE] \in Play
    BY DEF TypeOK, Play
  <2>2. Typed'
    BY <1>6, <2>1, FailedType DEF PlayCancelled, TypeOK
  <2> QED BY <1>6, <2>2, PlayPartType DEF PlayCancelled, TypeOK
<1>7. CASE PlayAbandoned
  BY <1>7, Values DEF PlayAbandoned, TypeOK
<1> QED BY <1>1, <1>2, <1>3, <1>4, <1>5, <1>6, <1>7

\* The steps of a Play that adopt its stream and add its TVs, and its end.
LEMMA AdoptionType ==
    ASSUME TypeOK, PlayWarmed \/ PlayReplaced \/ PlayAdded \/ PlayAborted
                   \/ PreviewShown \/ PreviewFailed
    PROVE  TypeOK'
<1> USE TypeParts
<1>1. CASE PlayWarmed
  <2> DEFINE old == {ctl.stream} \ {None}
             keys == retiring \cup old
             c == IF old = {} THEN ctl ELSE [Cleared(ctl) EXCEPT !.stream = None]
  <2>1. keys \in SUBSET Streams
    BY DEF TypeOK, Ctl
  <2>2. c \in Ctl
    BY ClearedType DEF TypeOK, Ctl
  <2>3. CASE retiring' = {} /\ Adopt(c, play)
    <3>1. Typed'
      <4> HIDE DEF c
      <4> QED BY <2>2, <2>3, AdoptType DEF Typed
    <3> QED BY <1>1, <2>3, <3>1, PlayPartType DEF PlayWarmed
  <2>4. CASE /\ retiring' = keys /\ ctl' = c /\ UNCHANGED engine
             /\ play' = [play EXCEPT !.pc = "replacing", !.wait = keys]
    <3>1. play' \in Play
      <4> HIDE DEF keys
      <4> QED BY <2>1, <2>4 DEF TypeOK, Play, PlayPCs
    <3>2. Typed'
      BY <2>2, <2>4, <3>1 DEF Typed
    <3> QED BY <1>1, <2>1, <2>4, <3>2, PlayPartType DEF PlayWarmed
  <2> QED BY <1>1, <2>3, <2>4 DEF PlayWarmed
<1>2. CASE PlayReplaced
  <2>1. Typed'
    BY <1>2, AdoptType, GivenUpType DEF PlayReplaced, Typed
  <2> QED BY <1>2, <2>1, PlayPartType DEF PlayReplaced, TypeOK
<1>3. CASE PlayAdded
  <2>1. Typed'
    BY <1>3, ConnectNextType, GivenUpType DEF PlayAdded, Typed
  <2> QED BY <1>3, <2>1, PlayPartType DEF PlayAdded, TypeOK
<1>4. CASE PlayAborted
  BY <1>4, EndedType, Values DEF PlayAborted, TypeOK
<1>5. CASE PreviewShown
  <2> DEFINE c == [ctl EXCEPT !.source = IF @ \in Pages THEN play.source ELSE @]
  <2>1. c \in Ctl
    BY DEF TypeOK, Ctl, Play
  <2>2. [c EXCEPT !.error = "none", !.phase = IF @ = "error" THEN "idle" ELSE @] \in Ctl
    BY <2>1 DEF Ctl, Errors, Phases
  <2> QED BY <1>5, <2>1, <2>2, Values DEF PreviewShown, TypeOK
<1>6. CASE PreviewFailed
  BY <1>6, Values DEF PreviewFailed, TypeOK
<1> QED BY <1>1, <1>2, <1>3, <1>4, <1>5, <1>6

\* The steps of a Play of a direct video.
LEMMA NativePlayType ==
    ASSUME TypeOK, PlayPrepared \/ PlayNotPrepared \/ PlayNativeReplaced
                   \/ PlayBrowserClosed \/ PlayConnected \/ PlayNotConnected
    PROVE  TypeOK'
<1> USE TypeParts
<1>1. CASE PlayPrepared
  <2> DEFINE keys == retiring \cup ({ctl.stream} \ {None})
             q == [play EXCEPT !.replaced = TRUE]
  <2>1. keys \in SUBSET Streams
    BY DEF TypeOK, Ctl
  <2>2. [ctl EXCEPT !.stream = None] \in Ctl
    BY DEF TypeOK, Ctl
  <2>3. q \in Play
    BY DEF TypeOK, Play
  <2>4. [q EXCEPT !.pc = "nbrowser"] \in Play
        /\ [q EXCEPT !.pc = "nreplacing", !.wait = keys] \in Play
    <3> HIDE DEF q, keys
    <3> QED BY <2>1, <2>3 DEF Play, PlayPCs
  <2>5. play' \in Play /\ retiring' \in SUBSET Streams
    BY <1>1, <2>1, <2>4 DEF PlayPrepared
  <2> QED BY <1>1, <2>2, <2>5 DEF PlayPrepared, TypeOK
<1>2. CASE PlayNotPrepared
  BY <1>2, RaisedType, PlayPartType DEF PlayNotPrepared, TypeOK
<1>3. CASE PlayNativeReplaced
  <2>1. [play EXCEPT !.pc = "nbrowser"] \in Play
    BY DEF TypeOK, Play, PlayPCs
  <2>2. Typed'
    BY <1>3, <2>1, RaisedType DEF PlayNativeReplaced, TypeOK, Typed
  <2> QED BY <1>3, <2>2, PlayPartType DEF PlayNativeReplaced, TypeOK
<1>4. CASE PlayBrowserClosed
  <2> DEFINE c == [ctl EXCEPT !.source = play.source, !.targets = play.target,
                              !.phase = "connecting",
                              !.receivers = [r \in Receivers |->
                                IF r \in play.target THEN "connecting" ELSE "absent"]]
  <2>1. c \in Ctl
    BY DEF TypeOK, Ctl, Play, Phases, ReceiverStates
  <2>2. CASE Failed(c, Raised(play)) \/ Failed(ctl, Raised(play))
    <3> HIDE DEF c
    <3>1. Typed'
      BY <2>1, <2>2, RaisedType DEF TypeOK
    <3> QED BY <1>4, <3>1, PlayPartType DEF PlayBrowserClosed, TypeOK
  <2>3. CASE /\ ctl' = c
             /\ engine[play.new].proc = "alive"
             /\ engine' = [engine EXCEPT ![play.new].sessions = play.target]
             /\ play' = [play EXCEPT !.pc = "connecting"]
    <3>1. play' \in Play /\ play.target \in SUBSET Receivers
      BY <2>3 DEF TypeOK, Play, PlayPCs
    <3>2. engine' \in [Streams -> Engine]
      <4>1. \A e \in Engine : [e EXCEPT !.sessions = play.target] \in Engine
        BY <3>1 DEF Engine
      <4> QED BY <2>3, <4>1 DEF TypeOK
    <3> QED BY <1>4, <2>1, <2>3, <3>1, <3>2 DEF PlayBrowserClosed, TypeOK
  <2> QED BY <1>4, <2>2, <2>3 DEF PlayBrowserClosed
<1>5. CASE PlayConnected
  <2> DEFINE c == [ctl EXCEPT !.stream = play.new, !.pending = None,
                              !.pendingTargets = {}, !.phase = "playing",
                              !.receivers = [r \in Receivers |->
                                IF r \in play.target THEN "streaming" ELSE "absent"]]
  <2>1. c \in Ctl
    BY DEF TypeOK, Ctl, Play, Phases, ReceiverStates
  <2>2. Typed'
    BY <1>5, <2>1, Values, RaisedType DEF PlayConnected, TypeOK, Typed
  <2> QED BY <1>5, <2>2, PlayPartType DEF PlayConnected, TypeOK
<1>6. CASE PlayNotConnected
  BY <1>6, RaisedType, PlayPartType DEF PlayNotConnected, TypeOK
<1> QED BY <1>1, <1>2, <1>3, <1>4, <1>5, <1>6

\* finish_teardown as the last await of a Stop.
LEMMA StopAwaitsType ==
    ASSUME TypeOK, NEW k \in Stoppers, NEW q \in Stop, NEW keys \in SUBSET Streams,
           StopAwaits(k, q, keys)
    PROVE  retiring' \subseteq Streams /\ stops' \in [Stoppers -> Stop]
<1>1. [q EXCEPT !.pc = "teardown", !.wait = keys, !.active = None] \in Stop
  BY DEF Stop
<1> QED BY <1>1, Values DEF StopAwaits, TypeOK

\* What every Stop that is not ignored does first.
LEMMA SupersedingType ==
    ASSUME TypeOK
    PROVE  /\ Superseding(ctl) \in Ctl
           /\ Superseding(ctl).generation = ctl.generation + 1
           /\ Superseding(ctl).stream = ctl.stream
           /\ Superseding(ctl).pending = None
<1>1. [ctl EXCEPT !.generation = @ + 1] \in Ctl
  BY DEF TypeOK, Ctl
<1> QED BY <1>1 DEF Superseding, Ctl, TypeOK

LEMMA StopType ==
    ASSUME TypeOK, NEW k \in Stoppers, StopCalls(k) \/ StopSteps(k) \/ StopCancelled(k)
    PROVE  TypeOK'
<1>1. ASSUME NEW r \in Receivers \cup {All}, StopOne(k, r)
      PROVE  TypeOK'
  <2> DEFINE c == Superseding(ctl)
             gen == c.generation
             s == [NoStop EXCEPT !.receiver = r, !.gen = gen, !.active = ctl.stream]
  <2>1. c \in Ctl /\ gen \in Nat /\ ctl.stream \in Streams \cup {None}
    BY SupersedingType DEF TypeOK, Ctl
  <2>2. [s EXCEPT !.pc = "removing"] \in Stop
    <3> HIDE DEF gen
    <3>1. s \in Stop
      BY <2>1, Values DEF Stop
    <3> HIDE DEF s
    <3> QED BY <3>1 DEF Stop
  <2>3. \/ stops' = [stops EXCEPT ![k] = [s EXCEPT !.pc = "removing"]]
        \/ stops' = [stops EXCEPT ![k] = NoStop]
    BY <1>1 DEF StopOne
  <2>4. stops' \in [Stoppers -> Stop]
    <3> HIDE DEF s
    <3> QED BY <2>2, <2>3, Values DEF TypeOK
  <2>5. engine' \in [Streams -> Engine]
    <3>1. CASE /\ Accepts(ctl.stream)
               /\ engine' = [engine EXCEPT ![ctl.stream].leaving = Left(ctl.stream, r)]
      <4>1. ctl.stream \in Streams
        BY <2>1, <3>1 DEF Accepts
      <4> QED BY <3>1, <4>1, LeftEffect, TypeParts
    <3> QED BY <1>1, <3>1 DEF StopOne, TypeOK
  <2>6. ctl' = c /\ retiring' = retiring \cup ({ctl.pending} \ {None})
        /\ UNCHANGED <<torn, failing, play>>
    BY <1>1 DEF StopOne
  <2> QED BY <2>1, <2>4, <2>5, <2>6 DEF TypeOK, Ctl
<1>2. ASSUME NEW r \in Receivers \cup {All}, StopWhole(k, r)
      PROVE  TypeOK'
  <2> DEFINE whole == r = All \/ r \in ctl.targets
             gone == {ctl.pending} \cup (IF whole THEN {ctl.stream} ELSE {})
             c == Superseding(ctl)
             gen == c.generation
             s == [NoStop EXCEPT !.receiver = r, !.gen = gen]
             keys == retiring \cup (gone \ {None})
  <2>1. c \in Ctl /\ gen \in Nat
    BY SupersedingType DEF Ctl
  <2>2. s \in Stop
    <3> HIDE DEF gen
    <3> QED BY <2>1, Values DEF Stop
  <2>3. keys \in SUBSET Streams
    BY DEF TypeOK, Ctl
  <2>4. StopAwaits(k, s, keys)
    BY <1>2 DEF StopWhole
  <2>5. retiring' \subseteq Streams /\ stops' \in [Stoppers -> Stop]
    <3> HIDE DEF s, keys
    <3> QED BY <2>2, <2>3, <2>4, StopAwaitsType
  <2>6. ctl' \in Ctl
    <3>1. ctl' = IF whole
                 THEN [Cleared(c) EXCEPT !.stream = None, !.phase = "idle"]
                 ELSE [c EXCEPT !.phase = Resting(c)]
      BY <1>2 DEF StopWhole
    <3> HIDE DEF c
    <3>2. Cleared(c) \in Ctl
      BY <2>1, ClearedType
    <3>3. [Cleared(c) EXCEPT !.stream = None, !.phase = "idle"] \in Ctl
      BY <3>2 DEF Ctl, Phases
    <3>4. [c EXCEPT !.phase = Resting(c)] \in Ctl
      BY <2>1, RestingType DEF Ctl
    <3> QED BY <3>1, <3>3, <3>4
  <2> QED BY <1>2, <2>5, <2>6 DEF StopWhole, TypeOK
<1>3. CASE StopRemoved(k)
  <2>1. [ctl EXCEPT !.targets = @ \ {stops[k].receiver},
                    !.receivers[stops[k].receiver] = "absent"] \in Ctl
    BY DEF TypeOK, Ctl, ReceiverStates
  <2>2. ctl' \in Ctl
    BY <1>3, <2>1 DEF StopRemoved, TypeOK
  <2>3. retiring' \subseteq Streams /\ stops' \in [Stoppers -> Stop]
    <3>1. CASE StopAwaits(k, stops[k], retiring)
      BY <3>1, StopAwaitsType DEF TypeOK
    <3> QED BY <1>3, <3>1, Values DEF StopRemoved, TypeOK
  <2> QED BY <1>3, <2>2, <2>3 DEF StopRemoved, TypeOK
<1>4. CASE StopTornDown(k)
  BY <1>4, Values DEF StopTornDown, TypeOK
<1>5. CASE StopCancelled(k)
  BY <1>5, Values DEF StopCancelled, TypeOK
<1> QED BY <1>1, <1>2, <1>3, <1>4, <1>5 DEF StopCalls, StopSteps

\* The close tasks, stop_failed and watch_native.
LEMMA TasksType ==
    ASSUME TypeOK, NEW s \in Streams, Tasks(s)
    PROVE  TypeOK'
<1>1. CASE CloseBegin(s)
  <2>1. \A e \in Engine : [e EXCEPT !.stopping = TRUE] \in Engine
    BY DEF Engine
  <2> QED BY <1>1, <2>1 DEF CloseBegin, TypeOK
<1>2. CASE CloseEnd(s)
  BY <1>2 DEF CloseEnd, TypeOK
<1>3. CASE StopFailedBegin(s)
  <2>1. [ctl EXCEPT !.error = "receivers"] \in Ctl
    BY DEF TypeOK, Ctl, Errors
  <2>2. \A e \in Engine : [e EXCEPT !.stopping = TRUE] \in Engine
    BY DEF Engine
  <2> QED BY <1>3, <2>1, <2>2 DEF StopFailedBegin, TypeOK
<1>4. CASE StopFailedEnd(s)
  <2>1. [ctl EXCEPT !.stream = None, !.targets = {}, !.phase = "error"] \in Ctl
    BY DEF TypeOK, Ctl, Phases
  <2> QED BY <1>4, <2>1 DEF StopFailedEnd, TypeOK
<1>5. CASE WatchNative(s)
  <2>1. PICK error \in {"none", "native"} :
          ctl' = [Cleared(ctl) EXCEPT !.stream = None, !.error = error,
                    !.phase = IF error = "none" THEN "idle" ELSE "error"]
    BY <1>5 DEF WatchNative
  <2>2. ctl' \in Ctl
    BY <2>1, ClearedType DEF TypeOK, Ctl, Phases, Errors
  <2> QED BY <1>5, <2>2 DEF WatchNative, TypeOK
<1> QED BY <1>1, <1>2, <1>3, <1>4, <1>5 DEF Tasks

\* The media processes and their events.
LEMMA MediaType ==
    ASSUME TypeOK, NEW s \in Streams, Media(s)
    PROVE  TypeOK'
<1>1. CASE Ready(s)
  <2>1. \A e \in Engine : [e EXCEPT !.ready = "yes"] \in Engine
    BY DEF Engine
  <2> QED BY <1>1, <2>1 DEF Ready, TypeOK
<1>2. CASE SourceError(s)
  <2>1. \A e \in Engine :
          [e EXCEPT !.ready = IF @ = "no" THEN "failed" ELSE @] \in Engine
    BY DEF Engine
  <2>2. [ctl EXCEPT !.error = "source", !.phase = "error"] \in Ctl
    BY DEF TypeOK, Ctl, Phases, Errors
  <2> QED BY <1>2, <2>1, <2>2 DEF SourceError, TypeOK
<1>3. ASSUME NEW r \in Receivers, NEW state \in ReceiverEvents, ReceiverEvent(s, r, state)
      PROVE  TypeOK'
  <2>1. state \in ReceiverStates
    BY PlaybackAssumption DEF ReceiverStates
  <2>2. [ctl EXCEPT !.receivers[r] = state,
                    !.phase = IF state = "streaming" THEN "playing" ELSE @] \in Ctl
    BY <2>1 DEF TypeOK, Ctl, Phases
  <2>3. [failing EXCEPT ![s] = "scheduled"]
          \in [Streams -> {"no", "scheduled", "closing"}]
    BY DEF TypeOK
  <2> QED BY <1>3, <2>2, <2>3 DEF ReceiverEvent, TypeOK
<1>4. CASE Exit(s)
  <2>1. \A e \in Engine :
          [e EXCEPT !.proc = "exited", !.sessions = {}, !.leaving = {}] \in Engine
    BY DEF Engine
  <2> QED BY <1>4, <2>1 DEF Exit, TypeOK
<1>5. CASE Reap(s)
  <2>1. \A e \in Engine :
          [e EXCEPT !.proc = "reaped", !.sessions = {}, !.leaving = {},
                    !.ready = IF @ = "no" THEN "failed" ELSE @] \in Engine
    BY DEF Engine
  <2>2. engine' \in [Streams -> Engine]
    BY <1>5, <2>1 DEF Reap, TypeOK
  <2>3. \A complete \in BOOLEAN :
          [Cleared(ctl) EXCEPT !.stream = None,
             !.phase = IF complete THEN "idle" ELSE "error",
             !.error = IF complete THEN "none"
                       ELSE IF @ = "none" THEN "source" ELSE @] \in Ctl
    <3>1. Cleared(ctl) \in Ctl BY ClearedType DEF TypeOK
    <3>2. \A c \in Ctl, p \in Phases, e \in Errors :
             [c EXCEPT !.stream = None, !.phase = p, !.error = e] \in Ctl
      BY DEF Ctl
    <3>3. \A c \in Ctl : c.error \in Errors BY DEF Ctl
    <3>4. {"none", "source"} \subseteq Errors /\ {"idle", "error"} \subseteq Phases
      BY DEF Errors, Phases
    <3> QED BY <3>1, <3>2, <3>3, <3>4
  <2>4. ctl' \in Ctl
    BY <1>5, <2>3 DEF Reap, TypeOK
  <2> QED BY <1>5, <2>2, <2>4 DEF Reap, TypeOK
<1>6. CASE NativeEnd(s)
  <2>1. \A e \in Engine :
          [e EXCEPT !.proc = "reaped", !.stopping = TRUE, !.sessions = {},
                    !.leaving = {}, !.ready = IF @ = "no" THEN "failed" ELSE @] \in Engine
    BY DEF Engine
  <2> QED BY <1>6, <2>1 DEF NativeEnd, TypeOK
<1>7. ASSUME NEW r \in Receivers, Removes(s, r)
      PROVE  TypeOK'
  <2>1. \A e \in Engine :
          [e EXCEPT !.sessions = @ \ {r}, !.leaving = @ \ {r}] \in Engine
    BY DEF Engine
  <2> QED BY <1>7, <2>1 DEF Removes, TypeOK
<1> QED BY <1>1, <1>2, <1>3, <1>4, <1>5, <1>6, <1>7 DEF Media

-----------------------------------------------------------------------------
\* Every attribute of the Controller, every media process and every task of the
\* service always has a value of its type.
THEOREM TypeCorrect == Spec => []TypeOK
<1>1. Init => TypeOK
  BY Values DEF Init, TypeOK, Ctl, Engine, Phases, Errors
<1>2. TypeOK /\ [Next]_vars => TypeOK'
  <2> SUFFICES ASSUME TypeOK, [Next]_vars PROVE TypeOK'
    OBVIOUS
  <2>1. CASE Lock
    BY <2>1, LockType
  <2>2. CASE PlaySteps \/ PlayCancelled \/ PlayAbandoned
    BY <2>2, WarmupType, AdoptionType, NativePlayType DEF PlaySteps
  <2>3. ASSUME NEW k \in Stoppers, StopCalls(k) \/ StopSteps(k) \/ StopCancelled(k)
        PROVE  TypeOK'
    BY <2>3, StopType
  <2>4. ASSUME NEW s \in Streams, Tasks(s) \/ Media(s)
        PROVE  TypeOK'
    BY <2>4, TasksType, MediaType
  <2>5. CASE UNCHANGED vars
    BY <2>5 DEF vars, TypeOK
  <2> QED BY <2>1, <2>2, <2>3, <2>4, <2>5 DEF Next
<1> QED BY <1>1, <1>2, PTL DEF Spec

-----------------------------------------------------------------------------
(* One sender at a time.  ExclusiveReceivers is not inductive: that the old*)
(* stream of a replacement no longer sends when the new one starts rests on*)
(* who may still send, on what a replacement waits for, and on the         *)
(* generation that tells it of every Stop that came meanwhile.             *)

Sends(s) == engine[s].sessions # {}

\* Only a live process sends, and none whose close task is done.
Silent ==
    /\ \A s \in Streams : engine[s].proc # "alive" => ~Sends(s)
    /\ \A s \in torn : engine[s].stopping /\ ~Sends(s)

\* Whoever sends is the current stream, waits for its close task, or is the session
\* that a Play of direct video connects, or gives up because it was cancelled: only
\* then does the Play wait for it to the end.
OwnedSenders ==
    \A s \in Streams : Sends(s) =>
        \/ s = ctl.stream
        \/ s \in retiring \ torn
        \/ s = play.new /\ \/ play.pc = "connecting"
                           \/ play.pc = "aborting" /\ play.cancelled

\* Nobody sends beside another, or beside a current stream.
Alone ==
    /\ \A s, t \in Streams : Sends(s) /\ Sends(t) => s = t
    /\ \A s \in Streams : Sends(s) => ctl.stream \in {s, None}

\* A replacement that no Stop superseded waits for every stream given up.
Awaited ==
    /\ play.gen <= ctl.generation
    /\ play.pc \in {"replacing", "nreplacing"} /\ Current(ctl, play)
           => retiring \subseteq play.wait

\* There is no current stream while the previous one is replaced.
Streamless ==
    /\ play.pc = "replacing" \/ play.replaced => ctl.stream = None
    /\ play.pc \in {"nreplacing", "nbrowser", "connecting"} => play.replaced
    /\ play.replaced =>
         play.pc \in {"nreplacing", "nbrowser", "connecting", "aborting"}

\* A session connects when nobody sends any more.
NativeAlone ==
    /\ play.pc = "nbrowser" /\ Current(ctl, play) => \A s \in Streams : ~Sends(s)
    /\ play.pc = "connecting" => \A s \in Streams : Sends(s) => s = play.new

\* A Stop that comes while a session connects gives that session a close task.
Connects ==
    play.pc = "connecting" =>
        StillPending(ctl, play) \/ play.new \in retiring \cup torn \cup {None}

SenderInv ==
    Silent /\ OwnedSenders /\ Alone /\ Awaited /\ Streamless /\ NativeAlone /\ Connects

\* What holds of the Controller c and the call p a handler is about to leave.
CallOK(c, p) ==
    /\ p.gen <= c.generation
    /\ p.replaced => c.stream = None

\* The senders are accounted for when the handler leaves c.
Owned(c) ==
    \A s \in Streams : Sends(s) =>
        /\ c.stream \in {s, None}
        /\ s = c.stream \/ s \in retiring' \ torn

\* The same when the session of the call may be among them.
OwnedOrNew(c, p) ==
    \A s \in Streams : Sends(s) =>
        /\ c.stream \in {s, None}
        /\ \/ s = c.stream
           \/ s \in retiring' \ torn
           \/ s = p.new /\ c.stream = None /\ p.cancelled

LEMMA EndedEffect ==
    ASSUME NEW c \in Ctl, NEW p \in Play
    PROVE  /\ Ended(c, p).generation = c.generation
           /\ \/ Ended(c, p).stream = c.stream
              \/ p.replaced /\ Ended(c, p).stream = None
<1> DEFINE d == IF p.new # None /\ c.pending = p.new
                THEN [c EXCEPT !.pending = None, !.pendingTargets = {}] ELSE c
           f == IF p.replaced THEN [Cleared(d) EXCEPT !.stream = None] ELSE d
           e == IF p.source \notin Videos THEN d
                ELSE [f EXCEPT !.error = IF p.why = "none" THEN @ ELSE p.why]
<1>1. d \in Ctl /\ d.generation = c.generation /\ d.stream = c.stream
  BY DEF Ctl
<1>2. /\ f \in Ctl /\ f.generation = c.generation
      /\ f.stream = c.stream \/ (p.replaced /\ f.stream = None)
  <2> HIDE DEF d
  <2>1. Cleared(d) \in Ctl
    BY <1>1, ClearedType
  <2>2. Cleared(d).generation = d.generation
    BY <1>1 DEF Cleared, Ctl
  <2>3. /\ [Cleared(d) EXCEPT !.stream = None] \in Ctl
        /\ [Cleared(d) EXCEPT !.stream = None].generation = d.generation
        /\ [Cleared(d) EXCEPT !.stream = None].stream = None
    BY <2>1, <2>2 DEF Ctl
  <2> QED BY <1>1, <2>3
<1>3. /\ e \in Ctl /\ e.generation = c.generation
      /\ e.stream = c.stream \/ (p.replaced /\ e.stream = None)
  <2> HIDE DEF d, f
  <2> QED BY <1>1, <1>2 DEF Ctl, Play
<1>4. Ended(c, p) = IF Current(c, p) THEN [e EXCEPT !.phase = Resting(e)] ELSE d
  BY DEF Ended
<1>5. /\ [e EXCEPT !.phase = Resting(e)].generation = e.generation
      /\ [e EXCEPT !.phase = Resting(e)].stream = e.stream
  <2> HIDE DEF e
  <2> QED BY <1>3 DEF Ctl
<1> HIDE DEF d, e
<1> QED BY <1>1, <1>3, <1>4, <1>5

\* An except clause gives nobody a TV and leaves no sender without an owner.
LEMMA FailedKeeps ==
    ASSUME TypeOK, SenderInv, NEW c \in Ctl, NEW p \in Play, Failed(c, p),
           CallOK(c, p), OwnedOrNew(c, p), torn' = torn
    PROVE  SenderInv'
<1>1. \A s \in Streams : /\ engine'[s].sessions = engine[s].sessions
                         /\ engine'[s].proc = engine[s].proc
                         /\ engine[s].stopping => engine'[s].stopping
  BY DEF Failed, TypeOK, Engine, Play
<1>2. \/ /\ play' = NoPlay
         /\ ctl' = Ended(c, p)
         /\ p.new # None /\ p.new # c.stream => ~Running(p.new)
      \/ play' = [p EXCEPT !.pc = "aborting"] /\ ctl' = c
  BY DEF Failed
<1>3. torn \subseteq Streams
  BY DEF TypeOK
<1>4. Silent'
  BY <1>1, <1>3 DEF SenderInv, Silent, Sends
<1>5. CASE /\ play' = NoPlay
           /\ ctl' = Ended(c, p)
           /\ p.new # None /\ p.new # c.stream => ~Running(p.new)
  <2>1. /\ ctl'.generation = c.generation
        /\ ctl'.stream = c.stream
    BY <1>5, EndedEffect DEF CallOK
  <2>2. play'.pc = "idle" /\ play'.gen = 0 /\ play'.replaced = FALSE
    BY <1>5 DEF NoPlay
  <2>3. \A s \in Streams : Sends(s) => s # p.new \/ p.new = c.stream
    BY <1>5, Values DEF SenderInv, Silent, Running
  <2>4. OwnedSenders' /\ Alone'
    BY <1>1, <2>1, <2>3, Values DEF SenderInv, OwnedSenders, Alone, OwnedOrNew, Sends
  <2>5. c.generation \in Nat
    BY DEF Ctl
  <2> QED BY <1>4, <2>1, <2>2, <2>4, <2>5
          DEF SenderInv, Awaited, Streamless, NativeAlone, Connects
<1>6. CASE play' = [p EXCEPT !.pc = "aborting"] /\ ctl' = c
  <2>1. /\ play'.pc = "aborting" /\ play'.new = p.new /\ play'.gen = p.gen
        /\ play'.replaced = p.replaced /\ play'.cancelled = p.cancelled
    BY <1>6 DEF Play
  <2>2. OwnedSenders' /\ Alone'
    BY <1>1, <1>6, <2>1 DEF SenderInv, OwnedSenders, Alone, OwnedOrNew, Sends
  <2> QED BY <1>4, <1>6, <2>1, <2>2
          DEF SenderInv, Awaited, Streamless, NativeAlone, Connects, CallOK
<1> QED BY <1>2, <1>5, <1>6

\* The hypotheses under which the parts of a Play are entered.
PartOK(c, p) == CallOK(c, p) /\ ~p.replaced /\ Owned(c) /\ torn' = torn

LEMMA OwnedWeakens ==
    ASSUME NEW c, NEW p, Owned(c)
    PROVE  OwnedOrNew(c, p)
BY DEF Owned, OwnedOrNew

\* A TV is added to the current stream, which is alone.
LEMMA ConnectNextKeeps ==
    ASSUME TypeOK, SenderInv, NEW c \in Ctl, NEW p \in Play, ConnectNext(c, p),
           PartOK(c, p), p.active = c.stream
    PROVE  SenderInv'
<1> DEFINE need == {r \in p.todo : Needs(c, r)}
           d(r) == [c EXCEPT !.targets = @ \cup {r}, !.receivers[r] = "connecting"]
<1>1. CASE need = {} /\ ctl' = c /\ play' = NoPlay /\ UNCHANGED engine
  <2>1. play'.pc = "idle" /\ play'.gen = 0 /\ play'.replaced = FALSE
    BY <1>1 DEF NoPlay
  <2>2. c.generation \in Nat
    BY DEF Ctl
  <2> QED BY <1>1, <2>1, <2>2
          DEF SenderInv, Silent, OwnedSenders, Alone, Awaited, Streamless, NativeAlone, Connects,
              PartOK, Owned, Sends
<1>2. ASSUME NEW r \in need, NEW passed \in SUBSET (p.todo \ need),
             Accepts(p.active),
             ctl' = d(r),
             engine' = [engine EXCEPT ![p.active].sessions = Joined(p.active, r),
                                      ![p.active].leaving = @ \ {r}],
             play' = [p EXCEPT !.pc = "adding", !.cur = r,
                               !.todo = (@ \ {r}) \ passed]
      PROVE  SenderInv'
  <2>1. /\ play'.pc = "adding" /\ play'.gen = p.gen /\ play'.replaced = p.replaced
        /\ ctl'.generation = c.generation /\ ctl'.stream = c.stream
    BY <1>2 DEF Play, Ctl
  <2>2. /\ c.stream \in Streams
        /\ ~engine[c.stream].stopping
        /\ engine'[c.stream].stopping = engine[c.stream].stopping
        /\ engine'[c.stream].proc = engine[c.stream].proc
        /\ engine'[c.stream].sessions = Joined(c.stream, r)
        /\ \A s \in Streams \ {c.stream} : engine'[s] = engine[s]
    BY <1>2, JoinedEffect, TypeParts DEF PartOK, Accepts, Ctl
  <2>3. \A s \in Streams : Sends(s)' => s = c.stream
    BY <2>2, Values DEF PartOK, Owned, Sends
  <2>4. Sends(c.stream)' => engine[c.stream].proc = "alive"
    BY <2>2 DEF Joined, Sends
  <2>5. Silent'
    BY <2>2, <2>3, <2>4 DEF SenderInv, Silent, PartOK, Sends, TypeOK
  <2> QED BY <2>1, <2>3, <2>5
          DEF SenderInv, OwnedSenders, Alone, Awaited, Streamless, NativeAlone, Connects,
              PartOK, CallOK
<1>3. ASSUME NEW r \in need, Failed(d(r), p)
      PROVE  SenderInv'
  <2>1. r \in Receivers
    BY DEF Play
  <2>2. d(r) \in Ctl /\ d(r).stream = c.stream /\ d(r).generation = c.generation
    BY <2>1 DEF Ctl, Phases, ReceiverStates
  <2>3. CallOK(d(r), p) /\ OwnedOrNew(d(r), p)
    BY <2>2 DEF PartOK, CallOK, Owned, OwnedOrNew
  <2> HIDE DEF d
  <2> QED BY <1>3, <2>2, <2>3, FailedKeeps DEF PartOK
<1> QED BY <1>1, <1>2, <1>3 DEF ConnectNext

LEMMA ConnectKeeps ==
    ASSUME TypeOK, SenderInv, NEW c \in Ctl, NEW p \in Play, Connect(c, p), PartOK(c, p)
    PROVE  SenderInv'
<1> DEFINE d == [c EXCEPT !.source = p.source, !.phase = "connecting"]
           q == [p EXCEPT !.active = c.stream, !.todo = p.target]
<1>1. d \in Ctl /\ d.stream = c.stream /\ d.generation = c.generation
  BY DEF Ctl, Play, Phases
<1>2. q \in Play /\ q.active = c.stream /\ q.gen = p.gen /\ q.replaced = p.replaced
  BY DEF Ctl, Play
<1>3. ConnectNext(d, q)
  BY DEF Connect
<1>4. PartOK(d, q)
  BY <1>1, <1>2 DEF PartOK, CallOK, Owned
<1> HIDE DEF d, q
<1> QED BY <1>1, <1>2, <1>3, <1>4, ConnectNextKeeps

\* A warm stream is adopted when nobody sends.
LEMMA AdoptKeeps ==
    ASSUME TypeOK, SenderInv, NEW c \in Ctl, NEW p \in Play, Adopt(c, p),
           p.gen <= c.generation, ~p.replaced, torn' = torn,
           \A s \in Streams : ~Sends(s)
    PROVE  SenderInv'
<1> DEFINE d == [Cleared(c) EXCEPT !.stream = p.new, !.pending = None,
                                   !.pendingTargets = {}]
<1>1. d \in Ctl /\ d.generation = c.generation
  BY ClearedType DEF Ctl, Play, Cleared
<1>2. PartOK(d, p)
  BY <1>1 DEF PartOK, CallOK, Owned
<1>3. Connect(d, p)
  BY DEF Adopt
<1> HIDE DEF d
<1> QED BY <1>1, <1>2, <1>3, ConnectKeeps

\* A new process sends nothing.
LEMMA LaunchKeeps ==
    ASSUME TypeOK, SenderInv, NEW c \in Ctl, NEW p \in Play, Launch(c, p), PartOK(c, p)
    PROVE  SenderInv'
<1>1. CASE p.same
  BY <1>1, ConnectKeeps DEF Launch
<1>2. ASSUME NEW s \in Fresh,
             engine' = [engine EXCEPT ![s].src = p.source, ![s].proc = "created"],
             ctl' = [c EXCEPT !.phase = "preparing", !.pending = s,
                              !.pendingTargets = p.target],
             play' = [p EXCEPT !.pc = "spawning", !.new = s]
      PROVE  SenderInv'
  <2>1. s \in Streams /\ engine[s].proc = "unused"
    BY DEF Fresh
  <2>2. /\ play'.pc = "spawning" /\ play'.gen = p.gen /\ play'.replaced = p.replaced
        /\ ctl'.generation = c.generation /\ ctl'.stream = c.stream
    BY <1>2 DEF Play, Ctl
  <2>3. \A t \in Streams : /\ engine'[t].sessions = engine[t].sessions
                           /\ engine'[t].stopping = engine[t].stopping
                           /\ t # s => engine'[t].proc = engine[t].proc
    BY <1>2, <2>1 DEF TypeOK, Engine
  <2>4. Silent'
    BY <2>1, <2>3 DEF SenderInv, Silent, Sends, PartOK, TypeOK
  <2> QED BY <2>2, <2>3, <2>4
          DEF SenderInv, OwnedSenders, Alone, Awaited, Streamless, NativeAlone, Connects,
              PartOK, CallOK, Owned, Sends
<1> QED BY <1>1, <1>2 DEF Launch

\* A removal only makes a process send less.
LEMMA RemoveNextKeeps ==
    ASSUME TypeOK, SenderInv, NEW c \in Ctl, NEW p \in Play, RemoveNext(c, p),
           PartOK(c, p)
    PROVE  SenderInv'
<1>1. ASSUME NEW r \in p.todo, Accepts(p.active), ctl' = c,
             engine' = [engine EXCEPT ![p.active].leaving = Left(p.active, r)],
             play' = [p EXCEPT !.pc = "removing", !.cur = r, !.todo = @ \ {r}]
      PROVE  SenderInv'
  <2>1. /\ play'.pc = "removing" /\ play'.gen = p.gen /\ play'.replaced = p.replaced
    BY <1>1 DEF Play
  <2>2. \A s \in Streams : /\ engine'[s].sessions \subseteq engine[s].sessions
                           /\ engine'[s].proc = engine[s].proc
                           /\ engine'[s].stopping = engine[s].stopping
    BY <1>1, LeftEffect, TypeParts DEF Accepts, Play
  <2>3. \A s \in Streams : Sends(s)' => Sends(s)
    BY <2>2 DEF Sends
  <2> QED BY <1>1, <2>1, <2>2, <2>3
          DEF SenderInv, Silent, OwnedSenders, Alone, Awaited, Streamless, NativeAlone, Connects,
              PartOK, CallOK, Owned, TypeOK
<1>2. CASE Failed(c, p)
  BY <1>2, FailedKeeps, OwnedWeakens DEF PartOK
<1>3. CASE p.todo = {}
  <2> DEFINE d == IF p.same THEN [c EXCEPT !.targets = @ \cap p.target] ELSE c
  <2>1. d \in Ctl /\ d.stream = c.stream /\ d.generation = c.generation
    BY DEF Ctl
  <2>2. CASE p.source \in Pages
    <3>1. play' = [p EXCEPT !.pc = "browse"] /\ ctl' = d /\ UNCHANGED engine
      BY <1>3, <2>2 DEF RemoveNext
    <3>2. play'.pc = "browse" /\ play'.gen = p.gen /\ play'.replaced = p.replaced
      BY <3>1 DEF Play
    <3> HIDE DEF d
    <3> QED BY <2>1, <3>1, <3>2
            DEF SenderInv, Silent, OwnedSenders, Alone, Awaited, Streamless,
                NativeAlone, Connects, PartOK, CallOK, Owned, Sends
  <2>3. CASE p.source \notin Pages
    <3>1. Launch(d, p)
      BY <1>3, <2>3 DEF RemoveNext
    <3>2. PartOK(d, p)
      BY <2>1 DEF PartOK, CallOK, Owned
    <3> HIDE DEF d
    <3> QED BY <2>1, <3>1, <3>2, LaunchKeeps
  <2> QED BY <2>2, <2>3
<1> QED BY <1>1, <1>2, <1>3 DEF RemoveNext

LEMMA PrepareKeeps ==
    ASSUME TypeOK, SenderInv, NEW c \in Ctl, NEW p \in Play, Prepare(c, p), PartOK(c, p)
    PROVE  SenderInv'
<1>1. PICK s \in Fresh :
             /\ engine' = [engine EXCEPT ![s].src = p.source, ![s].proc = "alive"]
             /\ ctl' = [c EXCEPT !.phase = "preparing", !.pending = s,
                                 !.pendingTargets = p.target]
             /\ play' = [p EXCEPT !.pc = "preparing", !.new = s]
  BY DEF Prepare
<1>2. s \in Streams /\ engine[s].proc = "unused"
  BY DEF Fresh
<1>3. /\ play'.pc = "preparing" /\ play'.gen = p.gen /\ play'.replaced = p.replaced
      /\ ctl'.generation = c.generation /\ ctl'.stream = c.stream
  BY <1>1 DEF Play, Ctl
<1>4. \A t \in Streams : /\ engine'[t].sessions = engine[t].sessions
                         /\ engine'[t].stopping = engine[t].stopping
                         /\ t # s => engine'[t].proc = engine[t].proc
  BY <1>1, <1>2 DEF TypeOK, Engine
<1>5. Silent'
  BY <1>2, <1>4 DEF SenderInv, Silent, Sends, PartOK, TypeOK
<1> QED BY <1>3, <1>4, <1>5
        DEF SenderInv, OwnedSenders, Alone, Awaited, Streamless, NativeAlone, Connects,
            PartOK, CallOK, Owned, Sends

\* The same for a call in progress: its part of the state is in order.
LEMMA InProgress ==
    ASSUME TypeOK, SenderInv
    PROVE  /\ ctl \in Ctl /\ play \in Play
           /\ CallOK(ctl, play)
           /\ retiring' = retiring =>
                OwnedOrNew(ctl, [play EXCEPT !.cancelled = TRUE])
           /\ retiring' = retiring /\ play.pc \notin {"connecting", "aborting"}
                  => Owned(ctl)
           /\ play.pc \in {"connecting", "nbrowser", "nreplacing", "replacing"}
                  => ctl.stream = None
<1>1. ctl \in Ctl /\ play \in Play
  BY DEF TypeOK
<1>2. CallOK(ctl, play)
  BY DEF SenderInv, Awaited, Streamless, CallOK
<1>3. play.pc \in {"connecting", "nbrowser", "nreplacing", "replacing"}
          => ctl.stream = None
  BY DEF SenderInv, Streamless
<1>4. \A s \in Streams : Sends(s) => ctl.stream \in {s, None}
  BY DEF SenderInv, Alone
<1>5. [play EXCEPT !.cancelled = TRUE].new = play.new
      /\ [play EXCEPT !.cancelled = TRUE].cancelled
  BY <1>1 DEF Play
<1>6. retiring' = retiring => OwnedOrNew(ctl, [play EXCEPT !.cancelled = TRUE])
  BY <1>3, <1>4, <1>5 DEF SenderInv, OwnedSenders, OwnedOrNew, Streamless
<1>7. retiring' = retiring /\ play.pc \notin {"connecting", "aborting"} => Owned(ctl)
  BY <1>4 DEF SenderInv, OwnedSenders, Owned
<1> QED BY <1>1, <1>2, <1>3, <1>6, <1>7

\* A Play or a preview begins.
LEMMA LockKeeps ==
    ASSUME TypeOK, SenderInv, Lock
    PROVE  SenderInv'
<1>1. ASSUME NEW src \in Sources, NEW wanted \in (SUBSET Receivers) \ {{}},
             NEW add \in BOOLEAN, PlayBegin(src, wanted, add)
      PROVE  SenderInv'
  <2> DEFINE target == IF add THEN wanted \cup ctl.targets ELSE wanted
             same == SameSource(ctl, src)
             c == [ctl EXCEPT !.generation = @ + 1, !.error = "none"]
             gen == c.generation
             todo == IF same THEN ctl.targets \ target ELSE {}
             q == [NoPlay EXCEPT !.source = src, !.target = target, !.same = same,
                                 !.gen = gen, !.active = ctl.stream, !.todo = todo]
  <2>1. c \in Ctl /\ c.stream = ctl.stream
    <3>1. [ctl EXCEPT !.generation = @ + 1] \in Ctl
      BY DEF TypeOK, Ctl
    <3>2. \A d \in Ctl : /\ [d EXCEPT !.error = "none"] \in Ctl
                         /\ [d EXCEPT !.error = "none"].stream = d.stream
      BY DEF Ctl, Errors
    <3>3. [ctl EXCEPT !.generation = @ + 1].stream = ctl.stream
      BY DEF TypeOK, Ctl
    <3> QED BY <3>1, <3>2, <3>3
  <2>2. same \in BOOLEAN /\ target \in SUBSET Receivers
    <3>1. same \in BOOLEAN
      BY DEF SameSource
    <3>2. ctl.targets \in SUBSET Receivers
      BY DEF TypeOK, Ctl
    <3> QED BY <3>1, <3>2
  <2>3. gen \in Nat /\ ctl.stream \in Streams \cup {None} /\ todo \in SUBSET Receivers
    <3> HIDE DEF c
    <3> QED BY <2>1, <2>2 DEF TypeOK, Ctl
  <2>4. q \in Play /\ q.gen = gen /\ q.replaced = FALSE
    <3> HIDE DEF target, same, gen, todo
    <3>1. q \in Play BY <2>2, <2>3, NewPlayType
    <3>2. q.gen = gen /\ q.replaced = FALSE BY DEF NoPlay
    <3> QED BY <3>1, <3>2
  <2>5. Prepare(c, q) \/ RemoveNext(c, q)
    BY <1>1 DEF PlayBegin
  <2>6. play.pc = "idle" /\ UNCHANGED <<retiring, torn, failing, stops>>
    BY <1>1, Zenon DEF PlayBegin
  <2>7. gen = c.generation
    OBVIOUS
  <2> HIDE DEF c, q, gen
  <2>8. PartOK(c, q)
    BY <2>1, <2>3, <2>4, <2>6, <2>7, InProgress DEF PartOK, CallOK, Owned
  <2> QED BY <2>1, <2>4, <2>5, <2>8, PrepareKeeps, RemoveNextKeeps
<1>2. ASSUME NEW src \in Pages, PreviewBegin(src)
      PROVE  SenderInv'
  <2>1. play'.pc = "preview" /\ play'.gen = ctl.generation /\ play'.replaced = FALSE
    BY <1>2 DEF PreviewBegin, NoPlay
  <2>2. ctl.generation \in Nat
    BY DEF TypeOK, Ctl
  <2> QED BY <1>2, <2>1, <2>2
          DEF PreviewBegin, SenderInv, Silent, OwnedSenders, Alone, Awaited, Streamless,
              NativeAlone, Connects, Sends
<1> QED BY <1>1, <1>2 DEF Lock

\* The steps of a Play up to the adoption of its stream.
LEMMA WarmupKeeps ==
    ASSUME TypeOK, SenderInv,
           PlayRemoved \/ PlayBrowsed \/ PlaySpawned \/ PlayStartClosed
           \/ PlayNotWarmed \/ PlayCancelled \/ PlayAbandoned
    PROVE  SenderInv'
<1>1. UNCHANGED <<retiring, torn>>
  BY DEF PlayRemoved, PlayBrowsed, PlaySpawned, PlayStartClosed, PlayNotWarmed,
         PlayCancelled, PlayAbandoned
<1>2. CASE Failed(ctl, play) /\ play.pc \notin {"connecting", "aborting"}
  BY <1>1, <1>2, FailedKeeps, InProgress, OwnedWeakens
<1>6. CASE PlayCancelled
  <2> DEFINE q == [play EXCEPT !.cancelled = TRUE]
  <2>1. q \in Play /\ q.gen = play.gen /\ q.replaced = play.replaced
    BY DEF TypeOK, Play
  <2>2. CallOK(ctl, q) /\ OwnedOrNew(ctl, q)
    BY <1>1, <2>1, InProgress DEF CallOK
  <2>3. Failed(ctl, q)
    BY <1>6 DEF PlayCancelled
  <2> HIDE DEF q
  <2> QED BY <1>1, <2>1, <2>2, <2>3, FailedKeeps, InProgress
<1>7. CASE PlayAbandoned
  <2>1. /\ play.pc = "aborting" /\ ~play.cancelled /\ play' = NoPlay
        /\ UNCHANGED <<ctl, engine, retiring, torn>>
    BY <1>7 DEF PlayAbandoned
  <2>2. /\ play'.pc = "idle" /\ play'.gen = 0 /\ play'.replaced = FALSE
        /\ ctl.generation \in Nat
    BY <2>1 DEF NoPlay, TypeOK, Ctl
  <2> QED BY <2>1, <2>2
          DEF SenderInv, Silent, OwnedSenders, Alone, Awaited, Streamless, NativeAlone, Connects,
              Sends
<1>3. CASE PlayRemoved /\ ~Failed(ctl, play)
  <2> DEFINE c == [ctl EXCEPT !.receivers[play.cur] = "absent"]
  <2>1. c \in Ctl /\ c.stream = ctl.stream /\ c.generation = ctl.generation
    BY DEF TypeOK, Ctl, ReceiverStates
  <2>2. RemoveNext(c, play) /\ play.pc = "removing"
    BY <1>3 DEF PlayRemoved
  <2>3. PartOK(c, play)
    BY <1>1, <2>1, <2>2, InProgress
       DEF PartOK, CallOK, Owned, SenderInv, Streamless
  <2> HIDE DEF c
  <2> QED BY <2>1, <2>2, <2>3, RemoveNextKeeps, InProgress
<1>4. CASE PlayBrowsed /\ ~Failed(ctl, play)
  <2>1. Launch(ctl, play) /\ play.pc = "browse"
    BY <1>4 DEF PlayBrowsed
  <2>2. PartOK(ctl, play)
    BY <1>1, <2>1, InProgress DEF PartOK, SenderInv, Streamless
  <2> QED BY <2>1, <2>2, LaunchKeeps, InProgress
<1>5. CASE PlaySpawned /\ ~Failed(ctl, play)
  <2>1. /\ play.pc = "spawning" /\ UNCHANGED ctl
        /\ engine' = [engine EXCEPT ![play.new].proc = "alive"]
        /\ play' = [play EXCEPT !.pc = AfterSpawn(engine[play.new].stopping)]
    BY <1>5 DEF PlaySpawned
  <2>2. /\ play'.pc \in {"closing", "warming"} /\ play'.gen = play.gen
        /\ play'.replaced = play.replaced
    BY <2>1 DEF TypeOK, Play, AfterSpawn
  <2>3. \A s \in Streams : /\ engine'[s].sessions = engine[s].sessions
                           /\ engine'[s].stopping = engine[s].stopping
                           /\ engine[s].proc = "alive" => engine'[s].proc = "alive"
    BY <2>1 DEF TypeOK, Engine
  <2>4. Silent'
    BY <1>1, <2>3 DEF SenderInv, Silent, Sends, TypeOK
  <2> QED BY <1>1, <2>1, <2>2, <2>3, <2>4
          DEF SenderInv, OwnedSenders, Alone, Awaited, Streamless, NativeAlone, Connects, Sends
<1> QED BY <1>2, <1>3, <1>4, <1>5, <1>6, <1>7
        DEF PlayRemoved, PlayBrowsed, PlaySpawned, PlayStartClosed, PlayNotWarmed

\* When every stream given up is gone, nobody sends: before a new stream is adopted
\* or a session connects.
LEMMA AllGone ==
    ASSUME TypeOK, SenderInv,
           Unfinished(retiring \cup ({ctl.stream} \ {None})) = {},
           play.pc \notin {"connecting", "aborting"}
    PROVE  \A s \in Streams : ~Sends(s)
<1> SUFFICES ASSUME NEW s \in Streams, Sends(s) PROVE FALSE
  OBVIOUS
<1>1. s = ctl.stream \/ s \in retiring \ torn
  BY DEF SenderInv, OwnedSenders
<1>2. s \notin torn
  BY DEF SenderInv, Silent
<1> QED BY <1>1, <1>2, Values DEF Unfinished

\* The steps of a Play that adopt its stream and add its TVs, and its end.
LEMMA AdoptionKeeps ==
    ASSUME TypeOK, SenderInv,
           PlayWarmed \/ PlayReplaced \/ PlayAdded \/ PlayAborted
           \/ PreviewShown \/ PreviewFailed
    PROVE  SenderInv'
<1>1. UNCHANGED torn
  BY DEF PlayWarmed, PlayReplaced, PlayAdded, PlayAborted, PreviewShown, PreviewFailed
<1>2. CASE PlayWarmed
  <2> DEFINE old == {ctl.stream} \ {None}
             keys == retiring \cup old
             c == IF old = {} THEN ctl ELSE [Cleared(ctl) EXCEPT !.stream = None]
  <2>1. c \in Ctl /\ c.stream = None /\ c.generation = ctl.generation
    BY ClearedType DEF TypeOK, Ctl, Cleared
  <2>2. play.pc = "warming" /\ Current(ctl, play) /\ ~play.replaced
    BY <1>2 DEF PlayWarmed, StillPending, SenderInv, Streamless
  <2>3. CASE Unfinished(keys) = {}
    <3>1. Adopt(c, play)
      BY <1>2, <2>3 DEF PlayWarmed
    <3>2. \A s \in Streams : ~Sends(s)
      BY <2>2, <2>3, AllGone
    <3>3. play.gen <= c.generation
      BY <2>1, InProgress DEF CallOK
    <3> HIDE DEF c
    <3> QED BY <1>1, <2>1, <2>2, <3>1, <3>2, <3>3, AdoptKeeps, InProgress
  <2>4. CASE Unfinished(keys) # {}
    <3>1. /\ retiring' = keys /\ ctl' = c /\ UNCHANGED engine
          /\ play' = [play EXCEPT !.pc = "replacing", !.wait = keys]
      BY <1>2, <2>4 DEF PlayWarmed
    <3>2. /\ play'.pc = "replacing" /\ play'.wait = keys /\ play'.gen = play.gen
          /\ play'.replaced = play.replaced
      BY <3>1 DEF TypeOK, Play
    <3>3. \A s \in Streams : Sends(s) => s \in keys \ torn
      BY <2>2, Values DEF SenderInv, OwnedSenders, Silent
    <3> HIDE DEF c, keys
    <3> QED BY <1>1, <2>1, <2>2, <3>1, <3>2, <3>3
            DEF SenderInv, Silent, OwnedSenders, Alone, Awaited, Streamless,
                NativeAlone, Connects, Sends
  <2> QED BY <2>3, <2>4
<1>3. CASE PlayReplaced
  <2>1. /\ play.pc = "replacing" /\ ctl.stream = None /\ ~play.replaced
        /\ play.wait \subseteq torn /\ retiring' = retiring \ play.wait
    BY <1>3 DEF PlayReplaced, Unfinished, SenderInv, Streamless
  <2>2. CASE Current(ctl, play)
    <3>1. \A s \in Streams : ~Sends(s)
      BY <2>1, <2>2, AllGone DEF SenderInv, Awaited, Unfinished
    <3> QED BY <1>1, <1>3, <2>1, <2>2, <3>1, AdoptKeeps, InProgress
            DEF PlayReplaced, CallOK
  <2>3. CASE ~Current(ctl, play)
    <3>1. OwnedOrNew(ctl, play)
      BY <2>1 DEF SenderInv, OwnedSenders, OwnedOrNew
    <3> QED BY <1>1, <1>3, <2>3, <3>1, FailedKeeps, InProgress DEF PlayReplaced
  <2> QED BY <2>2, <2>3
<1>4. CASE PlayAdded
  <2>1. play.pc = "adding" /\ retiring' = retiring
    BY <1>4 DEF PlayAdded
  <2>2. CASE Failed(ctl, play)
    BY <1>1, <2>1, <2>2, FailedKeeps, InProgress, OwnedWeakens
  <2>3. CASE StillActive(ctl, play) /\ ConnectNext(ctl, play)
    <3>1. PartOK(ctl, play)
      BY <1>1, <2>1, InProgress DEF PartOK, SenderInv, Streamless
    <3> QED BY <2>3, <3>1, ConnectNextKeeps, InProgress DEF StillActive
  <2> QED BY <1>4, <2>2, <2>3 DEF PlayAdded
<1>5. CASE PlayAborted
  <2>1. play.pc = "aborting" /\ engine[play.new].proc = "reaped"
        /\ ctl' = Ended(ctl, play) /\ play' = NoPlay /\ UNCHANGED <<engine, retiring>>
    BY <1>5 DEF PlayAborted
  <2>2. play'.pc = "idle" /\ play'.gen = 0 /\ play'.replaced = FALSE
    BY <2>1 DEF NoPlay
  <2>3. ctl'.stream = ctl.stream /\ ctl'.generation = ctl.generation
    BY <2>1, EndedEffect, InProgress DEF CallOK
  <2>4. \A s \in Streams : Sends(s) => s # play.new
    BY <2>1 DEF SenderInv, Silent
  <2>5. ctl.generation \in Nat
    BY DEF TypeOK, Ctl
  <2> QED BY <1>1, <2>1, <2>2, <2>3, <2>4, <2>5
          DEF SenderInv, Silent, OwnedSenders, Alone, Awaited, Streamless, NativeAlone, Connects,
              Sends
<1>6. CASE PreviewShown \/ PreviewFailed
  <2>1. ctl'.stream = ctl.stream /\ ctl'.generation = ctl.generation
    <3> DEFINE c == [ctl EXCEPT !.source = IF @ \in Pages THEN play.source ELSE @]
    <3>1. c \in Ctl /\ c.stream = ctl.stream /\ c.generation = ctl.generation
      BY DEF TypeOK, Ctl, Play
    <3>2. \/ ctl' = [c EXCEPT !.error = "none",
                              !.phase = IF @ = "error" THEN "idle" ELSE @]
          \/ ctl' = c
          \/ ctl' = ctl
      BY <1>6 DEF PreviewShown, PreviewFailed
    <3> HIDE DEF c
    <3> QED BY <3>1, <3>2 DEF Ctl
  <2>2. /\ play.pc = "preview" /\ UNCHANGED <<engine, retiring>>
        /\ play' = NoPlay
    BY <1>6 DEF PreviewShown, PreviewFailed
  <2>3. play'.pc = "idle" /\ play'.gen = 0 /\ play'.replaced = FALSE
    BY <2>2 DEF NoPlay
  <2>4. ctl.generation \in Nat
    BY DEF TypeOK, Ctl
  <2> QED BY <1>1, <2>1, <2>2, <2>3, <2>4
          DEF SenderInv, Silent, OwnedSenders, Alone, Awaited, Streamless, NativeAlone, Connects,
              Sends
<1> QED BY <1>2, <1>3, <1>4, <1>5, <1>6

LEMMA RaisedKeeps ==
    ASSUME TypeOK, SenderInv, NEW c \in Ctl, Failed(c, Raised(play)),
           c.stream = ctl.stream, c.generation = ctl.generation,
           OwnedOrNew(ctl, play), torn' = torn
    PROVE  SenderInv'
<1>1. Raised(play) \in Play
  BY DEF Raised, TypeOK, Play, Errors
<1>2. /\ Raised(play).new = play.new /\ Raised(play).gen = play.gen
      /\ Raised(play).replaced = play.replaced
      /\ Raised(play).cancelled = play.cancelled
  BY DEF Raised, TypeOK, Play
<1>3. CallOK(c, Raised(play)) /\ OwnedOrNew(c, Raised(play))
  BY <1>2, InProgress DEF CallOK, OwnedOrNew
<1> QED BY <1>1, <1>3, FailedKeeps

\* The steps of a Play of direct video.
LEMMA NativePlayKeeps ==
    ASSUME TypeOK, SenderInv,
           PlayPrepared \/ PlayNotPrepared \/ PlayNativeReplaced
           \/ PlayBrowserClosed \/ PlayConnected \/ PlayNotConnected
    PROVE  SenderInv'
<1>1. UNCHANGED torn
  BY DEF PlayPrepared, PlayNotPrepared, PlayNativeReplaced, PlayBrowserClosed,
         PlayConnected, PlayNotConnected
<1>2. CASE retiring' = retiring /\ Failed(ctl, Raised(play))
  <2>1. OwnedOrNew(ctl, play)
    <3>1. CASE play.pc \notin {"connecting", "aborting"}
      BY <1>2, <3>1, InProgress, OwnedWeakens
    <3>2. CASE PlayNotConnected
      <4>1. play.pc = "connecting" /\ \A s \in Streams : ~Sends(s)
        BY <3>2 DEF PlayNotConnected, SenderInv, Silent, NativeAlone
      <4> QED BY <4>1 DEF OwnedOrNew
    <3>3. CASE PlayConnected /\ ~StillPending(ctl, play)
      <4>1. /\ play.pc = "connecting" /\ ctl.stream = None
            /\ \A s \in Streams : Sends(s) => s = play.new
        BY <3>3, InProgress DEF PlayConnected, SenderInv, NativeAlone
      <4>2. \A s \in Streams : Sends(s) => s \in retiring \ torn
        BY <3>3, <4>1, Values DEF SenderInv, Connects, Silent
      <4> QED BY <1>2, <4>1, <4>2 DEF OwnedOrNew
    <3>4. CASE PlayConnected /\ StillPending(ctl, play)
      <4>1. play' = NoPlay /\ play.pc = "connecting"
        BY <3>4 DEF PlayConnected
      <4>2. ctl'.stream = play.new
        BY <3>4 DEF PlayConnected, TypeOK, Ctl
      <4>3. ctl'.stream \in {ctl.stream, None}
        <5>1. Raised(play) \in Play
          BY DEF Raised, TypeOK, Play, Errors
        <5> QED BY <1>2, <4>1, <5>1, EndedEffect, InProgress DEF Failed
      <4>4. \A s \in Streams : ~Sends(s)
        BY <4>1, <4>2, <4>3, InProgress, Values DEF SenderInv, NativeAlone
      <4> QED BY <4>4 DEF OwnedOrNew
    <3> QED BY <3>1, <3>2, <3>3, <3>4
            DEF PlayPrepared, PlayNotPrepared, PlayNativeReplaced, PlayBrowserClosed
  <2> QED BY <1>1, <1>2, <2>1, RaisedKeeps, InProgress
<1>3. CASE PlayPrepared
  <2> DEFINE keys == retiring \cup ({ctl.stream} \ {None})
             q == [play EXCEPT !.replaced = TRUE]
  <2>1. /\ play.pc = "preparing" /\ Current(ctl, play) /\ UNCHANGED engine
        /\ ctl' = [ctl EXCEPT !.stream = None]
        /\ IF Unfinished(keys) = {}
           THEN /\ retiring' = {}
                /\ play' = [q EXCEPT !.pc = "nbrowser"]
           ELSE /\ retiring' = keys
                /\ play' = [q EXCEPT !.pc = "nreplacing", !.wait = keys]
    BY <1>3 DEF PlayPrepared, StillPending
  <2>2. ctl'.stream = None /\ ctl'.generation = ctl.generation
    BY <2>1 DEF TypeOK, Ctl
  <2>3. q \in Play /\ q.gen = play.gen /\ q.replaced
    BY DEF TypeOK, Play
  <2>4. CASE Unfinished(keys) = {}
    <3>1. \A s \in Streams : ~Sends(s)
      BY <2>1, <2>4, AllGone
    <3>2. play'.pc = "nbrowser" /\ play'.gen = play.gen /\ play'.replaced
      <4> HIDE DEF q
      <4> QED BY <2>1, <2>3, <2>4 DEF Play
    <3> QED BY <1>1, <2>1, <2>2, <3>1, <3>2
            DEF SenderInv, Silent, OwnedSenders, Alone, Awaited, Streamless,
                NativeAlone, Connects, Sends
  <2>5. CASE Unfinished(keys) # {}
    <3>1. /\ play'.pc = "nreplacing" /\ play'.gen = play.gen /\ play'.replaced
          /\ play'.wait = keys /\ retiring' = keys
      <4> HIDE DEF q, keys
      <4> QED BY <2>1, <2>3, <2>5 DEF Play
    <3>2. \A s \in Streams : Sends(s) => s \in keys \ torn
      BY <2>1, Values DEF SenderInv, OwnedSenders, Silent
    <3> HIDE DEF keys
    <3> QED BY <1>1, <2>1, <2>2, <3>1, <3>2
            DEF SenderInv, Silent, OwnedSenders, Alone, Awaited, Streamless,
                NativeAlone, Connects, Sends
  <2> QED BY <2>4, <2>5
<1>4. CASE PlayNativeReplaced
  <2>1. /\ play.pc = "nreplacing" /\ ctl.stream = None /\ play.replaced
        /\ play.wait \subseteq torn /\ retiring' = retiring \ play.wait
    BY <1>4 DEF PlayNativeReplaced, Unfinished, SenderInv, Streamless
  <2>2. CASE StillPending(ctl, play)
    <3>1. \A s \in Streams : ~Sends(s)
      BY <2>1, <2>2, AllGone DEF SenderInv, Awaited, Unfinished, StillPending
    <3>2. play' = [play EXCEPT !.pc = "nbrowser"] /\ UNCHANGED <<ctl, engine>>
      BY <1>4, <2>2 DEF PlayNativeReplaced
    <3>3. play'.pc = "nbrowser" /\ play'.gen = play.gen /\ play'.replaced
      BY <2>1, <3>2 DEF TypeOK, Play
    <3> QED BY <1>1, <2>1, <3>1, <3>2, <3>3
            DEF SenderInv, Silent, OwnedSenders, Alone, Awaited, Streamless,
                NativeAlone, Connects, Sends
  <2>3. CASE ~StillPending(ctl, play)
    <3>1. OwnedOrNew(ctl, play)
      BY <2>1 DEF SenderInv, OwnedSenders, OwnedOrNew
    <3> QED BY <1>1, <1>4, <2>3, <3>1, RaisedKeeps, InProgress DEF PlayNativeReplaced
  <2> QED BY <2>2, <2>3
<1>5. CASE PlayBrowserClosed /\ ~Failed(ctl, Raised(play))
  <2> DEFINE c == [ctl EXCEPT !.source = play.source, !.targets = play.target,
                              !.phase = "connecting",
                              !.receivers = [r \in Receivers |->
                                IF r \in play.target THEN "connecting" ELSE "absent"]]
  <2>1. /\ c \in Ctl /\ c.stream = ctl.stream /\ c.generation = ctl.generation
        /\ c.pending = ctl.pending
    BY DEF TypeOK, Ctl, Play, Phases, ReceiverStates
  <2>2. /\ play.pc = "nbrowser" /\ StillPending(ctl, play) /\ retiring' = retiring
        /\ Current(ctl, play)
        /\ ctl.stream = None /\ play.replaced
    BY <1>5 DEF PlayBrowserClosed, StillPending, SenderInv, Streamless
  <2>3. CASE Failed(c, Raised(play))
    <3> HIDE DEF c
    <3> QED BY <1>1, <2>1, <2>2, <2>3, RaisedKeeps, InProgress, OwnedWeakens
  <2>4. CASE ~Failed(c, Raised(play))
    <3>1. /\ ctl' = c
          /\ engine[play.new].proc = "alive" /\ ~engine[play.new].stopping
          /\ engine' = [engine EXCEPT ![play.new].sessions = play.target]
          /\ play' = [play EXCEPT !.pc = "connecting"]
      BY <1>5, <2>4 DEF PlayBrowserClosed
    <3>2. /\ play'.pc = "connecting" /\ play'.gen = play.gen /\ play'.new = play.new
          /\ play'.replaced = play.replaced
      BY <3>1 DEF TypeOK, Play
    <3>3. /\ \A s \in Streams : /\ engine'[s].proc = engine[s].proc
                                /\ engine'[s].stopping = engine[s].stopping
          /\ \A s \in Streams \ {play.new} : engine'[s].sessions = engine[s].sessions
      BY <3>1 DEF TypeOK, Engine
    <3>4. \A s \in Streams : Sends(s)' => s = play.new
      BY <2>2, <3>3 DEF SenderInv, NativeAlone, Connects, Sends
    <3>5. Silent'
      BY <1>1, <3>1, <3>3, <3>4 DEF SenderInv, Silent, TypeOK
    <3> HIDE DEF c
    <3> QED BY <1>1, <2>1, <2>2, <3>1, <3>2, <3>4, <3>5
            DEF SenderInv, OwnedSenders, Alone, Awaited, Streamless, NativeAlone, Connects,
                StillPending, Current
  <2> QED BY <2>3, <2>4
<1>6. CASE PlayConnected /\ ~(retiring' = retiring /\ Failed(ctl, Raised(play)))
  <2>1. /\ play.pc = "connecting" /\ play' = NoPlay /\ UNCHANGED <<engine, retiring>>
        /\ ctl' = [ctl EXCEPT !.stream = play.new, !.pending = None,
                              !.pendingTargets = {}, !.phase = "playing",
                              !.receivers = [r \in Receivers |->
                                IF r \in play.target THEN "streaming" ELSE "absent"]]
    BY <1>6 DEF PlayConnected
  <2>2. ctl'.stream = play.new /\ ctl'.generation = ctl.generation
    BY <2>1 DEF TypeOK, Ctl
  <2>3. play'.pc = "idle" /\ play'.gen = 0 /\ play'.replaced = FALSE
    BY <2>1 DEF NoPlay
  <2>4. \A s \in Streams : Sends(s) => s = play.new
    BY <2>1 DEF SenderInv, NativeAlone, Connects
  <2>5. ctl.generation \in Nat
    BY DEF TypeOK, Ctl
  <2> QED BY <1>1, <2>1, <2>2, <2>3, <2>4, <2>5
          DEF SenderInv, Silent, OwnedSenders, Alone, Awaited, Streamless, NativeAlone, Connects,
              Sends
<1> QED BY <1>2, <1>3, <1>4, <1>5, <1>6
        DEF PlayNotPrepared, PlayBrowserClosed, PlayConnected, PlayNotConnected

\* A step of another task, which makes nobody send and gives no stream back.
LEMMA OthersKeep ==
    ASSUME TypeOK, SenderInv, TypeOK', UNCHANGED play,
           \A s \in Streams : Sends(s)' => Sends(s),
           Silent', OwnedSenders', torn \subseteq torn', retiring \ torn \subseteq retiring',
           \/ ctl'.generation = ctl.generation /\ ctl'.pending = ctl.pending
           \/ ctl.pending \in retiring' \cup torn' \cup {None},
           ctl'.stream \in {ctl.stream, None},
           \/ ctl'.generation = ctl.generation /\ retiring' \subseteq retiring
           \/ ctl'.generation = ctl.generation + 1
    PROVE  SenderInv'
<1>1. ctl.generation \in Nat /\ play.gen \in Nat
  BY DEF TypeOK, Ctl, Play
<1>2. Alone'
  BY DEF SenderInv, Alone
<1>3. Awaited'
  BY <1>1 DEF SenderInv, Awaited, Current
<1>4. Streamless'
  BY DEF SenderInv, Streamless
<1>5. NativeAlone'
  BY <1>1 DEF SenderInv, NativeAlone, Connects, Awaited, Current
<1>6. Connects'
  <2> SUFFICES ASSUME play.pc = "connecting", ~StillPending(ctl, play)'
               PROVE  play.new \in retiring' \cup torn' \cup {None}
    BY DEF Connects, StillPending, Current
  <2> QED BY DEF SenderInv, Connects, StillPending, Current
<1> QED BY <1>2, <1>3, <1>4, <1>5, <1>6 DEF SenderInv

\* Nobody starts to send, and whoever sends stays owned, while a Stop returns from or
\* suspends in finish_teardown.
LEMMA StopKeeps ==
    ASSUME TypeOK, SenderInv, TypeOK', NEW k \in Stoppers,
           StopCalls(k) \/ StopSteps(k) \/ StopCancelled(k)
    PROVE  SenderInv'
<1>1. ASSUME NEW r \in Receivers \cup {All}, StopOne(k, r)
      PROVE  SenderInv'
  <2>1. /\ ctl' = Superseding(ctl) /\ UNCHANGED <<torn, play>>
        /\ retiring' = retiring \cup ({ctl.pending} \ {None})
    BY <1>1 DEF StopOne
  <2>2. ctl'.stream = ctl.stream /\ ctl'.generation = ctl.generation + 1
    BY <2>1, SupersedingType
  <2>3. \A s \in Streams : /\ engine'[s].sessions \subseteq engine[s].sessions
                           /\ engine'[s].proc = engine[s].proc
                           /\ engine'[s].stopping = engine[s].stopping
    BY SMTT(20), <1>1 DEF StopOne, TypeOK, Engine, Left, Accepts, Ctl
  <2>4. \A s \in Streams : Sends(s)' => Sends(s)
    BY <2>3 DEF Sends
  <2>5. Silent'
    BY <2>1, <2>3, <2>4 DEF SenderInv, Silent, TypeOK
  <2>6. OwnedSenders'
    BY <2>1, <2>2, <2>4 DEF SenderInv, OwnedSenders
  <2> QED BY <2>1, <2>2, <2>4, <2>5, <2>6, OthersKeep
<1>2. ASSUME NEW r \in Receivers \cup {All}, StopWhole(k, r)
      PROVE  SenderInv'
  <2> DEFINE whole == r = All \/ r \in ctl.targets
             c == Superseding(ctl)
             keys == retiring \cup (({ctl.pending} \cup
                                     (IF whole THEN {ctl.stream} ELSE {})) \ {None})
  <2>1. /\ UNCHANGED <<engine, torn, play>>
        /\ ctl' = IF whole THEN [Cleared(c) EXCEPT !.stream = None, !.phase = "idle"]
                  ELSE [c EXCEPT !.phase = Resting(c)]
    BY <1>2 DEF StopWhole
  <2>2. keys \ torn = {} \/ retiring' = keys
    BY <1>2 DEF StopWhole, StopAwaits, Unfinished
  <2>3. /\ ctl'.generation = ctl.generation + 1
        /\ ctl'.stream = IF whole THEN None ELSE ctl.stream
    <3>1. /\ c \in Ctl /\ c.generation = ctl.generation + 1
          /\ c.stream = ctl.stream
      BY SupersedingType
    <3> HIDE DEF c, whole
    <3>2. Cleared(c) \in Ctl /\ Cleared(c).generation = c.generation
      BY <3>1, ClearedType DEF Cleared, Ctl
    <3> QED BY <2>1, <3>1, <3>2 DEF Ctl
  <2>4. OwnedSenders'
    <3> SUFFICES ASSUME NEW s \in Streams, Sends(s),
                        ~(s = play.new /\ \/ play.pc = "connecting"
                                          \/ play.pc = "aborting" /\ play.cancelled)
                 PROVE  s = ctl'.stream \/ s \in retiring' \ torn
      BY <2>1 DEF OwnedSenders, Sends
    <3>1. s \notin torn
      BY DEF SenderInv, Silent
    <3>2. s = ctl.stream \/ s \in retiring
      BY DEF SenderInv, OwnedSenders
    <3> QED BY <2>2, <2>3, <3>1, <3>2, Values
  <2>5. Silent'
    BY <2>1 DEF SenderInv, Silent, Sends
  <2>6. /\ retiring \ torn \subseteq retiring'
        /\ ctl.pending \in retiring' \cup torn' \cup {None}
    BY <2>1, <2>2
  <2> QED BY <2>1, <2>3, <2>4, <2>5, <2>6, OthersKeep DEF Sends
<1>3. CASE StopRemoved(k) \/ StopTornDown(k) \/ StopCancelled(k)
  <2>1. UNCHANGED <<engine, torn, play>>
    BY <1>3 DEF StopRemoved, StopTornDown, StopCancelled
  <2>2. /\ ctl'.stream = ctl.stream /\ ctl'.generation = ctl.generation
        /\ ctl'.pending = ctl.pending
    BY <1>3 DEF StopRemoved, StopTornDown, StopCancelled, TypeOK, Ctl
  <2>3. retiring' \subseteq retiring /\ retiring \ torn \subseteq retiring'
    BY <1>3 DEF StopRemoved, StopTornDown, StopCancelled, StopAwaits, Unfinished
  <2>4. OwnedSenders'
    BY <2>1, <2>2, <2>3 DEF SenderInv, OwnedSenders, Sends
  <2>5. Silent'
    BY <2>1 DEF SenderInv, Silent, Sends
  <2> QED BY <2>1, <2>2, <2>3, <2>4, <2>5, OthersKeep DEF Sends
<1> QED BY <1>1, <1>2, <1>3 DEF StopCalls, StopSteps

\* The close tasks, stop_failed and watch_native clear a stream that is silent.
LEMMA TasksKeep ==
    ASSUME TypeOK, SenderInv, TypeOK', NEW s \in Streams, Tasks(s)
    PROVE  SenderInv'
<1>1. CASE CloseBegin(s) \/ CloseEnd(s)
  <2>1. /\ UNCHANGED <<ctl, retiring, play>>
        /\ torn' = torn \/ (torn' = torn \cup {s} /\ Gone(s))
    BY <1>1 DEF CloseBegin, CloseEnd
  <2>2. \A t \in Streams : /\ engine'[t].sessions = engine[t].sessions
                           /\ engine'[t].proc = engine[t].proc
                           /\ engine[t].stopping => engine'[t].stopping
    BY <1>1 DEF CloseBegin, CloseEnd, TypeOK, Engine
  <2>3. engine'[s].stopping
    BY <1>1 DEF CloseBegin, CloseEnd, TypeOK, Engine
  <2>4. Gone(s) => ~Sends(s)
    BY DEF SenderInv, Silent, Gone
  <2>5. Silent'
    BY <2>1, <2>2, <2>3, <2>4 DEF SenderInv, Silent, Sends, TypeOK
  <2>6. OwnedSenders'
    BY <2>1, <2>2, <2>4 DEF SenderInv, OwnedSenders, Sends
  <2> QED BY <2>1, <2>2, <2>5, <2>6, OthersKeep DEF Sends
<1>2. CASE StopFailedBegin(s)
  <2>1. /\ UNCHANGED <<retiring, torn, play>>
        /\ ctl'.stream = ctl.stream /\ ctl'.generation = ctl.generation
        /\ ctl'.pending = ctl.pending
    BY <1>2 DEF StopFailedBegin, TypeOK, Ctl
  <2>2. \A t \in Streams : /\ engine'[t].sessions = engine[t].sessions
                           /\ engine'[t].proc = engine[t].proc
                           /\ engine[t].stopping => engine'[t].stopping
    BY <1>2 DEF StopFailedBegin, TypeOK, Engine
  <2>3. Silent' /\ OwnedSenders'
    BY <2>1, <2>2 DEF SenderInv, Silent, OwnedSenders, Sends, TypeOK
  <2> QED BY <2>1, <2>2, <2>3, OthersKeep DEF Sends
<1>3. CASE StopFailedEnd(s) \/ WatchNative(s)
  <2>1. /\ UNCHANGED <<engine, retiring, torn, play>> /\ engine[s].proc = "reaped"
        /\ ctl'.stream = ctl.stream \/ (ctl.stream = s /\ ctl'.stream = None)
        /\ ctl'.generation = ctl.generation /\ ctl'.pending = ctl.pending
    <3>1. Cleared(ctl) \in Ctl /\ Cleared(ctl).generation = ctl.generation
          /\ Cleared(ctl).pending = ctl.pending
      BY ClearedType DEF TypeOK, Cleared, Ctl
    <3>2. \A x \in Ctl : \A error, phase :
             LET d == [x EXCEPT !.stream = None, !.error = error, !.phase = phase]
             IN d.stream = None /\ d.generation = x.generation /\ d.pending = x.pending
      BY DEF Ctl
    <3>3. \A error \in {"none", "native"} :
            LET d == [Cleared(ctl) EXCEPT !.stream = None, !.error = error,
                        !.phase = IF error = "none" THEN "idle" ELSE "error"]
            IN /\ d.stream = None /\ d.generation = ctl.generation
               /\ d.pending = ctl.pending
      BY <3>1, <3>2
    <3>4. CASE StopFailedEnd(s)
      BY <3>4 DEF StopFailedEnd, TypeOK, Ctl
    <3>5. CASE WatchNative(s)
      BY <3>3, <3>5 DEF WatchNative
    <3> QED BY <1>3, <3>4, <3>5
  <2>2. ~Sends(s)
    BY <2>1 DEF SenderInv, Silent
  <2>3. Silent' /\ OwnedSenders'
    BY <2>1, <2>2 DEF SenderInv, Silent, OwnedSenders, Sends
  <2> QED BY <2>1, <2>3, OthersKeep DEF Sends
<1> QED BY <1>1, <1>2, <1>3 DEF Tasks

\* A process only stops sending, and its end clears a stream that is silent.
LEMMA MediaKeep ==
    ASSUME TypeOK, SenderInv, TypeOK', NEW s \in Streams, Media(s)
    PROVE  SenderInv'
<1>1. UNCHANGED <<retiring, torn, play>>
  BY DEF Media, Ready, SourceError, ReceiverEvent, Exit, Reap, NativeEnd, Removes
<1>2. CASE Ready(s) \/ SourceError(s)
           \/ \E r \in Receivers, state \in ReceiverEvents : ReceiverEvent(s, r, state)
  <2>1. \A t \in Streams : /\ engine'[t].sessions = engine[t].sessions
                           /\ engine'[t].proc = engine[t].proc
                           /\ engine'[t].stopping = engine[t].stopping
    <3>1. CASE Ready(s)
      BY <3>1 DEF Ready, TypeOK, Engine
    <3>2. CASE SourceError(s)
      BY <3>2 DEF SourceError, TypeOK, Engine
    <3> QED BY <1>2, <3>1, <3>2 DEF ReceiverEvent
  <2>2. /\ ctl'.stream = ctl.stream /\ ctl'.generation = ctl.generation
        /\ ctl'.pending = ctl.pending
    BY <1>2 DEF Ready, SourceError, ReceiverEvent, TypeOK, Ctl
  <2>3. Silent' /\ OwnedSenders'
    BY <1>1, <2>1, <2>2 DEF SenderInv, Silent, OwnedSenders, Sends, TypeOK
  <2> QED BY <1>1, <2>1, <2>2, <2>3, OthersKeep DEF Sends
<1>3. CASE Exit(s) \/ Reap(s) \/ NativeEnd(s)
  <2>1. /\ engine'[s].sessions = {}
        /\ engine[s].stopping => engine'[s].stopping
        /\ \A t \in Streams \ {s} : engine'[t] = engine[t]
    BY <1>3 DEF Exit, Reap, NativeEnd, TypeOK, Engine
  <2>2. /\ ctl'.stream = ctl.stream \/ (ctl.stream = s /\ ctl'.stream = None)
        /\ ctl'.generation = ctl.generation /\ ctl'.pending = ctl.pending
    <3>1. Cleared(ctl) \in Ctl /\ Cleared(ctl).generation = ctl.generation
          /\ Cleared(ctl).pending = ctl.pending
      BY ClearedType DEF TypeOK, Cleared, Ctl
    <3>2. \A complete \in BOOLEAN :
            LET d == [Cleared(ctl) EXCEPT !.stream = None,
                        !.phase = IF complete THEN "idle" ELSE "error",
                        !.error = IF complete THEN "none"
                                  ELSE IF @ = "none" THEN "source" ELSE @]
            IN /\ d.stream = None /\ d.generation = ctl.generation
               /\ d.pending = ctl.pending
      BY <3>1 DEF Ctl
    <3>3. CASE Reap(s)
      BY <3>2, <3>3 DEF Reap
    <3> QED BY <1>3, <3>3 DEF Exit, NativeEnd
  <2>3. \A t \in Streams : Sends(t)' => Sends(t) /\ t # s
    BY <2>1 DEF Sends
  <2>4. Silent' /\ OwnedSenders'
    BY <1>1, <2>1, <2>2, <2>3 DEF SenderInv, Silent, OwnedSenders, TypeOK, Sends
  <2> QED BY <1>1, <2>2, <2>3, <2>4, OthersKeep
<1>4. CASE \E r \in Receivers : Removes(s, r)
  <2>1. PICK r \in Receivers : Removes(s, r)
    BY <1>4
  <2>2. \A t \in Streams : /\ engine'[t].sessions \subseteq engine[t].sessions
                           /\ engine'[t].proc = engine[t].proc
                           /\ engine'[t].stopping = engine[t].stopping
    BY <2>1 DEF Removes, TypeOK, Engine
  <2>3. \A t \in Streams : Sends(t)' => Sends(t)
    BY <2>2 DEF Sends
  <2>4. ctl' = ctl
    BY <2>1 DEF Removes
  <2>5. Silent' /\ OwnedSenders'
    BY <1>1, <2>2, <2>3, <2>4 DEF SenderInv, Silent, OwnedSenders, TypeOK
  <2> QED BY <1>1, <2>3, <2>4, <2>5, OthersKeep
<1> QED BY <1>2, <1>3, <1>4 DEF Media

-----------------------------------------------------------------------------
\* The invariant behind the lease holds in every reachable state.
THEOREM SenderCorrect == Spec => [](TypeOK /\ SenderInv)
<1>1. Init => SenderInv
  BY DEF Init, NoPlay, SenderInv, Silent, OwnedSenders, Alone, Awaited, Streamless,
         NativeAlone, Connects, Sends
<1>2. TypeOK /\ TypeOK' /\ SenderInv /\ [Next]_vars => SenderInv'
  <2> SUFFICES ASSUME TypeOK, TypeOK', SenderInv, [Next]_vars PROVE SenderInv'
    OBVIOUS
  <2>1. CASE Lock
    BY <2>1, LockKeeps
  <2>2. CASE PlaySteps \/ PlayCancelled \/ PlayAbandoned
    BY <2>2, WarmupKeeps, AdoptionKeeps, NativePlayKeeps DEF PlaySteps
  <2>3. ASSUME NEW k \in Stoppers, StopCalls(k) \/ StopSteps(k) \/ StopCancelled(k)
        PROVE  SenderInv'
    BY <2>3, StopKeeps
  <2>4. ASSUME NEW s \in Streams, Tasks(s) \/ Media(s)
        PROVE  SenderInv'
    BY <2>4, TasksKeep, MediaKeep
  <2>5. CASE UNCHANGED vars
    BY <2>5 DEF vars, SenderInv, Silent, OwnedSenders, Alone, Awaited, Streamless,
               NativeAlone, Connects, Sends, Current
  <2> QED BY <2>1, <2>2, <2>3, <2>4, <2>5 DEF Next
<1> QED BY <1>1, <1>2, TypeCorrect, PTL DEF Spec

\* Whatever Stops, events, failures and cancellations come while a source is
\* replaced, no TV is ever sent media by two processes.
THEOREM Exclusive == Spec => []ExclusiveReceivers
<1>1. SenderInv => ExclusiveReceivers
  <2> SUFFICES ASSUME SenderInv, NEW s \in Streams, NEW t \in Streams, s # t
               PROVE  engine[s].sessions \cap engine[t].sessions = {}
    BY DEF ExclusiveReceivers
  <2>1. engine[s].sessions = {} \/ engine[t].sessions = {}
    BY DEF SenderInv, Alone, Sends
  <2> QED BY <2>1
<1> QED BY <1>1, SenderCorrect, PTL

=============================================================================
