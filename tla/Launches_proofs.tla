--------------------------- MODULE Launches_proofs ---------------------------
(***************************************************************************)
(* Proofs about Launches, for every set of TVs, callers, workers and       *)
(* launches, any number of games and Stops, and every choice of faults.    *)
(***************************************************************************)
EXTENDS LaunchHistory, WellFoundedInduction, TLAPS

Ctl == [gen : Generations, src : 0..Other, tvs : SUBSET TVs]

-----------------------------------------------------------------------------
(* The operators an action is built from keep the types.                   *)

\* The constants of the record types have the types they are constants of.
LEMMA Constants ==
  ASSUME LaunchesAssumption
  PROVE  /\ NoWorker \in Worker /\ NoManual \in Manual /\ NoCall \in Call
         /\ Blank \in Saved /\ Quiet \in Ctl /\ NoEdges \in [Generations -> Generations]
         /\ 0 \in Generations /\ Other \in 0..Other /\ 0 \in 0..Other
         /\ Games \subseteq 0..Other /\ 0..MaxGame \subseteq 0..Other
  <1>1. /\ 0 \in Generations /\ 0 \in 0..MaxGame /\ Other \in 0..Other /\ 0 \in 0..Other
        /\ Games \subseteq 0..Other /\ 0..MaxGame \subseteq 0..Other
    BY DEF LaunchesAssumption, Generations, Other, Games
  <1>2. NoWorker \in Worker BY <1>1 DEF NoWorker, Worker
  <1>3. NoManual \in Manual BY <1>1 DEF NoManual, Manual
  <1>4. NoCall \in Call BY DEF NoCall, Call
  <1>5. Blank \in Saved BY <1>1 DEF Blank, Saved
  <1>6. Quiet \in Ctl BY <1>1 DEF Quiet, Ctl
  <1>7. NoEdges \in [Generations -> Generations] BY DEF NoEdges
  <1> QED BY <1>1, <1>2, <1>3, <1>4, <1>5, <1>6, <1>7

\* What is written is a record again.
LEMMA Records ==
  ASSUME TypeOK
  PROVE  /\ \A status \in {"checking", "started", "ended"} : With(status) \in Saved
         /\ Load(disk) \in Saved
         /\ \A g \in 0..MaxGame : [saved EXCEPT !.attempted = g] \in Saved
         /\ \A g \in 0..MaxGame : [With("started") EXCEPT !.attempted = g] \in Saved
         /\ \A T \in SUBSET TVs : [With("checking") EXCEPT !.tvs = T] \in Saved
         /\ \A T \in SUBSET TVs :
              [saved EXCEPT !.status = "checking", !.until = "open", !.tvs = T] \in Saved
  BY DEF TypeOK, Saved, With, Load

\* The end of a task keeps its record.
LEMMA Endings ==
  ASSUME LaunchesAssumption, TypeOK
  PROVE  /\ \A w \in Workers : \A end \in {"cancel", "error"} : Unwinding(w, end) \in Worker
         /\ \A s \in Slots : \A end \in {"cancel", "error"} : ManualUnwinding(s, end) \in Manual
         /\ Forgotten \in [Workers -> Worker]
  <1>1. ASSUME NEW w \in Workers, NEW end \in {"cancel", "error"}
        PROVE  Unwinding(w, end) \in Worker
    <2>1. worker[w] \in Worker BY DEF TypeOK
    <2>2. NoWorker \in Worker BY Constants
    <2> QED BY <2>1, <2>2 DEF Unwinding, Worker
  <1>2. ASSUME NEW s \in Slots, NEW end \in {"cancel", "error"}
        PROVE  ManualUnwinding(s, end) \in Manual
    <2>1. manual[s] \in Manual BY DEF TypeOK
    <2>2. 0 \in Generations /\ 0 \in 0..MaxGame
      BY DEF LaunchesAssumption, Generations
    <2> QED BY <2>1, <2>2 DEF ManualUnwinding, Manual
  <1>3. Forgotten \in [Workers -> Worker]
    <2>1. \A w \in Workers : worker[w] \in Worker BY DEF TypeOK
    <2>2. \A x \in Worker : [x EXCEPT !.live = FALSE] \in Worker BY DEF Worker
    <2>3. \A w \in Workers : Unwinding(w, "cancel") \in Worker BY <1>1
    <2> QED BY <2>1, <2>2, <2>3 DEF Forgotten
  <1> QED BY <1>1, <1>2, <1>3

\* A new worker is a worker.
LEMMA Creation ==
  ASSUME LaunchesAssumption, TypeOK, NewWorker
  PROVE  /\ task' \in Workers /\ worker[task'].pc = "none"
         /\ worker' = [worker EXCEPT ![task'] = [NoWorker EXCEPT !.pc = "begin", !.live = TRUE]]
         /\ worker' \in [Workers -> Worker]
  <1> DEFINE free == {w \in Workers : worker[w].pc = "none"}
  <1>1. /\ free # {} /\ task' = CHOOSE w \in free : TRUE
        /\ worker' = [worker EXCEPT ![task'] = [NoWorker EXCEPT !.pc = "begin", !.live = TRUE]]
    BY DEF NewWorker
  <1>2. task' \in free BY <1>1
  <1>3. [NoWorker EXCEPT !.pc = "begin", !.live = TRUE] \in Worker BY Constants DEF Worker
  <1>4. worker \in [Workers -> Worker] BY DEF TypeOK
  <1>5. worker' \in [Workers -> Worker] BY <1>1, <1>2, <1>3, <1>4
  <1> QED BY <1>1, <1>2, <1>5

\* Every Play and Stop leaves the controller a controller.
LEMMA Controls ==
  ASSUME LaunchesAssumption, TypeOK
  PROVE  /\ CanStop => Stopped(ctl) \in Ctl
         /\ \A r : CanStop => UserStopped(r) \in Ctl
         /\ PlayBegins => ctl' \in Ctl /\ ctl'.gen \in Generations
         /\ \A g \in 0..MaxGame, T \in SUBSET TVs : \A gen : Adds(g, gen, T) => ctl' \in Ctl
         /\ \A g \in 0..MaxGame : \A gen : Switches(g, gen) => ctl' \in Ctl
  <1>1. ctl \in Ctl BY DEF TypeOK, Ctl
  <1>2. CanStop => ctl.gen + 1 \in Generations
    BY <1>1 DEF CanStop, LaunchesAssumption, Generations, Ctl
  <1>3. CanStop => Stopped(ctl) \in Ctl BY <1>1, <1>2, Constants DEF Stopped, Ctl
  <1>4. ASSUME NEW r, CanStop PROVE UserStopped(r) \in Ctl
    BY <1>1, <1>2, <1>3, <1>4 DEF UserStopped, Ctl
  <1>5. PlayBegins => ctl' \in Ctl /\ ctl'.gen \in Generations
    BY <1>1, <1>2 DEF PlayBegins, CanStop, Ctl
  <1>6. ASSUME NEW g \in 0..MaxGame, NEW gen, NEW T \in SUBSET TVs, Adds(g, gen, T)
        PROVE  ctl' \in Ctl
    BY <1>1, <1>6 DEF Adds, Ctl
  <1>7. ASSUME NEW g \in 0..MaxGame, NEW gen, Switches(g, gen) PROVE ctl' \in Ctl
    BY <1>1, <1>7, Constants DEF Switches, Ctl
  <1> QED BY <1>3, <1>4, <1>5, <1>6, <1>7

-----------------------------------------------------------------------------
(* Types.                                                                  *)

\* A step of a run() task.
LEMMA WorkerTypes ==
  ASSUME LaunchesAssumption, TypeOK, NEW w \in Workers, WorkerSteps(w)
  PROVE  TypeOK'
  <1> USE DEF Resumes, Unexpired, Active, Fresh
  <1>1. /\ saved \in Saved /\ disk \in Saved /\ worker \in [Workers -> Worker] /\ ctl \in Ctl
        /\ worker[w] \in Worker /\ game \in 0..MaxGame /\ saved.tvs \subseteq TVs
    BY DEF TypeOK, Ctl, Saved
  <1>2. /\ \A status \in {"checking", "started", "ended"} : With(status) \in Saved
        /\ \A g \in 0..MaxGame : [saved EXCEPT !.attempted = g] \in Saved
    BY Records
  <1>3. NoWorker \in Worker /\ 0 \in Generations BY Constants
  <1>4. \A x \in Worker : /\ \A p \in Waits : [x EXCEPT !.pc = p] \in Worker
                          /\ [x EXCEPT !.pc = "sleep", !.live = TRUE] \in Worker
                          /\ \A g \in 0..MaxGame : [x EXCEPT !.pc = "lock", !.game = g] \in Worker
                          /\ \A p \in Waits, g \in Generations :
                               /\ [x EXCEPT !.pc = p, !.gen = g] \in Worker
                               /\ [x EXCEPT !.pc = p, !.locked = TRUE, !.gen = g] \in Worker
    <2>1. \A x \in Worker, p \in Waits : [x EXCEPT !.pc = p] \in Worker
      BY DEF Worker
    <2>2. \A x \in Worker : [x EXCEPT !.pc = "sleep", !.live = TRUE] \in Worker
      BY DEF Worker
    <2>3. "lock" \in Waits BY DEF Waits
    <2>4. \A x \in Worker, g \in 0..MaxGame : [x EXCEPT !.pc = "lock", !.game = g] \in Worker
      BY <2>3 DEF Worker
    <2>5. \A x \in Worker, p \in Waits, g \in Generations : [x EXCEPT !.pc = p, !.gen = g] \in Worker
      BY DEF Worker
    <2>6. \A x \in Worker, p \in Waits, g \in Generations :
             [x EXCEPT !.pc = p, !.locked = TRUE, !.gen = g] \in Worker
      BY DEF Worker
    <2> QED BY <2>1, <2>2, <2>4, <2>5, <2>6
  <1>5. /\ Unwinding(w, "error") \in Worker
        /\ [worker EXCEPT ![w] = NoWorker] \in [Workers -> Worker]
        /\ [worker EXCEPT ![w] = [NoWorker EXCEPT !.pc = "sleep", !.live = TRUE]]
             \in [Workers -> Worker]
        /\ [worker EXCEPT ![w].pc = "lock", ![w].game = game] \in [Workers -> Worker]
        /\ \A p \in Waits : [worker EXCEPT ![w].pc = p] \in [Workers -> Worker]
    BY <1>1, <1>3, <1>4, Endings
  <1>6. ASSUME saved' \in Saved, disk' \in Saved, worker' \in [Workers -> Worker], ctl' \in Ctl,
               UNCHANGED <<full, phase, closing, task, manual, edges, calls, game>>
        PROVE  TypeOK'
    BY <1>6 DEF TypeOK, Ctl
  <1>7. CASE WorkerBegins(w)
    BY <1>1, <1>4, <1>6, <1>7 DEF WorkerBegins, Moves, Waits, record
  <1>8. CASE WorkerReturns(w)
    BY <1>1, <1>2, <1>3, <1>6, <1>8 DEF WorkerReturns, WorkerEnds, Persist, record
  <1>9. CASE WorkerFetches(w)
    <2>1. saved' \in Saved /\ disk' \in Saved
      BY <1>1, <1>2, <1>9 DEF WorkerFetches, Persist, record
    <2>2. worker' \in [Workers -> Worker]
      <3>1. \/ worker' = [worker EXCEPT ![w] = [NoWorker EXCEPT !.pc = "sleep", !.live = TRUE]]
            \/ worker' = [worker EXCEPT ![w] = NoWorker]
            \/ worker' = [worker EXCEPT ![w].pc = "lock", ![w].game = game]
        BY <1>9 DEF WorkerFetches, Sleeps, WorkerEnds
      <3> QED BY <3>1, <1>5
    <2> QED BY <2>1, <2>2, <1>1, <1>6, <1>9 DEF WorkerFetches
  <1>10. CASE WorkerDefers(w)
    <2>1. saved' \in Saved /\ disk' \in Saved
      BY <1>1, <1>2, <1>10 DEF WorkerDefers, Persist, record
    <2>2. worker' \in [Workers -> Worker]
      BY <1>1, <1>3, <1>5, <1>10 DEF WorkerDefers, Sleeps, WorkerEnds
    <2> QED BY <2>1, <2>2, <1>1, <1>6, <1>10 DEF WorkerDefers
  <1>11. CASE WorkerClaims(w)
    <2>1. worker[w].game \in 0..MaxGame BY <1>1 DEF Worker
    <2>2. saved' \in Saved /\ disk' \in Saved
      BY <1>2, <1>11, <2>1 DEF WorkerClaims, Persist
    <2>3. ctl' \in Ctl BY <1>1, <1>11, Controls DEF WorkerClaims
    <2>4. ctl'.gen \in Generations BY <2>3 DEF Ctl
    <2>5. worker' \in [Workers -> Worker]
      BY <1>1, <1>4, <1>11, <2>4 DEF WorkerClaims, Waits
    <2> QED BY <1>6, <1>11, <2>2, <2>3, <2>5 DEF WorkerClaims
  <1>12. CASE WorkerStopped(w)
    BY <1>1, <1>4, <1>6, <1>12 DEF WorkerStopped, Moves, Waits, record
  <1>13. CASE WorkerPlays(w)
    <2>1. ctl' \in Ctl /\ ctl'.gen \in Generations BY <1>13, Controls DEF WorkerPlays
    <2>2. worker' \in [Workers -> Worker] BY <1>1, <1>4, <1>13, <2>1 DEF WorkerPlays, Waits
    <2> QED BY <1>1, <1>6, <1>13, <2>1, <2>2 DEF WorkerPlays, record
  <1>14. CASE WorkerAdds(w)
    <2>1. worker[w].game \in 0..MaxGame BY <1>1 DEF Worker
    <2>2. ctl' \in Ctl BY <1>1, <1>14, <2>1, Controls DEF WorkerAdds
    <2>3. worker' \in [Workers -> Worker] BY <1>1, <1>5, <1>14 DEF WorkerAdds, Moves, Waits
    <2> QED BY <1>1, <1>6, <1>14, <2>2, <2>3 DEF WorkerAdds, record
  <1>15. CASE WorkerPlayed(w)
    BY <1>1, <1>2, <1>3, <1>6, <1>15 DEF WorkerPlayed, WorkerEnds, Persist
  <1>16. CASE WorkerFails(w)
    <2>1. saved' \in Saved /\ disk' \in Saved
      BY <1>1, <1>2, <1>16 DEF WorkerFails, WorkerHandles, Persist, PersistFails, record
    <2>2. worker' \in [Workers -> Worker]
      BY <1>1, <1>3, <1>5, <1>16 DEF WorkerFails, WorkerHandles, WorkerEnds
    <2> QED BY <2>1, <2>2, <1>1, <1>6, <1>16 DEF WorkerFails
  <1>17. CASE WorkerUnwinds(w)
    BY <1>1, <1>2, <1>3, <1>6, <1>17
       DEF WorkerUnwinds, WorkerHandles, WorkerEnds, Persist, PersistFails, record
  <1> QED
    BY <1>7, <1>8, <1>9, <1>10, <1>11, <1>12, <1>13, <1>14, <1>15, <1>16, <1>17
       DEF WorkerSteps

\* A step of an explicit launch, or its cancellation by the client.
LEMMA ManualTypes ==
  ASSUME LaunchesAssumption, TypeOK, NEW s \in Slots,
         ManualSteps(s) \/ ManualFails(s, "cancel")
  PROVE  TypeOK'
  <1> USE DEF Continues
  <1>1. /\ saved \in Saved /\ disk \in Saved /\ worker \in [Workers -> Worker] /\ ctl \in Ctl
        /\ manual \in [Slots -> Manual] /\ manual[s] \in Manual /\ game \in 0..MaxGame
        /\ calls \in [Callers -> Call] /\ edges \in [Generations -> Generations]
        /\ task \in Workers \cup {None} /\ ctl.gen \in Generations
        /\ manual[s].tvs \subseteq TVs /\ manual[s].game \in 0..MaxGame
        /\ manual[s].gen \in Generations /\ manual[s].want \subseteq TVs /\ ctl.tvs \subseteq TVs
    BY DEF TypeOK, Ctl, Manual
  <1>2. NoManual \in Manual /\ NoEdges \in [Generations -> Generations] BY Constants
  <1>3. /\ \A status \in {"checking", "started", "ended"} : With(status) \in Saved
        /\ \A g \in 0..MaxGame : [saved EXCEPT !.attempted = g] \in Saved
        /\ \A g \in 0..MaxGame : [With("started") EXCEPT !.attempted = g] \in Saved
        /\ \A T \in SUBSET TVs : [With("checking") EXCEPT !.tvs = T] \in Saved
    BY Records
  <1>4. \A c \in Callers : [calls[c] EXCEPT !.drains = @ \ {s}] \in Call
    <2>1. \A x \in Call : [x EXCEPT !.drains = @ \ {s}] \in Call BY DEF Call
    <2> QED BY <1>1, <2>1
  <1>5. Drops(s) => calls' \in [Callers -> Call] BY <1>4 DEF Drops
  <1>6. ASSUME saved' \in Saved, disk' \in Saved, worker' \in [Workers -> Worker], ctl' \in Ctl,
               task' \in Workers \cup {None}, manual' \in [Slots -> Manual],
               edges' \in [Generations -> Generations], calls' \in [Callers -> Call],
               UNCHANGED <<full, phase, closing, game>>
        PROVE  TypeOK'
    BY <1>6 DEF TypeOK, Ctl
  <1>7. CASE ManualStarts(s)
    <2>1. [manual EXCEPT ![s].pc = "command", ![s].holds = {"manual"}, ![s].base = ctl.gen,
                         ![s].gen = ctl.gen] \in [Slots -> Manual]
      <3>1. \A x \in Manual, g \in Generations :
               [x EXCEPT !.pc = "command", !.holds = {"manual"}, !.base = g, !.gen = g] \in Manual
        BY DEF Manual
      <3> QED BY <1>1, <3>1
    <2> QED BY <2>1, <1>1, <1>6, <1>7 DEF ManualStarts, record
  <1>8. CASE ManualCommands(s)
    <2>1. [manual EXCEPT ![s].pc = "halt", ![s].holds = @ \cup {"command"}, ![s].on = task]
             \in [Slots -> Manual]
      <3>1. \A x \in Manual, t \in Workers \cup {None} :
               [x EXCEPT !.pc = "halt", !.holds = @ \cup {"command"}, !.on = t] \in Manual
        BY DEF Manual
      <3> QED BY <1>1, <3>1
    <2>2. worker' \in [Workers -> Worker] /\ task' \in Workers \cup {None}
      BY <1>8, Endings DEF ManualCommands, StopWorker
    <2> QED BY <2>1, <2>2, <1>1, <1>6, <1>8 DEF ManualCommands, record
  <1>9. CASE ManualHalted(s)
    <2>1. [manual EXCEPT ![s].pc = "fetch", ![s].holds = {"manual"}, ![s].on = None]
             \in [Slots -> Manual]
      <3>1. \A x \in Manual :
               [x EXCEPT !.pc = "fetch", !.holds = {"manual"}, !.on = None] \in Manual
        BY DEF Manual, Waits
      <3> QED BY <1>1, <3>1
    <2>2. saved' \in Saved /\ disk' \in Saved BY <1>1, <1>3, <1>9 DEF ManualHalted, Persist
    <2> QED BY <2>1, <2>2, <1>1, <1>6, <1>9 DEF ManualHalted
  <1>10. CASE ManualFetches(s)
    <2>1. [manual EXCEPT ![s].pc = "lock", ![s].game = game] \in [Slots -> Manual]
      BY <1>1 DEF Manual, Waits
    <2> QED BY <2>1, <1>1, <1>6, <1>10 DEF ManualFetches, record
  <1>11. ASSUME ManualEnds(s)
         PROVE  /\ manual' \in [Slots -> Manual] /\ edges' \in [Generations -> Generations]
                /\ calls' \in [Callers -> Call]
    BY <1>1, <1>2, <1>5, <1>11 DEF ManualEnds
  <1>12. CASE ManualJoined(s)
    <2>1. saved' \in Saved /\ disk' \in Saved BY <1>1, <1>3, <1>12 DEF ManualJoined, Persist
    <2>2. ManualEnds(s) /\ UNCHANGED <<full, phase, closing, task, worker, ctl, game>>
      BY <1>12 DEF ManualJoined
    <2> QED BY <2>1, <2>2, <1>1, <1>6, <1>11
  <1>13. CASE ManualClaims(s)
    <2>1. PICK same \in BOOLEAN :
            LET idle == same \/ ctl.src = 0
            IN  /\ idle \/ CanStop
                /\ ctl' = IF idle THEN ctl ELSE Stopped(ctl)
                /\ manual' = [manual EXCEPT ![s].pc = IF idle THEN "vpn" ELSE "stop",
                                            ![s].holds = @ \cup {"control"},
                                            ![s].gen = IF idle THEN @ ELSE ctl'.gen]
      BY <1>13 DEF ManualClaims
    <2>2. ctl' \in Ctl BY <2>1, <1>1, Controls
    <2>3. ctl'.gen \in Generations BY <2>2 DEF Ctl
    <2>4. ASSUME NEW p \in {"vpn", "stop"}, NEW g \in Generations
          PROVE  [manual EXCEPT ![s].pc = p, ![s].holds = @ \cup {"control"}, ![s].gen = g]
                   \in [Slots -> Manual]
      <3>1. p \in Waits BY DEF Waits
      <3>2. manual[s].holds \cup {"control"} \in SUBSET {"manual", "command", "control"}
        BY <1>1 DEF Manual
      <3>3. [manual[s] EXCEPT !.pc = p, !.holds = manual[s].holds \cup {"control"}, !.gen = g]
              \in Manual
        BY <3>1, <3>2, <1>1 DEF Manual
      <3>4. [manual EXCEPT ![s].pc = p, ![s].holds = @ \cup {"control"}, ![s].gen = g]
              = [manual EXCEPT ![s] = [manual[s] EXCEPT !.pc = p,
                                          !.holds = manual[s].holds \cup {"control"}, !.gen = g]]
        BY <1>1 DEF Manual
      <3> QED BY <3>3, <3>4, <1>1
    <2>5. manual' \in [Slots -> Manual]
      <3>1. CASE same \/ ctl.src = 0
        <4>1. manual' = [manual EXCEPT ![s].pc = "vpn", ![s].holds = @ \cup {"control"},
                                       ![s].gen = manual[s].gen]
          BY <2>1, <3>1, <1>1
        <4> QED BY <4>1, <2>4, <1>1
      <3>2. CASE ~ (same \/ ctl.src = 0)
        <4>1. manual' = [manual EXCEPT ![s].pc = "stop", ![s].holds = @ \cup {"control"},
                                       ![s].gen = ctl'.gen]
          BY <2>1, <3>2
        <4> QED BY <4>1, <2>3, <2>4
      <3> QED BY <3>1, <3>2
    <2>6. saved' \in Saved /\ disk' \in Saved BY <1>1, <1>3, <1>13 DEF ManualClaims, Persist
    <2> QED BY <2>2, <2>5, <2>6, <1>1, <1>6, <1>13 DEF ManualClaims
  <1>14. CASE ManualStopped(s)
    <2>1. [manual EXCEPT ![s].pc = "vpn"] \in [Slots -> Manual] BY <1>1 DEF Manual, Waits
    <2> QED BY <2>1, <1>1, <1>6, <1>14 DEF ManualStopped, record
  <1>15. CASE ManualPlays(s)
    <2>1. ctl' \in Ctl /\ ctl'.gen \in Generations BY <1>15, Controls DEF ManualPlays
    <2>2. ASSUME NEW p \in {"play", "adding"}
          PROVE  [manual EXCEPT ![s].pc = p, ![s].gen = ctl'.gen,
                                ![s].want = manual[s].tvs \cup ctl.tvs] \in [Slots -> Manual]
      <3>1. p \in Waits /\ manual[s].tvs \cup ctl.tvs \in SUBSET TVs BY <1>1 DEF Waits
      <3>2. \A x \in Manual, g \in Generations, T \in SUBSET TVs :
               [x EXCEPT !.pc = p, !.gen = g, !.want = T] \in Manual
        BY <3>1 DEF Manual
      <3> QED BY <3>1, <3>2, <1>1, <2>1
    <2>3. manual' \in [Slots -> Manual] BY <2>2, <1>15 DEF ManualPlays
    <2> QED BY <2>1, <2>3, <1>1, <1>6, <1>15 DEF ManualPlays, record
  <1>16. CASE ManualAdds(s)
    <2>1. ctl' \in Ctl BY <1>1, <1>16, Controls DEF ManualAdds
    <2>2. [manual EXCEPT ![s].pc = "adding"] \in [Slots -> Manual] BY <1>1 DEF Manual, Waits
    <2>3. manual' \in [Slots -> Manual] BY <2>2, <1>1, <1>16 DEF ManualAdds
    <2> QED BY <2>1, <2>3, <1>1, <1>6, <1>16 DEF ManualAdds, record
  <1>17. CASE ManualPlayed(s)
    <2>1. saved' \in Saved /\ disk' \in Saved BY <1>1, <1>3, <1>17 DEF ManualPlayed, Persist
    <2>2. manual' \in [Slots -> Manual] BY <1>1, <1>2, <1>17 DEF ManualPlayed
    <2>3. edges' \in [Generations -> Generations] BY <1>1, <1>2, <1>17 DEF ManualPlayed
    <2>4. calls' \in [Callers -> Call] BY <1>5, <1>17 DEF ManualPlayed
    <2> QED BY <2>1, <2>2, <2>3, <2>4, <1>1, <1>6, <1>17 DEF ManualPlayed
  <1>18. ASSUME NEW end \in {"cancel", "error"}, ManualHandles(s, end)
         PROVE  saved' \in Saved /\ disk' \in Saved /\ ManualEnds(s)
    BY <1>1, <1>3, <1>18 DEF ManualHandles, Persist, PersistFails, record
  <1>19. ASSUME NEW end \in {"cancel", "error"}, ManualFails(s, end) PROVE TypeOK'
    <2>1. UNCHANGED <<full, phase, closing, task, worker, ctl, game>> BY <1>19 DEF ManualFails
    <2>2. CASE ManualHandles(s, end) BY <2>1, <2>2, <1>1, <1>6, <1>11, <1>18
    <2>3. CASE /\ manual' = [manual EXCEPT ![s] = ManualUnwinding(s, end)]
               /\ UNCHANGED <<saved, disk, edges, calls>>
      <3>1. ManualUnwinding(s, end) \in Manual BY Endings
      <3>2. manual' \in [Slots -> Manual] BY <2>3, <3>1, <1>1
      <3> QED BY <2>1, <2>3, <3>2, <1>1, <1>6
    <2> QED BY <1>19, <2>2, <2>3 DEF ManualFails
  <1>20. CASE ManualUnwinds(s)
    <2>1. manual[s].end \in {"cancel", "error"} BY <1>1 DEF Manual
    <2>2. ManualHandles(s, manual[s].end) /\ UNCHANGED <<full, phase, closing, task, worker, ctl, game>>
      BY <1>20 DEF ManualUnwinds
    <2> QED BY <2>1, <2>2, <1>1, <1>6, <1>11, <1>18
  <1> QED
    BY <1>7, <1>8, <1>9, <1>10, <1>12, <1>13, <1>14, <1>15, <1>16, <1>17, <1>19, <1>20
       DEF ManualSteps

\* A step of a command.
LEMMA CallTypes ==
  ASSUME LaunchesAssumption, TypeOK, NEW c \in Callers, CallSteps(c) \/ StopAbandoned(c)
  PROVE  TypeOK'
  <1> USE DEF Acquires, AtHalt
  <1>1. /\ saved \in Saved /\ disk \in Saved /\ worker \in [Workers -> Worker] /\ ctl \in Ctl
        /\ manual \in [Slots -> Manual] /\ calls \in [Callers -> Call] /\ calls[c] \in Call
        /\ task \in Workers \cup {None} /\ calls[c].tvs \subseteq TVs
    BY DEF TypeOK, Ctl, Call
  <1>2. /\ With("ended") \in Saved
        /\ \A T \in SUBSET TVs :
             [saved EXCEPT !.status = "checking", !.until = "open", !.tvs = T] \in Saved
    BY Records
  <1>3. Returns(c) => calls' \in [Callers -> Call] BY <1>1, Constants DEF Returns
  <1>4. ASSUME saved' \in Saved, disk' \in Saved, worker' \in [Workers -> Worker], ctl' \in Ctl,
               task' \in Workers \cup {None}, manual' \in [Slots -> Manual],
               calls' \in [Callers -> Call], UNCHANGED <<full, phase, closing, edges, game>>
        PROVE  TypeOK'
    BY <1>4 DEF TypeOK, Ctl
  <1>5. NewWorker => worker' \in [Workers -> Worker] /\ task' \in Workers \cup {None}
    BY Creation
  <1>6. CASE KickIsIdle(c)
    <2>1. worker' \in [Workers -> Worker] /\ task' \in Workers \cup {None}
      BY <1>1, <1>5, <1>6 DEF KickIsIdle
    <2> QED BY <2>1, <1>1, <1>3, <1>4, <1>6 DEF KickIsIdle, record
  <1>7. CASE StopsWorker(c)
    <2>1. worker' \in [Workers -> Worker] /\ task' \in Workers \cup {None}
      BY <1>7, Endings DEF StopsWorker, StopWorker
    <2>2. [calls EXCEPT ![c].pc = "halt", ![c].on = task] \in [Callers -> Call]
      BY <1>1 DEF Call
    <2> QED BY <2>1, <2>2, <1>1, <1>4, <1>7 DEF StopsWorker, record
  <1>8. CASE CancelRefused(c)
    BY <1>1, <1>3, <1>4, <1>8 DEF CancelRefused, record
  <1>9. CASE KickArms(c)
    <2>1. worker' \in [Workers -> Worker] /\ task' \in Workers \cup {None}
      BY <1>1, <1>5, <1>9 DEF KickArms
    <2> DEFINE window ==
          [saved EXCEPT !.status = "checking", !.until = "open", !.tvs = calls[c].tvs]
    <2>2. window \in Saved BY <1>1, <1>2
    <2>3. Persist(window) \/ UNCHANGED <<saved, disk>>
      BY <1>9 DEF KickArms, PersistFails, record
    <2> HIDE DEF window
    <2>4. saved' \in Saved /\ disk' \in Saved BY <1>1, <2>2, <2>3 DEF Persist
    <2> QED BY <2>1, <2>4, <1>1, <1>3, <1>4, <1>9 DEF KickArms
  <1>10. CASE StopsManual(c)
    <2>1. manual' \in [Slots -> Manual] BY <1>10, Endings DEF StopsManual
    <2> DEFINE busy == {s \in Slots : Busy(s)}
    <2>2. calls' = [calls EXCEPT ![c].pc = "drain", ![c].on = None, ![c].drains = busy]
      BY <1>10 DEF StopsManual
    <2>3. busy \in SUBSET Slots OBVIOUS
    <2> HIDE DEF busy
    <2>4. calls' \in [Callers -> Call] BY <2>2, <2>3, <1>1 DEF Call
    <2> QED BY <2>1, <2>4, <1>1, <1>4, <1>10 DEF StopsManual, record
  <1>11. CASE Drained(c)
    <2>1. saved' \in Saved /\ disk' \in Saved
      BY <1>1, <1>2, <1>11 DEF Drained, Persist, PersistFails, record
    <2>2. ctl' \in Ctl BY <1>1, <1>11, Controls DEF Drained
    <2> QED BY <2>1, <2>2, <1>1, <1>3, <1>4, <1>11 DEF Drained
  <1>12. CASE StopAbandoned(c)
    BY <1>1, <1>3, <1>4, <1>12 DEF StopAbandoned, record
  <1> QED BY <1>6, <1>7, <1>8, <1>9, <1>10, <1>11, <1>12 DEF CallSteps

\* A request, and what happens outside the service.
Asked ==
    \/ \E s \in Slots, targets \in PressTargets, join \in Joins : Press(s, targets, join)
    \/ \E c \in Callers :
         \/ \E targets \in KickTargets : Kick(c, targets)
         \/ \E r \in StopTargets : Stop(c, r)
         \/ Cancel(c) \/ Close(c)
Outside ==
    \/ BareStop \/ EngineExits \/ DeadlinePasses \/ NextGame \/ DiskFills
    \/ \E targets \in OtherTargets : OtherPlay(targets)
    \/ Crash \/ Exits \/ Restart

LEMMA AskedTypes ==
  ASSUME LaunchesAssumption, TypeOK, Asked
  PROVE  TypeOK'
  <1>1. /\ ctl \in Ctl /\ ctl.gen \in Generations
        /\ manual \in [Slots -> Manual] /\ calls \in [Callers -> Call]
    BY DEF TypeOK, Ctl
  <1>2. NoManual \in Manual /\ NoCall \in Call BY Constants
  <1>3. ASSUME NewEpoch PROVE manual' \in [Slots -> Manual]
    <2>1. \A m \in Manual : [m EXCEPT !.live = FALSE] \in Manual BY DEF Manual
    <2> QED BY <2>1, <1>1, <1>3 DEF NewEpoch
  <1>4. ASSUME ctl' \in Ctl, manual' \in [Slots -> Manual], calls' \in [Callers -> Call],
               closing' \in BOOLEAN, UNCHANGED <<saved, disk, full, phase, task, worker, edges, game>>
        PROVE  TypeOK'
    BY <1>4 DEF TypeOK, Ctl
  <1>5. ASSUME NEW c \in Callers, NEW x \in Call, Asks(c, x)
        PROVE  calls' \in [Callers -> Call]
    BY <1>1, <1>5 DEF Asks
  <1>6. ASSUME NEW s \in Slots, NEW targets \in PressTargets, NEW join \in Joins,
               Press(s, targets, join)
        PROVE  TypeOK'
    <2>1. targets \in SUBSET TVs /\ join \in BOOLEAN BY DEF LaunchesAssumption
    <2>2. [NoManual EXCEPT !.pc = "queued", !.live = TRUE, !.tvs = targets, !.join = join,
                           !.asked = ctl.gen, !.base = ctl.gen, !.gen = ctl.gen] \in Manual
      BY <2>1, <1>1, <1>2 DEF Manual
    <2>3. manual' \in [Slots -> Manual] BY <2>2, <1>1, <1>6 DEF Press
    <2>4. closing \in BOOLEAN BY DEF TypeOK
    <2> QED BY <2>3, <2>4, <1>1, <1>4, <1>6 DEF Press, record
  <1>7. ASSUME NEW c \in Callers, NEW targets \in KickTargets, Kick(c, targets) PROVE TypeOK'
    <2>1. targets \in SUBSET TVs BY DEF LaunchesAssumption
    <2>2. [NoCall EXCEPT !.op = "kick", !.pc = "lock", !.tvs = targets] \in Call
      BY <2>1, <1>2 DEF Call
    <2>3. calls' \in [Callers -> Call] BY <2>2, <1>5, <1>7 DEF Kick
    <2>4. closing \in BOOLEAN BY DEF TypeOK
    <2> QED BY <2>3, <2>4, <1>1, <1>4, <1>7 DEF Kick, record
  <1>8. ASSUME NEW c \in Callers, NEW r \in StopTargets, Stop(c, r) PROVE TypeOK'
    <2>1. r \in TVs \cup {All} BY DEF LaunchesAssumption
    <2>2. [NoCall EXCEPT !.op = "stop", !.pc = "lock", !.tv = r] \in Call
      BY <2>1, <1>2 DEF Call
    <2>3. /\ manual' \in [Slots -> Manual] /\ calls' \in [Callers -> Call] /\ ctl' \in Ctl
      BY <2>2, <1>1, <1>3, <1>5, <1>8, Controls DEF Stop
    <2>4. closing \in BOOLEAN BY DEF TypeOK
    <2> QED BY <2>3, <2>4, <1>4, <1>8 DEF Stop, record
  <1>9. ASSUME NEW c \in Callers, Cancel(c) \/ Close(c) PROVE TypeOK'
    <2>1. /\ [NoCall EXCEPT !.op = "cancel", !.pc = "lock"] \in Call
          /\ [NoCall EXCEPT !.op = "close", !.pc = "lock"] \in Call
      BY <1>2 DEF Call
    <2>2. manual' \in [Slots -> Manual] /\ calls' \in [Callers -> Call]
      BY <2>1, <1>3, <1>5, <1>9 DEF Cancel, Close
    <2>3. closing' \in BOOLEAN BY <1>9 DEF TypeOK, Cancel, Close
    <2> QED BY <2>2, <2>3, <1>1, <1>4, <1>9 DEF Cancel, Close, record
  <1> QED BY <1>6, <1>7, <1>8, <1>9 DEF Asked

LEMMA OutsideTypes ==
  ASSUME LaunchesAssumption, TypeOK, Outside
  PROVE  TypeOK'
  <1>1. saved \in Saved /\ disk \in Saved /\ ctl \in Ctl /\ game \in 0..MaxGame
    BY DEF TypeOK, Ctl
  <1>2. /\ Blank \in Saved /\ Quiet \in Ctl /\ NoWorker \in Worker /\ NoManual \in Manual
        /\ NoCall \in Call /\ NoEdges \in [Generations -> Generations]
        /\ Other \in 0..Other /\ 0 \in 0..Other
    BY Constants
  <1>3. CASE BareStop BY <1>3, Controls DEF BareStop, TypeOK, Ctl, record
  <1>4. CASE EngineExits
    <2>1. ctl' \in Ctl BY <1>1, <1>2, <1>4 DEF EngineExits, Ctl
    <2> QED BY <2>1, <1>4 DEF EngineExits, TypeOK, Ctl, record
  <1>5. CASE DeadlinePasses
    <2>1. saved' \in Saved /\ disk' \in Saved BY <1>1, <1>5 DEF DeadlinePasses, Saved
    <2> QED BY <2>1, <1>5 DEF DeadlinePasses, TypeOK
  <1>6. CASE NextGame
    <2>1. game' \in 0..MaxGame BY <1>1, <1>6 DEF NextGame, LaunchesAssumption
    <2> QED BY <2>1, <1>6 DEF NextGame, TypeOK, record
  <1>7. CASE DiskFills BY <1>7 DEF DiskFills, TypeOK
  <1>8. ASSUME NEW targets \in OtherTargets, OtherPlay(targets) PROVE TypeOK'
    <2>1. targets \subseteq TVs BY DEF LaunchesAssumption
    <2>2. ctl.gen + 1 \in Generations
      BY <1>1, <1>8 DEF OtherPlay, CanStop, Generations, Ctl, LaunchesAssumption
    <2>3. ctl' \in Ctl BY <2>1, <2>2, <1>2, <1>8 DEF OtherPlay, Ctl
    <2> QED BY <2>3, <1>8 DEF OtherPlay, TypeOK, Ctl, record
  <1>9. CASE Crash \/ Exits
    <2>1. Down BY <1>9 DEF Crash, Exits
    <2> QED BY <2>1, <1>1, <1>2 DEF Down, TypeOK, Ctl
  <1>10. CASE Restart
    <2>1. saved' \in Saved BY <1>10, Records DEF Restart
    <2>2. worker' \in [Workers -> Worker] /\ task' \in Workers \cup {None}
      BY <1>10, Creation DEF Restart, TypeOK
    <2> QED BY <2>1, <2>2, <1>10 DEF Restart, TypeOK
  <1> QED BY <1>3, <1>4, <1>5, <1>6, <1>7, <1>8, <1>9, <1>10 DEF Outside

\* The four kinds of steps.
LEMMA Kinds ==
  ASSUME Next
  PROVE  \/ \E w \in Workers : WorkerSteps(w)
         \/ \E s \in Slots : ManualSteps(s) \/ ManualFails(s, "cancel")
         \/ \E c \in Callers : CallSteps(c) \/ StopAbandoned(c)
         \/ Asked \/ Outside
  BY DEF Next, Asked, Outside

LEMMA TypeInit == ASSUME LaunchesAssumption, Init PROVE TypeOK
  <1>1. /\ Blank \in Saved /\ Quiet \in Ctl /\ NoWorker \in Worker /\ NoManual \in Manual
        /\ NoCall \in Call /\ NoEdges \in [Generations -> Generations] /\ 0 \in 0..MaxGame
    BY Constants DEF LaunchesAssumption
  <1> QED BY <1>1 DEF Init, TypeOK, Ctl

LEMMA TypeStep == ASSUME LaunchesAssumption, TypeOK, [Next]_vars PROVE TypeOK'
  <1>1. CASE Next
    BY <1>1, Kinds, WorkerTypes, ManualTypes, CallTypes, AskedTypes, OutsideTypes
  <1>2. CASE UNCHANGED vars BY <1>2 DEF vars, TypeOK
  <1> QED BY <1>1, <1>2

\* Types, for every value of the constants.
THEOREM TypeCorrect == Spec => []TypeOK
  <1>1. Init => TypeOK BY TypeInit, LaunchesAssumption
  <1>2. TypeOK /\ [Next]_vars => TypeOK' BY TypeStep, LaunchesAssumption
  <1> QED BY <1>1, <1>2, PTL DEF Spec

-----------------------------------------------------------------------------
(* At most one automatic attempt per game.                                 *)
(*                                                                         *)
(* A worker claims a game that the record in memory does not name.  That   *)
(* no earlier worker claimed it, also one that crashed, needs that memory  *)
(* never knows less than the file while the process runs, that nothing     *)
(* writes while it does not, and that no record is ahead of the games.     *)

SavedIsOnDisk == phase = "up" => saved.attempted = disk.attempted
NoFutureGame == saved.attempted <= game /\ disk.attempted <= game
DownIsQuiet ==
    phase = "down" =>
        /\ \A w \in Workers : worker[w].pc = "none"
        /\ \A s \in Slots : manual[s].pc = "none"
        /\ \A c \in Callers : calls[c].pc = "idle"
AttemptInv == TypeOK /\ SavedIsOnDisk /\ NoFutureGame /\ DownIsQuiet

\* What AtMostOneAttempt says of a step.
Attempt ==
    /\ disk'.attempted >= disk.attempted
    /\ \A w \in Workers :
         worker[w].pc = "lock" /\ worker'[w].pc \in {"stop", "vpn"} =>
             disk.attempted < worker[w].game /\ disk'.attempted = worker[w].game

\* A step of a process that runs, which leaves the games named in the record alone
\* and takes no worker to the Stop of a game.
LEMMA KeepsAttempts ==
  ASSUME AttemptInv, TypeOK', phase = "up", phase' = "up", game' >= game,
         saved'.attempted = saved.attempted, disk'.attempted = disk.attempted,
         \A w \in Workers : worker[w].pc = "lock" => worker'[w].pc \notin {"stop", "vpn"}
  PROVE  AttemptInv' /\ Attempt
  <1>1. /\ saved.attempted \in Nat /\ disk.attempted \in Nat /\ game \in Nat /\ game' \in Nat
    BY LaunchesAssumption DEF AttemptInv, TypeOK, Saved
  <1> QED BY <1>1 DEF AttemptInv, SavedIsOnDisk, NoFutureGame, DownIsQuiet, Attempt

\* The writes that leave the attempt alone, while the process runs.
LEMMA WritesKeep ==
  ASSUME AttemptInv, phase = "up"
  PROVE  /\ \A status \in {"checking", "started", "ended"} :
              Persist(With(status)) =>
                saved'.attempted = saved.attempted /\ disk'.attempted = disk.attempted
         /\ UNCHANGED <<saved, disk>> =>
              saved'.attempted = saved.attempted /\ disk'.attempted = disk.attempted
  BY DEF AttemptInv, SavedIsOnDisk, TypeOK, Saved, Persist, With

LEMMA WorkerAttempts ==
  ASSUME AttemptInv, NEW w \in Workers, WorkerSteps(w)
  PROVE  AttemptInv' /\ Attempt
  <1> USE DEF Resumes, Unexpired, Active, Fresh
  <1>1. TypeOK /\ TypeOK' BY WorkerTypes, LaunchesAssumption DEF AttemptInv
  <1>2. /\ saved \in Saved /\ disk \in Saved /\ worker \in [Workers -> Worker]
        /\ worker[w] \in Worker /\ game \in Nat /\ worker[w].game \in Nat
        /\ saved.attempted \in Nat /\ disk.attempted \in Nat
    BY <1>1, LaunchesAssumption DEF TypeOK, Saved, Worker
  <1>3. worker[w].pc # "none" /\ UNCHANGED <<phase, game>>
    BY DEF WorkerSteps, WorkerBegins, WorkerReturns, WorkerFetches, WorkerDefers, WorkerClaims,
           WorkerStopped, WorkerPlays, WorkerAdds, WorkerPlayed, WorkerFails, WorkerUnwinds
  <1>4. phase = "up" BY <1>1, <1>3 DEF AttemptInv, DownIsQuiet, TypeOK
  <1>5. CASE WorkerClaims(w)
    <2>1. /\ worker[w].game = game /\ saved.attempted # game
          /\ saved' = [saved EXCEPT !.attempted = game] /\ disk' = saved'
      BY <1>5 DEF WorkerClaims, Persist
    <2>2. saved'.attempted = game /\ disk'.attempted = game BY <1>2, <2>1 DEF Saved
    <2>3. /\ saved.attempted = disk.attempted /\ saved.attempted <= game
      BY <1>4 DEF AttemptInv, SavedIsOnDisk, NoFutureGame
    <2>4. AttemptInv'
      BY <1>1, <1>2, <1>3, <1>4, <2>2 DEF AttemptInv, SavedIsOnDisk, NoFutureGame, DownIsQuiet
    <2>5. \A v \in Workers : v # w => worker'[v] = worker[v]
      BY <1>2, <1>5 DEF WorkerClaims
    <2> QED BY <1>2, <2>1, <2>2, <2>3, <2>4, <2>5 DEF Attempt
  <1>6. CASE ~WorkerClaims(w)
    <2>1. saved'.attempted = saved.attempted /\ disk'.attempted = disk.attempted
      BY <1>4, <1>6, WritesKeep
         DEF WorkerSteps, WorkerBegins, WorkerReturns, WorkerFetches, WorkerDefers, WorkerStopped,
             WorkerPlays, WorkerAdds, WorkerPlayed, WorkerFails, WorkerUnwinds, WorkerHandles,
             PersistFails, record
    <2>2. \A v \in Workers : v # w => worker'[v] = worker[v]
      BY <1>2, <1>6
         DEF WorkerSteps, WorkerBegins, WorkerReturns, WorkerFetches, WorkerDefers, WorkerStopped,
             WorkerPlays, WorkerAdds, WorkerPlayed, WorkerFails, WorkerUnwinds, WorkerHandles,
             WorkerEnds, Sleeps, Moves
    <2>3. worker[w].pc = "lock" => worker'[w].pc \notin {"stop", "vpn"}
      <3> SUFFICES ASSUME worker[w].pc = "lock"
                   PROVE  worker'[w].pc \notin {"stop", "vpn"}
        OBVIOUS
      <3>1. WorkerReturns(w) \/ WorkerDefers(w) \/ WorkerFails(w)
        BY <1>6 DEF WorkerSteps, WorkerBegins, WorkerFetches, WorkerStopped, WorkerPlays,
                    WorkerAdds, WorkerPlayed, WorkerUnwinds
      <3>2. WorkerEnds(w) \/ Sleeps(w)
        BY <3>1 DEF WorkerReturns, WorkerDefers, WorkerFails, WorkerHandles
      <3>3. CASE WorkerEnds(w)
        <4>1. worker'[w] = NoWorker BY <1>2, <3>3 DEF WorkerEnds
        <4> QED BY <4>1 DEF NoWorker
      <3>4. CASE Sleeps(w)
        <4>1. worker'[w] = [NoWorker EXCEPT !.pc = "sleep", !.live = TRUE]
          BY <1>2, <3>4 DEF Sleeps
        <4> QED BY <4>1 DEF NoWorker
      <3> QED BY <3>2, <3>3, <3>4
    <2> QED BY <1>1, <1>2, <1>3, <1>4, <2>1, <2>2, <2>3, KeepsAttempts
  <1> QED BY <1>5, <1>6

\* stop_worker takes no worker to the Stop of a game, and neither does a new worker.
LEMMA WorkersHalt ==
  ASSUME TypeOK, StopWorker \/ NewWorker \/ UNCHANGED worker
  PROVE  \A w \in Workers : worker[w].pc = "lock" => worker'[w].pc \notin {"stop", "vpn"}
  <1>1. worker \in [Workers -> Worker] BY DEF TypeOK
  <1>2. CASE StopWorker
    BY <1>1, <1>2 DEF StopWorker, Forgotten, Unwinding, NoWorker, Worker
  <1>3. CASE NewWorker
    <2>1. /\ task' \in Workers
          /\ worker' = [worker EXCEPT ![task'] = [NoWorker EXCEPT !.pc = "begin", !.live = TRUE]]
      BY <1>3, Creation, LaunchesAssumption
    <2> QED BY <1>1, <2>1 DEF NoWorker
  <1> QED BY <1>2, <1>3

LEMMA ManualAttempts ==
  ASSUME AttemptInv, NEW s \in Slots, ManualSteps(s) \/ ManualFails(s, "cancel")
  PROVE  AttemptInv' /\ Attempt
  <1>1. TypeOK /\ TypeOK' BY ManualTypes, LaunchesAssumption DEF AttemptInv
  <1>2. /\ saved \in Saved /\ disk \in Saved /\ game \in Nat
        /\ saved.attempted \in Nat /\ disk.attempted \in Nat
    BY <1>1, LaunchesAssumption DEF TypeOK, Saved
  <1>3. manual[s].pc # "none" /\ UNCHANGED <<phase, game>>
    BY DEF ManualSteps, ManualStarts, ManualCommands, ManualHalted, ManualFetches, ManualJoined,
           ManualClaims, MayLaunch, ManualStopped, ManualPlays, ManualAdds, ManualPlayed,
           ManualFails, ManualUnwinds, Continues
  <1>4. phase = "up" BY <1>1, <1>3 DEF AttemptInv, DownIsQuiet, TypeOK
  <1>5. StopWorker \/ UNCHANGED worker
    BY DEF ManualSteps, ManualStarts, ManualCommands, ManualHalted, ManualFetches, ManualJoined,
           ManualClaims, ManualStopped, ManualPlays, ManualAdds, ManualPlayed,
           ManualFails, ManualUnwinds
  <1>6. \A w \in Workers : worker[w].pc = "lock" => worker'[w].pc \notin {"stop", "vpn"}
    BY <1>1, <1>5, WorkersHalt
  <1>7. CASE ManualJoined(s) \/ ManualClaims(s)
    <2>1. manual[s].game = game /\ UNCHANGED worker
      BY <1>7 DEF ManualJoined, ManualClaims, MayLaunch, Fresh
    <2>2. \/ saved' = [With("started") EXCEPT !.attempted = game] /\ disk' = saved'
          \/ saved' = [saved EXCEPT !.attempted = game] /\ disk' = saved'
      <3>1. CASE ManualJoined(s) BY <2>1, <3>1 DEF ManualJoined, Persist
      <3>2. CASE ManualClaims(s) BY <2>1, <3>2 DEF ManualClaims, Persist
      <3> QED BY <1>7, <3>1, <3>2
    <2>3. saved'.attempted = game /\ disk'.attempted = game BY <1>2, <2>2 DEF With, Saved
    <2>4. disk.attempted <= game BY DEF AttemptInv, NoFutureGame
    <2>5. AttemptInv'
      BY <1>1, <1>2, <1>3, <1>4, <2>3 DEF AttemptInv, SavedIsOnDisk, NoFutureGame, DownIsQuiet
    <2> QED BY <1>2, <1>6, <2>3, <2>4, <2>5 DEF Attempt
  <1>8. CASE ~ (ManualJoined(s) \/ ManualClaims(s))
    <2>1. saved'.attempted = saved.attempted /\ disk'.attempted = disk.attempted
      <3>1. CASE ManualHalted(s)
        BY <1>2, <1>4, <3>1
           DEF ManualHalted, Persist, With, Saved, AttemptInv, SavedIsOnDisk
      <3>2. ASSUME NEW end, ManualHandles(s, end)
            PROVE  saved'.attempted = saved.attempted /\ disk'.attempted = disk.attempted
        BY <1>2, <1>4, <3>2, WritesKeep DEF ManualHandles, PersistFails, With, Saved, record
      <3>3. CASE ManualPlayed(s) BY <1>4, <3>3, WritesKeep DEF ManualPlayed
      <3>4. CASE ManualUnwinds(s) \/ ManualFails(s, "error") \/ ManualFails(s, "cancel")
        BY <1>4, <3>2, <3>4, WritesKeep DEF ManualUnwinds, ManualFails
      <3> QED
        BY <1>4, <1>8, <3>1, <3>3, <3>4, WritesKeep
           DEF ManualSteps, ManualStarts, ManualCommands, ManualFetches, ManualStopped,
               ManualPlays, ManualAdds, record
    <2> QED BY <1>1, <1>2, <1>3, <1>4, <1>6, <2>1, KeepsAttempts
  <1> QED BY <1>7, <1>8

LEMMA CallAttempts ==
  ASSUME AttemptInv, NEW c \in Callers, CallSteps(c) \/ StopAbandoned(c)
  PROVE  AttemptInv' /\ Attempt
  <1> USE DEF Acquires, AtHalt
  <1>1. TypeOK /\ TypeOK' BY CallTypes, LaunchesAssumption DEF AttemptInv
  <1>2. saved \in Saved /\ disk \in Saved /\ game \in Nat
    BY <1>1, LaunchesAssumption DEF TypeOK, Saved
  <1>3. UNCHANGED <<phase, game>>
    BY DEF CallSteps, KickIsIdle, StopsWorker, CancelRefused, KickArms, StopsManual, Drained,
           StopAbandoned
  <1>4. StopWorker \/ NewWorker \/ UNCHANGED worker
    BY DEF CallSteps, KickIsIdle, StopsWorker, CancelRefused, KickArms, StopsManual, Drained,
           StopAbandoned
  <1>5. saved' # saved \/ disk' # disk => calls[c].pc # "idle"
    BY DEF CallSteps, KickIsIdle, StopsWorker, CancelRefused, KickArms, StopsManual, Drained,
           StopAbandoned, AtDrain, record
  <1>6. \A w \in Workers : worker[w].pc = "lock" => worker'[w].pc \notin {"stop", "vpn"}
    BY <1>1, <1>4, WorkersHalt
  <1>7. phase \in {"up", "down"} BY <1>1 DEF TypeOK
  <1>8. CASE phase = "up"
    <2>1. saved'.attempted = saved.attempted /\ disk'.attempted = disk.attempted
      <3>1. CASE KickArms(c)
        <4> DEFINE window ==
              [saved EXCEPT !.status = "checking", !.until = "open", !.tvs = calls[c].tvs]
        <4>1. window.attempted = saved.attempted BY <1>2 DEF Saved
        <4>2. Persist(window) \/ UNCHANGED <<saved, disk>>
          BY <3>1 DEF KickArms, PersistFails, record
        <4> HIDE DEF window
        <4> QED BY <1>8, <4>1, <4>2 DEF Persist, AttemptInv, SavedIsOnDisk
      <3>2. CASE Drained(c)
        BY <1>8, <3>2, WritesKeep DEF Drained, PersistFails, record
      <3> QED
        BY <1>8, <3>1, <3>2, WritesKeep
           DEF CallSteps, KickIsIdle, StopsWorker, CancelRefused, StopsManual, StopAbandoned, record
    <2> QED BY <1>1, <1>2, <1>3, <1>6, <1>8, <2>1, KeepsAttempts
  <1>9. CASE phase = "down"
    <2>1. calls[c].pc = "idle" BY <1>9 DEF AttemptInv, DownIsQuiet
    <2>2. StopAbandoned(c) BY <2>1 DEF CallSteps, KickIsIdle, StopsWorker, CancelRefused, KickArms,
                                      StopsManual, Drained, AtDrain
    <2>3. calls' = [calls EXCEPT ![c] = NoCall] /\ UNCHANGED <<record, worker, manual>>
      BY <2>2 DEF StopAbandoned, Returns
    <2>4. \A d \in Callers : calls'[d].pc = "idle"
      BY <1>1, <1>9, <2>3 DEF AttemptInv, DownIsQuiet, TypeOK, NoCall
    <2> QED
      BY <1>1, <1>2, <1>3, <1>6, <1>9, <2>3, <2>4
         DEF AttemptInv, SavedIsOnDisk, NoFutureGame, DownIsQuiet, Attempt, record, Saved
  <1> QED BY <1>7, <1>8, <1>9

LEMMA AskedAttempts ==
  ASSUME AttemptInv, Asked
  PROVE  AttemptInv' /\ Attempt
  <1>1. TypeOK /\ TypeOK' BY AskedTypes, LaunchesAssumption DEF AttemptInv
  <1>2. game \in Nat BY <1>1, LaunchesAssumption DEF TypeOK
  <1>3. phase = "up" /\ UNCHANGED <<record, phase, worker, game>>
    BY DEF Asked, Press, Kick, Stop, Cancel, Close, Idle
  <1> QED BY <1>1, <1>2, <1>3, KeepsAttempts DEF record

LEMMA OutsideAttempts ==
  ASSUME AttemptInv, Outside
  PROVE  AttemptInv' /\ Attempt
  <1>1. TypeOK /\ TypeOK' BY OutsideTypes, LaunchesAssumption DEF AttemptInv
  <1>2. /\ saved \in Saved /\ disk \in Saved /\ game \in Nat /\ game' \in Nat
        /\ saved.attempted \in Nat /\ disk.attempted \in Nat
        /\ saved'.attempted \in Nat /\ disk'.attempted \in Nat
    BY <1>1, LaunchesAssumption DEF TypeOK, Saved
  <1>3. CASE BareStop \/ DiskFills \/ \E targets \in OtherTargets : OtherPlay(targets)
    <2>1. phase = "up" /\ UNCHANGED <<record, phase, worker, game>>
      BY <1>3 DEF BareStop, DiskFills, OtherPlay, record
    <2> QED BY <1>1, <1>2, <2>1, KeepsAttempts DEF record
  <1>4. CASE EngineExits \/ DeadlinePasses \/ NextGame
    <2>1. /\ game' >= game /\ UNCHANGED <<phase, worker, manual, calls>>
          /\ saved'.attempted = saved.attempted /\ disk'.attempted = disk.attempted
      BY <1>2, <1>4 DEF EngineExits, DeadlinePasses, NextGame, record, Saved
    <2> QED
      BY <1>1, <1>2, <2>1
         DEF AttemptInv, SavedIsOnDisk, NoFutureGame, DownIsQuiet, Attempt
  <1>5. CASE Crash \/ Exits
    <2>1. Down BY <1>5 DEF Crash, Exits
    <2>2. DownIsQuiet' BY <2>1 DEF Down, DownIsQuiet, NoWorker, NoManual, NoCall
    <2>3. NoFutureGame' BY <1>2, <2>1 DEF Down, NoFutureGame, AttemptInv, Blank
    <2>4. SavedIsOnDisk' BY <2>1 DEF Down, SavedIsOnDisk
    <2>5. Attempt BY <1>2, <2>1 DEF Down, Attempt, NoWorker
    <2> QED BY <1>1, <2>2, <2>3, <2>4, <2>5 DEF AttemptInv
  <1>6. CASE Restart
    <2>1. /\ phase = "down" /\ phase' = "up" /\ saved' = Load(disk) /\ UNCHANGED <<disk, game>>
      BY <1>6 DEF Restart
    <2>2. saved'.attempted = disk.attempted BY <1>2, <2>1 DEF Load, Saved
    <2>3. StopWorker \/ NewWorker \/ UNCHANGED worker BY <1>6 DEF Restart
    <2>4. \A w \in Workers : worker[w].pc = "lock" => worker'[w].pc \notin {"stop", "vpn"}
      BY <1>1, <2>3, WorkersHalt
    <2> QED
      BY <1>1, <1>2, <2>1, <2>2, <2>4
         DEF AttemptInv, SavedIsOnDisk, NoFutureGame, DownIsQuiet, Attempt
  <1> QED BY <1>3, <1>4, <1>5, <1>6 DEF Outside

LEMMA AttemptStep == ASSUME AttemptInv, [Next]_vars PROVE AttemptInv' /\ [Attempt]_vars
  <1>1. CASE Next
    BY <1>1, Kinds, WorkerAttempts, ManualAttempts, CallAttempts, AskedAttempts, OutsideAttempts
  <1>2. CASE UNCHANGED vars
    BY <1>2 DEF vars, AttemptInv, TypeOK, SavedIsOnDisk, NoFutureGame, DownIsQuiet
  <1> QED BY <1>1, <1>2

\* A game has at most one automatic attempt, whatever crashes, restarts, commands and
\* explicit launches come between.
THEOREM OneAttempt == Spec => AtMostOneAttempt
  <1>1. ASSUME Init PROVE AttemptInv
    <2>1. TypeOK BY <1>1, TypeInit, LaunchesAssumption
    <2>2. SavedIsOnDisk BY <1>1 DEF Init, SavedIsOnDisk
    <2>3. saved = Blank /\ disk = Blank /\ game = 0 BY <1>1 DEF Init
    <2>4. NoFutureGame BY <2>3 DEF NoFutureGame, Blank
    <2>5. DownIsQuiet BY <1>1 DEF Init, DownIsQuiet
    <2> QED BY <2>1, <2>2, <2>4, <2>5 DEF AttemptInv
  <1>2. AttemptInv /\ [Next]_vars => AttemptInv' /\ [Attempt]_vars BY AttemptStep
  <1> QED BY <1>1, <1>2, PTL DEF Spec, AtMostOneAttempt, Attempt

-----------------------------------------------------------------------------
(* The locks.                                                              *)

Claimed == {"stop", "vpn", "play", "adding"}
Held == {"command", "halt", "fetch", "lock"} \cup Claimed

\* Where an explicit launch is tells which locks it holds.
Keeps(m) ==
    /\ m.pc \in Held => "manual" \in m.holds
    /\ m.pc = "halt" => "command" \in m.holds
    /\ m.pc \in Claimed => "control" \in m.holds
    /\ m.pc = "none" => m.holds = {}

InCommand(c) == calls[c].pc \in {"halt", "drain"}

\* A lock has one holder.
OneHolder ==
    /\ \A s, t \in Slots : manual[s].holds \cap manual[t].holds # {} => s = t
    /\ \A c, d \in Callers : InCommand(c) /\ InCommand(d) => c = d
    /\ \A c \in Callers, s \in Slots : ~ (InCommand(c) /\ "command" \in manual[s].holds)
    /\ \A v, w \in Workers : worker[v].locked /\ worker[w].locked => v = w
    /\ \A w \in Workers, s \in Slots : ~ (worker[w].locked /\ "control" \in manual[s].holds)

LockInv ==
    /\ OneHolder
    /\ \A s \in Slots : Keeps(manual[s])
    /\ \A w \in Workers : worker[w].pc \in Claimed => worker[w].locked

\* A step in which nobody acquires a lock.
LEMMA LocksKept ==
  ASSUME LockInv,
         \A s \in Slots : manual'[s].holds \subseteq manual[s].holds /\ Keeps(manual'[s]),
         \A c \in Callers : calls'[c].pc \in {"halt", "drain"} => InCommand(c),
         \A w \in Workers : /\ worker'[w].locked => worker[w].locked
                            /\ worker'[w].pc \in Claimed => worker'[w].locked
  PROVE  LockInv'
  <1>1. OneHolder'
    BY DEF LockInv, OneHolder, InCommand
  <1> QED BY <1>1 DEF LockInv, Keeps

\* What the steps do to the tasks that do not take it.
LEMMA WorkerMoves ==
  ASSUME TypeOK, NEW w \in Workers, WorkerSteps(w)
  PROVE  /\ \A v \in Workers \ {w} : worker'[v] = worker[v]
         /\ UNCHANGED <<task, manual, edges, calls, closing, phase, game>>
         /\ \/ worker'[w] = NoWorker
            \/ /\ worker'[w] = [NoWorker EXCEPT !.pc = "sleep", !.live = TRUE]
               /\ Active(w) /\ worker[w].pc \in {"fetch", "lock"}
            \/ worker'[w] = [NoWorker EXCEPT !.pc = "unwind", !.end = "error",
                                             !.live = worker[w].live, !.locked = worker[w].locked]
            \/ WorkerBegins(w) /\ worker'[w] = [worker[w] EXCEPT !.pc = "fetch"]
            \/ WorkerFetches(w) /\ worker'[w] = [worker[w] EXCEPT !.pc = "lock", !.game = game]
            \/ WorkerClaims(w)
            \/ WorkerStopped(w) /\ worker'[w] = [worker[w] EXCEPT !.pc = "vpn"]
            \/ WorkerPlays(w) /\ worker'[w] = [worker[w] EXCEPT !.pc = "play", !.gen = ctl'.gen]
            \/ WorkerAdds(w) /\ worker[w].pc = "play"
               /\ worker'[w] = [worker[w] EXCEPT !.pc = "adding"]
            \/ WorkerAdds(w) /\ worker'[w] = worker[w]
  <1>1. worker \in [Workers -> Worker] BY DEF TypeOK
  <1>2. /\ \A v \in Workers \ {w} : worker'[v] = worker[v]
        /\ UNCHANGED <<task, manual, edges, calls, closing, phase, game>>
    BY <1>1 DEF WorkerSteps, WorkerBegins, WorkerReturns, WorkerFetches, WorkerDefers,
           WorkerClaims, WorkerStopped, WorkerPlays, WorkerAdds, WorkerPlayed, WorkerFails,
           WorkerUnwinds, WorkerHandles, WorkerEnds, Sleeps, Moves
  <1>3. WorkerEnds(w) => worker'[w] = NoWorker
    BY <1>1 DEF WorkerEnds
  <1>4. Sleeps(w) => worker'[w] = [NoWorker EXCEPT !.pc = "sleep", !.live = TRUE]
    BY <1>1 DEF Sleeps
  <1>5. CASE WorkerBegins(w) \/ WorkerStopped(w)
    BY <1>1, <1>2, <1>5 DEF WorkerBegins, WorkerStopped, Moves
  <1>6. CASE WorkerReturns(w) \/ WorkerPlayed(w) \/ WorkerUnwinds(w)
    BY <1>2, <1>3, <1>6 DEF WorkerReturns, WorkerPlayed, WorkerUnwinds, WorkerHandles
  <1>7. CASE WorkerFetches(w)
    <2>1. CASE worker' = [worker EXCEPT ![w].pc = "lock", ![w].game = game]
      <3>1. worker'[w] = [worker[w] EXCEPT !.pc = "lock", !.game = game]
        BY <1>1, <2>1
      <3> QED BY <1>2, <1>7, <3>1
    <2> QED BY <1>2, <1>3, <1>4, <1>7, <2>1 DEF WorkerFetches, Unexpired, Resumes
  <1>8. CASE WorkerDefers(w)
    BY <1>2, <1>3, <1>4, <1>8 DEF WorkerDefers, Unexpired, Resumes
  <1>9. CASE WorkerClaims(w)
    BY <1>2, <1>9
  <1>10. CASE WorkerPlays(w)
    <2>1. worker'[w] = [worker[w] EXCEPT !.pc = "play", !.gen = ctl'.gen]
      BY <1>1, <1>10 DEF WorkerPlays
    <2> QED BY <1>2, <1>10, <2>1
  <1>11. CASE WorkerAdds(w)
    BY <1>1, <1>2, <1>11 DEF WorkerAdds, Moves, Resumes
  <1>12. CASE WorkerFails(w)
    <2>1. CASE WorkerEnds(w)
      BY <1>2, <1>3, <2>1
    <2>2. CASE worker[w].pc \in {"play", "adding"}
               /\ worker' = [worker EXCEPT ![w] = Unwinding(w, "error")]
      BY <1>1, <1>2, <2>2 DEF Unwinding
    <2> QED BY <1>12, <2>1, <2>2 DEF WorkerFails, WorkerHandles
  <1> QED BY <1>5, <1>6, <1>7, <1>8, <1>9, <1>10, <1>11, <1>12 DEF WorkerSteps

LEMMA ManualMoves ==
  ASSUME TypeOK, NEW s \in Slots, ManualSteps(s) \/ ManualFails(s, "cancel")
  PROVE  /\ \A t \in Slots \ {s} : manual'[t] = manual[t]
         /\ UNCHANGED <<closing, phase, game>>
         /\ \A c \in Callers :
              calls'[c].pc = calls[c].pc /\ calls'[c].op = calls[c].op
         /\ manual[s].pc # "none"
         /\ \/ manual'[s] = NoManual /\ Drops(s)
            \/ /\ \/ /\ manual[s].pc \in {"play", "adding"}
                     /\ \E end \in {"cancel", "error"} : manual'[s] = ManualUnwinding(s, end)
                  \/ ManualStarts(s)
                     /\ manual'[s] = [manual[s] EXCEPT !.pc = "command", !.holds = {"manual"},
                                                       !.base = ctl.gen, !.gen = ctl.gen]
                  \/ ManualCommands(s)
                     /\ manual'[s] = [manual[s] EXCEPT !.pc = "halt",
                                        !.holds = @ \cup {"command"}, !.on = task]
                  \/ ManualHalted(s)
                     /\ manual'[s] = [manual[s] EXCEPT !.pc = "fetch", !.holds = {"manual"},
                                                       !.on = None]
                  \/ ManualFetches(s)
                     /\ manual'[s] = [manual[s] EXCEPT !.pc = "lock", !.game = game]
                  \/ ManualClaims(s)
                  \/ ManualStopped(s) /\ manual'[s] = [manual[s] EXCEPT !.pc = "vpn"]
                  \/ ManualPlays(s)
                  \/ ManualAdds(s) /\ manual[s].pc = "play"
                     /\ manual'[s] = [manual[s] EXCEPT !.pc = "adding"]
                  \/ ManualAdds(s) /\ manual'[s] = manual[s]
               /\ UNCHANGED <<calls, edges>>
         /\ UNCHANGED <<worker, task>> \/ ManualCommands(s)
  <1>1. manual \in [Slots -> Manual] /\ calls \in [Callers -> Call] BY DEF TypeOK
  <1>2. ASSUME ManualEnds(s) \/ (manual' = [manual EXCEPT ![s] = NoManual] /\ Drops(s))
        PROVE  /\ manual'[s] = NoManual /\ Drops(s)
               /\ \A t \in Slots \ {s} : manual'[t] = manual[t]
               /\ \A c \in Callers : calls'[c].pc = calls[c].pc /\ calls'[c].op = calls[c].op
    BY <1>1, <1>2 DEF ManualEnds, Drops, Call
  <1>3. CASE ManualStarts(s) \/ ManualCommands(s) \/ ManualHalted(s) \/ ManualFetches(s)
             \/ ManualStopped(s)
    BY <1>1, <1>3 DEF ManualStarts, ManualCommands, ManualHalted, ManualFetches, ManualStopped,
                      Continues
  <1>4. CASE ManualClaims(s) \/ ManualPlays(s)
    BY <1>1, <1>4 DEF ManualClaims, ManualPlays, MayLaunch, Continues
  <1>5. CASE ManualAdds(s)
    BY <1>1, <1>5 DEF ManualAdds, Continues
  <1>6. CASE ManualJoined(s)
    BY <1>2, <1>6 DEF ManualJoined, MayLaunch, Continues
  <1>7. CASE ManualPlayed(s)
    BY <1>2, <1>7 DEF ManualPlayed, Continues
  <1>8. CASE ManualUnwinds(s)
    BY <1>2, <1>8 DEF ManualUnwinds, ManualHandles
  <1>9. ASSUME NEW end \in {"cancel", "error"}, ManualFails(s, end)
        PROVE  /\ \A t \in Slots \ {s} : manual'[t] = manual[t]
               /\ \A c \in Callers : calls'[c].pc = calls[c].pc /\ calls'[c].op = calls[c].op
               /\ manual[s].pc # "none"
               /\ \/ manual'[s] = NoManual /\ Drops(s)
                  \/ /\ manual'[s] = ManualUnwinding(s, end) /\ UNCHANGED <<calls, edges>>
                     /\ manual[s].pc \in {"play", "adding"}
               /\ UNCHANGED <<worker, task, closing, phase, game>>
    BY <1>1, <1>2, <1>9 DEF ManualFails, ManualHandles
  <1> QED BY <1>3, <1>4, <1>5, <1>6, <1>7, <1>8, <1>9 DEF ManualSteps

LEMMA WorkerLocks ==
  ASSUME TypeOK, LockInv, NEW w \in Workers, WorkerSteps(w)
  PROVE  LockInv'
  <1>1. /\ \A v \in Workers \ {w} : worker'[v] = worker[v]
        /\ UNCHANGED <<manual, calls>>
    BY WorkerMoves
  <1>2. worker[w] \in Worker /\ worker \in [Workers -> Worker] BY DEF TypeOK
  <1>3. CASE WorkerClaims(w)
    <2>1. Free("control") /\ worker'[w].locked
      BY <1>2, <1>3 DEF WorkerClaims, Resumes, Worker
    <2>2. OneHolder'
      BY <1>1, <2>1 DEF LockInv, OneHolder, InCommand, Free
    <2> QED BY <1>1, <2>1, <2>2 DEF LockInv, Keeps
  <1>4. CASE ~WorkerClaims(w)
    <2>1. /\ worker'[w].locked => worker[w].locked
          /\ worker'[w].pc \in Claimed => worker'[w].locked
      <3>1. CASE worker'[w].pc \in {"none", "sleep", "unwind"}
                 /\ (worker'[w].locked => worker[w].locked)
        BY <3>1 DEF Claimed
      <3>2. CASE worker[w].pc \in {"begin", "sleep", "fetch"}
                 /\ worker'[w].pc \in {"fetch", "lock"} /\ worker'[w].locked = worker[w].locked
        BY <3>2 DEF Claimed
      <3>3. CASE worker[w].pc \in Claimed /\ worker'[w].locked = worker[w].locked
        BY <3>3 DEF LockInv
      <3>4. \/ worker'[w].pc \in {"none", "sleep", "unwind"}
               /\ (worker'[w].locked => worker[w].locked)
            \/ /\ worker[w].pc \in {"begin", "sleep", "fetch"}
               /\ worker'[w].pc \in {"fetch", "lock"}
               /\ worker'[w].locked = worker[w].locked
            \/ worker[w].pc \in Claimed /\ worker'[w].locked = worker[w].locked
        <4>1. WorkerStopped(w) => worker[w].pc = "stop"
          BY DEF WorkerStopped, Resumes
        <4>2. WorkerPlays(w) => worker[w].pc = "vpn"
          BY DEF WorkerPlays, Resumes
        <4>3. WorkerAdds(w) => worker[w].pc \in {"play", "adding"}
          BY DEF WorkerAdds, Resumes
        <4>4. /\ WorkerBegins(w) => worker[w].pc \in {"begin", "sleep"}
              /\ WorkerFetches(w) => worker[w].pc = "fetch"
          BY DEF WorkerBegins, WorkerFetches, Resumes
        <4>5. CASE worker'[w] = NoWorker
          BY <4>5 DEF NoWorker
        <4>8. CASE worker'[w] = [NoWorker EXCEPT !.pc = "sleep", !.live = TRUE]
          BY <4>8 DEF NoWorker
        <4>9. CASE worker'[w] = [NoWorker EXCEPT !.pc = "unwind", !.end = "error",
                                   !.live = worker[w].live, !.locked = worker[w].locked]
          BY <1>2, <4>9 DEF NoWorker, Worker
        <4>6. CASE worker'[w] \in {[worker[w] EXCEPT !.pc = "fetch"],
                                   [worker[w] EXCEPT !.pc = "lock", !.game = game]}
                   /\ (WorkerBegins(w) \/ WorkerFetches(w))
          BY <1>2, <4>4, <4>6 DEF Worker
        <4>7. CASE worker'[w] \in {worker[w], [worker[w] EXCEPT !.pc = "vpn"],
                                   [worker[w] EXCEPT !.pc = "play", !.gen = ctl'.gen],
                                   [worker[w] EXCEPT !.pc = "adding"]}
                   /\ (WorkerStopped(w) \/ WorkerPlays(w) \/ WorkerAdds(w))
          BY <1>2, <4>1, <4>2, <4>3, <4>7 DEF Worker, Claimed
        <4> QED BY <1>4, <4>5, <4>6, <4>7, <4>8, <4>9, WorkerMoves
      <3> QED BY <3>1, <3>2, <3>3, <3>4
    <2>2. \A v \in Workers : /\ worker'[v].locked => worker[v].locked
                             /\ worker'[v].pc \in Claimed => worker'[v].locked
      BY <1>1, <2>1 DEF LockInv
    <2> QED BY <1>1, <2>2, LocksKept DEF LockInv, InCommand
  <1> QED BY <1>3, <1>4

\* stop_worker keeps the locks of the task it cancels, and ends no other.
LEMMA HaltMoves ==
  ASSUME TypeOK, StopWorker
  PROVE  \A w \in Workers :
           /\ worker'[w].locked = worker[w].locked
           /\ worker'[w].pc = IF w = task /\ worker[w].pc # "none" THEN "unwind" ELSE worker[w].pc
           /\ worker'[w].game = worker[w].game \/ worker'[w].pc = "unwind"
           /\ worker'[w].gen = worker[w].gen \/ worker'[w].pc = "unwind"
           /\ ~worker'[w].live
  <1>1. worker \in [Workers -> Worker] BY DEF TypeOK
  <1>2. ASSUME NEW w \in Workers
        PROVE  /\ worker'[w].locked = worker[w].locked
               /\ worker'[w].pc = IF w = task /\ worker[w].pc # "none" THEN "unwind"
                                  ELSE worker[w].pc
               /\ worker'[w].game = worker[w].game \/ worker'[w].pc = "unwind"
               /\ worker'[w].gen = worker[w].gen \/ worker'[w].pc = "unwind"
               /\ ~worker'[w].live
    <2>1. worker'[w] = [IF w = task THEN Unwinding(w, "cancel") ELSE worker[w]
                          EXCEPT !.live = FALSE]
      BY DEF StopWorker, Forgotten
    <2>2. CASE w = task /\ worker[w].pc # "none"
      BY <2>1, <2>2 DEF Unwinding, NoWorker
    <2>3. CASE ~ (w = task /\ worker[w].pc # "none")
      <3>1. worker'[w] = [worker[w] EXCEPT !.live = FALSE]
        BY <2>1, <2>3 DEF Unwinding
      <3> QED BY <1>1, <2>3, <3>1 DEF Worker
    <2> QED BY <2>2, <2>3
  <1> QED BY <1>2

LEMMA ManualLocks ==
  ASSUME TypeOK, LockInv, NEW s \in Slots, ManualSteps(s) \/ ManualFails(s, "cancel")
  PROVE  LockInv'
  <1>1. /\ \A t \in Slots \ {s} : manual'[t] = manual[t]
        /\ \A c \in Callers : calls'[c].pc = calls[c].pc
    BY ManualMoves
  <1>2. manual[s] \in Manual /\ manual \in [Slots -> Manual] BY DEF TypeOK
  <1>3. \A w \in Workers : /\ worker'[w].locked = worker[w].locked
                           /\ worker'[w].pc \in Claimed => worker[w].pc \in Claimed
    <2>1. CASE UNCHANGED worker BY <2>1
    <2>2. CASE ManualCommands(s) BY <2>2, HaltMoves DEF ManualCommands, Claimed
    <2> QED BY <2>1, <2>2, ManualMoves
  <1>4. Keeps(manual[s]) BY DEF LockInv
  <1>5. CASE ManualStarts(s)
    <2>1. Free("manual") /\ manual'[s].holds = {"manual"} /\ manual'[s].pc = "command"
      BY <1>2, <1>5 DEF ManualStarts, Manual
    <2>2. OneHolder'
      BY <1>1, <1>3, <2>1 DEF LockInv, OneHolder, InCommand, Free
    <2> QED BY <1>1, <1>3, <2>1, <2>2 DEF LockInv, Keeps, Held, Claimed
  <1>6. CASE ManualCommands(s)
    <2>1. /\ Free("command") /\ manual'[s].holds = manual[s].holds \cup {"command"}
          /\ manual'[s].pc = "halt" /\ manual[s].pc = "command"
      BY <1>2, <1>6 DEF ManualCommands, Continues, Manual
    <2>2. OneHolder'
      BY <1>1, <1>3, <2>1 DEF LockInv, OneHolder, InCommand, Free
    <2> QED BY <1>1, <1>3, <1>4, <2>1, <2>2 DEF LockInv, Keeps, Held, Claimed
  <1>7. CASE ManualClaims(s)
    <2>1. /\ Free("control") /\ manual'[s].holds = manual[s].holds \cup {"control"}
          /\ manual'[s].pc \in {"vpn", "stop"} /\ manual[s].pc = "lock"
      BY <1>2, <1>7 DEF ManualClaims, MayLaunch, Continues, Manual
    <2>2. OneHolder'
      BY <1>1, <1>3, <2>1 DEF LockInv, OneHolder, InCommand, Free
    <2> QED BY <1>1, <1>3, <1>4, <2>1, <2>2 DEF LockInv, Keeps, Held, Claimed
  <1>8. CASE ~ManualStarts(s) /\ ~ManualCommands(s) /\ ~ManualClaims(s)
    <2>1. manual'[s].holds \subseteq manual[s].holds /\ Keeps(manual'[s])
      <3>1. CASE manual'[s] = NoManual
        BY <3>1 DEF NoManual, Keeps, Held, Claimed
      <3>2. ASSUME NEW end, manual'[s] = ManualUnwinding(s, end)
            PROVE  manual'[s].holds \subseteq manual[s].holds /\ Keeps(manual'[s])
        <4>1. manual[s].pc # "none" BY ManualMoves
        <4> QED BY <1>2, <3>2, <4>1 DEF ManualUnwinding, Manual, Keeps, Held, Claimed
      <3>3. CASE ManualHalted(s) /\ manual'[s] = [manual[s] EXCEPT !.pc = "fetch",
                                                    !.holds = {"manual"}, !.on = None]
        <4>1. manual[s].pc = "halt" BY <3>3 DEF ManualHalted, Continues
        <4> QED BY <1>2, <1>4, <3>3, <4>1 DEF Manual, Keeps, Held, Claimed
      <3>4. CASE ManualFetches(s) /\ manual'[s] = [manual[s] EXCEPT !.pc = "lock", !.game = game]
        <4>1. manual[s].pc = "fetch" BY <3>4 DEF ManualFetches, Continues
        <4> QED BY <1>2, <1>4, <3>4, <4>1 DEF Manual, Keeps, Held, Claimed
      <3>5. CASE ManualStopped(s) /\ manual'[s] = [manual[s] EXCEPT !.pc = "vpn"]
        <4>1. manual[s].pc = "stop" BY <3>5 DEF ManualStopped, Continues
        <4> QED BY <1>2, <1>4, <3>5, <4>1 DEF Manual, Keeps, Held, Claimed
      <3>6. CASE ManualPlays(s)
        <4>1. /\ manual[s].pc = "vpn" /\ manual'[s].pc \in {"adding", "play"}
              /\ manual'[s].holds = manual[s].holds
          BY <1>2, <3>6 DEF ManualPlays, Continues, Manual
        <4> QED BY <1>4, <4>1 DEF Keeps, Held, Claimed
      <3>7. CASE manual[s].pc = "play" /\ manual'[s] = [manual[s] EXCEPT !.pc = "adding"]
        BY <1>2, <1>4, <3>7 DEF Manual, Keeps, Held, Claimed
      <3>8. CASE manual'[s] = manual[s]
        BY <1>4, <3>8
      <3> QED BY <1>8, <3>1, <3>2, <3>3, <3>4, <3>5, <3>6, <3>7, <3>8, ManualMoves
    <2>2. \A t \in Slots : manual'[t].holds \subseteq manual[t].holds /\ Keeps(manual'[t])
      BY <1>1, <2>1 DEF LockInv
    <2>3. \A w \in Workers : /\ worker'[w].locked => worker[w].locked
                             /\ worker'[w].pc \in Claimed => worker'[w].locked
      BY <1>3 DEF LockInv
    <2>4. \A c \in Callers : calls'[c].pc \in {"halt", "drain"} => InCommand(c)
      BY <1>1 DEF InCommand
    <2> QED BY <2>2, <2>3, <2>4, LocksKept
  <1> QED BY <1>5, <1>6, <1>7, <1>8

\* A new worker has no lock, and every other is as it was.
LEMMA NewMoves ==
  ASSUME TypeOK, NewWorker
  PROVE  /\ task' \in Workers /\ worker[task'].pc = "none"
         /\ \A w \in Workers \ {task'} : worker'[w] = worker[w]
         /\ worker'[task'].pc = "begin" /\ worker'[task'].live /\ ~worker'[task'].locked
  <1>1. /\ task' \in Workers /\ worker[task'].pc = "none"
        /\ worker' = [worker EXCEPT ![task'] = [NoWorker EXCEPT !.pc = "begin", !.live = TRUE]]
    BY Creation, LaunchesAssumption
  <1>2. worker \in [Workers -> Worker] BY DEF TypeOK
  <1> QED BY <1>1, <1>2 DEF NoWorker

\* What a call, a request or the outside does to the workers and the launches.
LEMMA EpochMoves ==
  ASSUME TypeOK, NewEpoch
  PROVE  \A s \in Slots : /\ manual'[s].holds = manual[s].holds
                          /\ manual'[s].pc = manual[s].pc
                          /\ manual'[s] = [manual[s] EXCEPT !.live = FALSE]
  <1>1. manual \in [Slots -> Manual] BY DEF TypeOK
  <1>2. ASSUME NEW s \in Slots
        PROVE  /\ manual'[s].holds = manual[s].holds /\ manual'[s].pc = manual[s].pc
               /\ manual'[s] = [manual[s] EXCEPT !.live = FALSE]
    <2>1. manual'[s] = [manual[s] EXCEPT !.live = FALSE] BY DEF NewEpoch
    <2> QED BY <1>1, <2>1 DEF Manual
  <1> QED BY <1>2

LEMMA UnwindMoves ==
  ASSUME TypeOK, NEW s \in Slots, NEW end
  PROVE  LET m == ManualUnwinding(s, end) IN
         /\ m.holds = manual[s].holds
         /\ m.pc \in {"none", "unwind"}
         /\ m.pc = "none" <=> manual[s].pc = "none"
         /\ m.gen \in {manual[s].gen, 0} /\ m.live = manual[s].live
  <1>1. manual[s] \in Manual BY DEF TypeOK
  <1> QED BY <1>1 DEF ManualUnwinding, Manual

\* Workers that gain no lock and claim no game.
Idler == \A w \in Workers : /\ worker'[w].locked => worker[w].locked
                            /\ worker'[w].pc \in Claimed => worker'[w].locked

LEMMA IdlersKept ==
  ASSUME TypeOK, LockInv, UNCHANGED worker \/ StopWorker \/ NewWorker
  PROVE  Idler
  <1>1. CASE UNCHANGED worker BY <1>1 DEF Idler, LockInv
  <1>2. CASE StopWorker
    <2>1. \A w \in Workers : worker[w].locked \in BOOLEAN BY DEF TypeOK, Worker
    <2> QED BY <1>2, <2>1, HaltMoves DEF Idler, LockInv, Claimed
  <1>3. CASE NewWorker
    BY <1>3, NewMoves DEF Idler, LockInv, Claimed
  <1> QED BY <1>1, <1>2, <1>3

\* What the calls do to the calls.
LEMMA CallMoves ==
  ASSUME TypeOK, NEW c \in Callers, CallSteps(c) \/ StopAbandoned(c)
  PROVE  /\ \A d \in Callers \ {c} : calls'[d] = calls[d]
         /\ \/ calls'[c] = NoCall /\ UNCHANGED manual
            \/ /\ StopsWorker(c) /\ UNCHANGED manual /\ Free("command")
               /\ calls'[c] = [calls[c] EXCEPT !.pc = "halt", !.on = task]
            \/ /\ StopsManual(c) /\ calls[c].pc = "halt"
               /\ calls'[c] = [calls[c] EXCEPT !.pc = "drain", !.on = None,
                                               !.drains = {s \in Slots : Busy(s)}]
         /\ UNCHANGED worker \/ StopWorker \/ NewWorker
         /\ UNCHANGED <<closing, phase, edges, game>>
  <1>1. calls \in [Callers -> Call] BY DEF TypeOK
  <1>2. Returns(c) => /\ calls'[c] = NoCall
                      /\ \A d \in Callers \ {c} : calls'[d] = calls[d]
    BY <1>1 DEF Returns
  <1>3. CASE KickIsIdle(c) \/ CancelRefused(c) \/ KickArms(c) \/ Drained(c) \/ StopAbandoned(c)
    BY <1>2, <1>3 DEF KickIsIdle, CancelRefused, KickArms, Drained, StopAbandoned
  <1>4. CASE StopsWorker(c)
    BY <1>1, <1>4 DEF StopsWorker, Acquires
  <1>5. CASE StopsManual(c)
    BY <1>1, <1>5 DEF StopsManual, AtHalt
  <1> QED BY <1>3, <1>4, <1>5 DEF CallSteps

LEMMA CallLocks ==
  ASSUME TypeOK, LockInv, NEW c \in Callers, CallSteps(c) \/ StopAbandoned(c)
  PROVE  LockInv'
  <1>1. /\ \A d \in Callers \ {c} : calls'[d] = calls[d]
        /\ UNCHANGED worker \/ StopWorker \/ NewWorker
    BY CallMoves
  <1>2. Idler BY <1>1, IdlersKept
  <1>3. calls[c] \in Call BY DEF TypeOK
  <1>4. CASE calls'[c] = NoCall /\ UNCHANGED manual
    <2>1. \A d \in Callers : calls'[d].pc \in {"halt", "drain"} => InCommand(d)
      BY <1>1, <1>4 DEF InCommand, NoCall
    <2> QED BY <1>2, <1>4, <2>1, LocksKept DEF Idler, LockInv
  <1>5. CASE /\ UNCHANGED manual /\ Free("command")
             /\ calls'[c] = [calls[c] EXCEPT !.pc = "halt", !.on = task]
    <2>1. calls'[c].pc = "halt" BY <1>3, <1>5 DEF Call
    <2>2. OneHolder'
      BY <1>1, <1>2, <1>5, <2>1 DEF Idler, LockInv, OneHolder, InCommand, Free
    <2> QED BY <1>2, <1>5, <2>2 DEF LockInv, Keeps, Idler
  <1>6. CASE StopsManual(c) /\ calls[c].pc = "halt"
    <2>1. \A s \in Slots : manual'[s] = ManualUnwinding(s, "cancel")
      BY <1>6 DEF StopsManual
    <2>2. \A s \in Slots : manual'[s].holds \subseteq manual[s].holds /\ Keeps(manual'[s])
      BY <2>1, UnwindMoves DEF LockInv, Keeps, Held, Claimed
    <2>3. \A d \in Callers : calls'[d].pc \in {"halt", "drain"} => InCommand(d)
      BY <1>1, <1>6 DEF InCommand
    <2> QED BY <1>2, <2>2, <2>3, LocksKept DEF Idler
  <1> QED BY <1>4, <1>5, <1>6, CallMoves

LEMMA AskedLocks ==
  ASSUME TypeOK, LockInv, Asked
  PROVE  LockInv'
  <1>1. calls \in [Callers -> Call] /\ manual \in [Slots -> Manual] BY DEF TypeOK
  <1>2. UNCHANGED worker
    BY DEF Asked, Press, Kick, Stop, Cancel, Close
  <1>3. Idler BY <1>2, IdlersKept
  <1>4. ASSUME NEW s \in Slots, NEW T \in PressTargets, NEW join \in Joins, Press(s, T, join)
        PROVE  LockInv'
    <2>1. /\ manual'[s].holds = {} /\ manual'[s].pc = "queued" /\ UNCHANGED calls
          /\ \A t \in Slots \ {s} : manual'[t] = manual[t]
      BY <1>1, <1>4 DEF Press, NoManual
    <2>2. \A t \in Slots : manual'[t].holds \subseteq manual[t].holds /\ Keeps(manual'[t])
      BY <2>1 DEF LockInv, Keeps, Held, Claimed
    <2> QED BY <1>3, <2>1, <2>2, LocksKept DEF Idler, InCommand
  <1>5. ASSUME NEW c \in Callers,
               UNCHANGED manual \/ NewEpoch,
               UNCHANGED calls \/ \E call : Asks(c, call) /\ call.pc = "lock"
        PROVE  LockInv'
    <2>1. \A t \in Slots : manual'[t].holds \subseteq manual[t].holds /\ Keeps(manual'[t])
      BY <1>5, EpochMoves DEF LockInv, Keeps
    <2>2. \A d \in Callers : calls'[d].pc \in {"halt", "drain"} => InCommand(d)
      BY <1>1, <1>5 DEF InCommand, Asks
    <2> QED BY <1>3, <2>1, <2>2, LocksKept DEF Idler
  <1>6. ASSUME NEW c \in Callers, NEW T \in KickTargets, Kick(c, T) PROVE LockInv'
    <2>1. [NoCall EXCEPT !.op = "kick", !.pc = "lock", !.tvs = T].pc = "lock" BY DEF NoCall
    <2> QED BY <1>5, <1>6, <2>1 DEF Kick
  <1>7. ASSUME NEW c \in Callers, NEW r \in StopTargets, Stop(c, r) PROVE LockInv'
    <2>1. [NoCall EXCEPT !.op = "stop", !.pc = "lock", !.tv = r].pc = "lock" BY DEF NoCall
    <2> QED BY <1>5, <1>7, <2>1 DEF Stop
  <1>8. ASSUME NEW c \in Callers, Cancel(c) \/ Close(c) PROVE LockInv'
    <2>1. /\ [NoCall EXCEPT !.op = "cancel", !.pc = "lock"].pc = "lock"
          /\ [NoCall EXCEPT !.op = "close", !.pc = "lock"].pc = "lock"
      BY DEF NoCall
    <2> QED BY <1>5, <1>8, <2>1 DEF Cancel, Close
  <1> QED BY <1>4, <1>6, <1>7, <1>8 DEF Asked

LEMMA OutsideLocks ==
  ASSUME TypeOK, LockInv, Outside
  PROVE  LockInv'
  <1>1. CASE Crash \/ Exits
    <2>1. Down BY <1>1 DEF Crash, Exits
    <2>2. OneHolder'
      BY <2>1 DEF Down, OneHolder, InCommand, NoWorker, NoManual, NoCall
    <2> QED BY <2>1, <2>2 DEF Down, LockInv, Keeps, Held, Claimed, NoWorker, NoManual
  <1>2. CASE ~ (Crash \/ Exits)
    <2>1. UNCHANGED <<manual, calls>> /\ (UNCHANGED worker \/ NewWorker)
      BY <1>2 DEF Outside, BareStop, EngineExits, DeadlinePasses, NextGame, DiskFills, OtherPlay,
                  Restart
    <2> QED BY <2>1, IdlersKept, LocksKept DEF Idler, LockInv, InCommand
  <1> QED BY <1>1, <1>2

LEMMA LocksStep == ASSUME TypeOK, LockInv, [Next]_vars PROVE LockInv'
  <1>1. CASE Next BY <1>1, Kinds, WorkerLocks, ManualLocks, CallLocks, AskedLocks, OutsideLocks
  <1>2. CASE UNCHANGED vars
    BY <1>2 DEF vars, LockInv, OneHolder, InCommand
  <1> QED BY <1>1, <1>2

-----------------------------------------------------------------------------
(* Who can still launch, and who can cancel it.                            *)

Working(x) == x.pc \notin {"none", "unwind"}

\* Whoever has the command lock has stopped the worker, and only it makes a new one.
CommandIsAlone ==
    /\ \A c \in Callers : InCommand(c) => task = None
    /\ \A s \in Slots : "command" \in manual[s].holds => task = None

\* A call that waits for the launches it cancelled waits for all but those that have
\* come since and are in the queue.
AllAwaited ==
    \A c \in Callers : calls[c].pc = "drain" =>
        \A s \in Slots :
            manual[s].pc \notin {"none", "queued", "command"} => s \in calls[c].drains

OwnInv == WorkerOwned /\ CommandIsAlone /\ AllAwaited /\ (closing => phase = "up")

\* A step that makes no worker and stops none.
LEMMA OwnKept ==
  ASSUME OwnInv, task' = task,
         \A w \in Workers : Working(worker'[w]) => Working(worker[w]) /\ worker'[w].live,
         \A c \in Callers : calls'[c].pc \in {"halt", "drain"} => InCommand(c),
         \A s \in Slots : manual'[s].holds \subseteq manual[s].holds
  PROVE  WorkerOwned' /\ CommandIsAlone'
  BY DEF OwnInv, WorkerOwned, CommandIsAlone, Working, InCommand

LEMMA WorkerOwns ==
  ASSUME TypeOK, OwnInv, NEW w \in Workers, WorkerSteps(w)
  PROVE  OwnInv'
  <1>1. /\ \A v \in Workers \ {w} : worker'[v] = worker[v]
        /\ UNCHANGED <<task, manual, calls, closing, phase>>
    BY WorkerMoves
  <1>2. worker[w] \in Worker /\ worker \in [Workers -> Worker] BY DEF TypeOK
  <1>3. Working(worker'[w]) => Working(worker[w]) /\ worker'[w].live
    <2>1. WorkerClaims(w) => Working(worker[w]) /\ worker'[w].live = worker[w].live
      BY <1>2 DEF WorkerClaims, Resumes, Working, Worker
    <2>2. WorkerStopped(w) \/ WorkerPlays(w) \/ WorkerAdds(w) \/ WorkerFetches(w) \/ WorkerBegins(w)
            => Working(worker[w])
      BY DEF WorkerStopped, WorkerPlays, WorkerAdds, WorkerFetches, WorkerBegins, Resumes, Working
    <2>3. Working(worker[w]) => worker[w].live
      BY DEF OwnInv, WorkerOwned, Working
    <2>4. CASE worker'[w] = NoWorker \/ worker'[w].pc = "unwind"
      BY <2>4 DEF Working, NoWorker
    <2>5. CASE worker'[w] = [NoWorker EXCEPT !.pc = "sleep", !.live = TRUE]
               /\ worker[w].pc \in {"fetch", "lock"}
      BY <2>5 DEF NoWorker, Working
    <2>6. CASE worker'[w].live = worker[w].live /\ Working(worker[w])
      BY <2>3, <2>6
    <2>7. CASE worker'[w] \in {worker[w], [worker[w] EXCEPT !.pc = "fetch"],
                               [worker[w] EXCEPT !.pc = "lock", !.game = game],
                               [worker[w] EXCEPT !.pc = "vpn"],
                               [worker[w] EXCEPT !.pc = "play", !.gen = ctl'.gen],
                               [worker[w] EXCEPT !.pc = "adding"]}
               /\ Working(worker[w])
      BY <1>2, <2>3, <2>7 DEF Worker
    <2>8. CASE worker'[w] = [NoWorker EXCEPT !.pc = "unwind", !.end = "error",
                               !.live = worker[w].live, !.locked = worker[w].locked]
      BY <2>8 DEF NoWorker, Working
    <2> QED BY <2>1, <2>2, <2>4, <2>5, <2>6, <2>7, <2>8, WorkerMoves
  <1>4. \A v \in Workers : Working(worker'[v]) => Working(worker[v]) /\ worker'[v].live
    BY <1>1, <1>3 DEF OwnInv, WorkerOwned, Working
  <1> QED BY <1>1, <1>4, OwnKept DEF OwnInv, AllAwaited, InCommand

\* After stop_worker no worker can launch.
LEMMA HaltedAll ==
  ASSUME TypeOK, OwnInv, StopWorker
  PROVE  task' = None /\ \A w \in Workers : ~Working(worker'[w])
  BY HaltMoves DEF StopWorker, OwnInv, WorkerOwned, Working

\* A new worker is the only one, if nobody waits with the command lock.
LEMMA NewOwns ==
  ASSUME TypeOK, NewWorker, \A w \in Workers : ~Working(worker[w])
  PROVE  WorkerOwned'
  BY NewMoves DEF WorkerOwned, Working

LEMMA ManualOwns ==
  ASSUME TypeOK, LockInv, OwnInv, NEW s \in Slots, ManualSteps(s) \/ ManualFails(s, "cancel")
  PROVE  OwnInv'
  <1>1. /\ \A t \in Slots \ {s} : manual'[t] = manual[t]
        /\ \A c \in Callers : calls'[c].pc = calls[c].pc
        /\ UNCHANGED <<closing, phase>>
    BY ManualMoves
  <1>2. manual[s] \in Manual /\ manual \in [Slots -> Manual] /\ calls \in [Callers -> Call]
    BY DEF TypeOK
  <1>3. CASE ManualCommands(s)
    <2>1. /\ manual[s].pc = "command" /\ Free("command") /\ StopWorker /\ UNCHANGED calls
      BY <1>3 DEF ManualCommands, Continues
    <2>2. WorkerOwned' /\ task' = None
      BY <2>1, HaltedAll DEF WorkerOwned, Working
    <2>3. \A c \in Callers : ~InCommand(c)
      BY <2>1 DEF Free, InCommand
    <2>4. AllAwaited'
      BY <2>1, <2>3 DEF AllAwaited, InCommand
    <2> QED BY <1>1, <2>2, <2>4 DEF OwnInv, CommandIsAlone
  <1>4. CASE ~ManualCommands(s)
    <2>1. UNCHANGED <<worker, task>>
      BY <1>4, ManualMoves
    <2>2. CASE manual'[s] = NoManual /\ Drops(s)
      <3>1. /\ \A t \in Slots : manual'[t].holds \subseteq manual[t].holds
            /\ manual'[s].pc = "none"
        BY <1>1, <2>2 DEF NoManual
      <3>2. \A c \in Callers : calls'[c].drains = calls[c].drains \ {s}
        BY <1>2, <2>2 DEF Drops, Call
      <3>3. AllAwaited'
        BY <1>1, <3>1, <3>2 DEF OwnInv, AllAwaited
      <3>4. WorkerOwned' /\ CommandIsAlone'
        BY <1>1, <2>1, <3>1 DEF OwnInv, WorkerOwned, CommandIsAlone, InCommand
      <3> QED BY <1>1, <3>3, <3>4 DEF OwnInv
    <2>3. CASE /\ "command" \in manual'[s].holds => "command" \in manual[s].holds
               /\ manual'[s].pc \notin {"none", "queued", "command"}
                    => manual[s].pc \notin {"none", "queued", "command"}
               /\ UNCHANGED calls
      BY <1>1, <2>1, <2>3 DEF OwnInv, WorkerOwned, CommandIsAlone, InCommand, AllAwaited
    <2>4. ASSUME NEW end, manual[s].pc \in {"play", "adding"}, UNCHANGED calls,
                 manual'[s] = ManualUnwinding(s, end)
          PROVE  OwnInv'
      <3>1. manual'[s].holds = manual[s].holds
        BY <2>4, UnwindMoves
      <3> QED BY <2>3, <2>4, <3>1
    <2>5. CASE ManualStarts(s) /\ UNCHANGED calls
      <3>1. manual'[s].pc = "command" /\ manual'[s].holds = {"manual"}
        BY <1>2, <2>5 DEF Manual, ManualStarts
      <3> QED BY <2>3, <2>5, <3>1
    <2>6. CASE ManualHalted(s) /\ UNCHANGED calls
      <3>1. manual[s].pc = "halt" /\ manual'[s].holds = {"manual"}
        BY <1>2, <2>6 DEF Manual, ManualHalted, Continues
      <3> QED BY <2>3, <2>6, <3>1
    <2>7. CASE /\ ManualFetches(s) \/ ManualStopped(s) \/ ManualPlays(s)
               /\ UNCHANGED calls
      <3>1. manual[s].pc \in {"fetch", "stop", "vpn"} /\ manual'[s].holds = manual[s].holds
        BY <1>2, <2>7 DEF Manual, ManualFetches, ManualStopped, ManualPlays, Continues
      <3> QED BY <2>3, <2>7, <3>1
    <2>8. CASE ManualClaims(s) /\ UNCHANGED calls
      <3>1. /\ manual[s].pc = "lock"
            /\ manual'[s].holds = manual[s].holds \cup {"control"}
        BY <1>2, <2>8 DEF Manual, ManualClaims, MayLaunch, Continues
      <3> QED BY <2>3, <2>8, <3>1
    <2>9. CASE ManualAdds(s) /\ UNCHANGED calls
      <3>1. manual[s].pc \in {"play", "adding"} /\ manual'[s].holds = manual[s].holds
        BY <1>2, <2>9 DEF Manual, ManualAdds, Continues
      <3> QED BY <2>3, <2>9, <3>1
    <2>10. \/ manual'[s] = NoManual /\ Drops(s)
           \/ /\ UNCHANGED calls
              /\ \/ /\ manual[s].pc \in {"play", "adding"}
                    /\ \E end \in {"cancel", "error"} : manual'[s] = ManualUnwinding(s, end)
                 \/ ManualStarts(s) \/ ManualHalted(s) \/ ManualClaims(s)
                 \/ ManualFetches(s) \/ ManualStopped(s) \/ ManualPlays(s) \/ ManualAdds(s)
      BY <1>4, ManualMoves
    <2> QED BY <2>2, <2>4, <2>5, <2>6, <2>7, <2>8, <2>9, <2>10
  <1> QED BY <1>3, <1>4

LEMMA CallOwns ==
  ASSUME TypeOK, LockInv, OwnInv, NEW c \in Callers, CallSteps(c) \/ StopAbandoned(c)
  PROVE  OwnInv'
  <1>1. /\ \A d \in Callers \ {c} : calls'[d] = calls[d]
        /\ UNCHANGED <<closing, phase>>
    BY CallMoves
  <1>2. calls[c] \in Call /\ manual \in [Slots -> Manual] BY DEF TypeOK
  <1>3. CASE StopsWorker(c)
    <2>1. StopWorker /\ UNCHANGED manual /\ calls'[c].pc = "halt"
      BY <1>2, <1>3 DEF StopsWorker, TypeOK, Call
    <2>2. WorkerOwned' /\ task' = None
      BY <2>1, HaltedAll DEF WorkerOwned, Working
    <2>3. AllAwaited' BY <1>1, <2>1 DEF OwnInv, AllAwaited
    <2> QED BY <1>1, <2>2, <2>3 DEF OwnInv, CommandIsAlone
  <1>4. CASE StopsManual(c)
    <2>1. /\ UNCHANGED <<worker, task>> /\ calls[c].pc = "halt"
          /\ \A s \in Slots : manual'[s] = ManualUnwinding(s, "cancel")
          /\ calls'[c].pc = "drain" /\ calls'[c].drains = {s \in Slots : Busy(s)}
      BY <1>2, <1>4 DEF StopsManual, AtHalt, TypeOK, Call
    <2>2. \A s \in Slots : /\ manual'[s].holds = manual[s].holds
                           /\ manual'[s].pc \notin {"none", "queued", "command"} => Busy(s)
      BY <2>1, UnwindMoves DEF Busy
    <2>3. \A d \in Callers \ {c} : ~InCommand(d)
      BY <2>1 DEF LockInv, OneHolder, InCommand
    <2>4. AllAwaited'
      BY <1>1, <2>1, <2>2, <2>3 DEF AllAwaited, InCommand
    <2>5. WorkerOwned' /\ CommandIsAlone'
      BY <1>1, <2>1, <2>2 DEF OwnInv, WorkerOwned, CommandIsAlone, InCommand
    <2> QED BY <1>1, <2>4, <2>5 DEF OwnInv
  <1>5. CASE calls'[c] = NoCall /\ UNCHANGED manual
    <2>1. AllAwaited' BY <1>1, <1>5 DEF OwnInv, AllAwaited, NoCall
    <2>2. CASE UNCHANGED <<worker, task>>
      BY <1>1, <1>5, <2>1, <2>2, OwnKept
         DEF OwnInv, WorkerOwned, CommandIsAlone, InCommand, NoCall
    <2>3. CASE NewWorker
      <3>1. KickIsIdle(c) \/ KickArms(c)
        <4>1. ~ UNCHANGED worker BY <2>3, NewMoves
        <4>2. StopsWorker(c) => calls'[c].pc = "halt"
          BY <1>2 DEF StopsWorker, TypeOK, Call
        <4> QED BY <1>5, <4>1, <4>2 DEF CallSteps, StopAbandoned, CancelRefused, StopsManual,
                                        Drained, NoCall
      <3>2. CASE KickIsIdle(c)
        <4>1. /\ Free("command") BY <3>2 DEF KickIsIdle, Acquires
        <4>2. TaskDone
          <5>1. ~ UNCHANGED worker BY <2>3, NewMoves
          <5> QED BY <3>2, <5>1 DEF KickIsIdle
        <4>3. \A w \in Workers : ~Working(worker[w])
          BY <4>2, LaunchesAssumption
             DEF OwnInv, WorkerOwned, Working, TaskDone, LaunchesAssumption
        <4>4. WorkerOwned' BY <2>3, <4>3, NewOwns
        <4>5. CommandIsAlone'
          BY <1>1, <1>5, <4>1 DEF CommandIsAlone, InCommand, Free, NoCall
        <4> QED BY <1>1, <2>1, <4>4, <4>5 DEF OwnInv
      <3>3. CASE KickArms(c)
        <4>1. InCommand(c) BY <3>3 DEF KickArms, AtHalt, InCommand
        <4>2. task = None BY <4>1 DEF OwnInv, CommandIsAlone
        <4>3. \A w \in Workers : ~Working(worker[w])
          BY <4>2, LaunchesAssumption DEF OwnInv, WorkerOwned, Working, LaunchesAssumption
        <4>4. WorkerOwned' BY <2>3, <4>3, NewOwns
        <4>5. CommandIsAlone'
          BY <1>1, <1>5, <4>1 DEF LockInv, OneHolder, CommandIsAlone, InCommand, NoCall
        <4> QED BY <1>1, <2>1, <4>4, <4>5 DEF OwnInv
      <3> QED BY <3>1, <3>2, <3>3
    <2>4. UNCHANGED <<worker, task>> \/ NewWorker
      <3>1. ~StopsWorker(c)
        BY <1>2, <1>5 DEF StopsWorker, TypeOK, Call, NoCall
      <3> QED BY <3>1 DEF CallSteps, KickIsIdle, CancelRefused, KickArms, StopsManual, Drained,
                          StopAbandoned
    <2> QED BY <2>2, <2>3, <2>4
  <1> QED BY <1>3, <1>4, <1>5, CallMoves

LEMMA AskedOwns ==
  ASSUME TypeOK, OwnInv, Asked
  PROVE  OwnInv'
  <1>1. calls \in [Callers -> Call] /\ manual \in [Slots -> Manual] BY DEF TypeOK
  <1>2. /\ UNCHANGED <<worker, task>> /\ phase = "up" /\ UNCHANGED phase
    BY DEF Asked, Press, Kick, Stop, Cancel, Close, Idle
  <1>3. ASSUME \A t \in Slots : /\ manual'[t].holds \subseteq manual[t].holds
                                /\ manual'[t].pc = manual[t].pc \/ manual'[t].pc = "queued",
               \A d \in Callers : calls'[d] = calls[d] \/ calls'[d].pc = "lock"
        PROVE  OwnInv'
    <2>1. WorkerOwned' /\ CommandIsAlone'
      BY <1>2, <1>3 DEF OwnInv, WorkerOwned, CommandIsAlone, InCommand
    <2>2. AllAwaited'
      BY <1>3 DEF OwnInv, AllAwaited
    <2> QED BY <1>2, <2>1, <2>2 DEF OwnInv
  <1>4. ASSUME NEW s \in Slots, NEW T \in PressTargets, NEW join \in Joins, Press(s, T, join)
        PROVE  OwnInv'
    <2>1. /\ manual'[s].holds = {} /\ manual'[s].pc = "queued" /\ UNCHANGED calls
          /\ \A t \in Slots \ {s} : manual'[t] = manual[t]
      BY <1>1, <1>4 DEF Press, NoManual
    <2> QED BY <1>3, <2>1
  <1>5. ASSUME NEW c \in Callers, UNCHANGED manual \/ NewEpoch,
               UNCHANGED calls \/ \E call : Asks(c, call) /\ call.pc = "lock"
        PROVE  OwnInv'
    <2>1. \A t \in Slots : manual'[t].holds = manual[t].holds /\ manual'[t].pc = manual[t].pc
      BY <1>5, EpochMoves
    <2>2. \A d \in Callers : calls'[d] = calls[d] \/ calls'[d].pc = "lock"
      BY <1>1, <1>5 DEF Asks
    <2> QED BY <1>3, <2>1, <2>2
  <1>6. ASSUME NEW c \in Callers, NEW T \in KickTargets, Kick(c, T) PROVE OwnInv'
    <2>1. [NoCall EXCEPT !.op = "kick", !.pc = "lock", !.tvs = T].pc = "lock" BY DEF NoCall
    <2> QED BY <1>5, <1>6, <2>1 DEF Kick
  <1>7. ASSUME NEW c \in Callers, NEW r \in StopTargets, Stop(c, r) PROVE OwnInv'
    <2>1. [NoCall EXCEPT !.op = "stop", !.pc = "lock", !.tv = r].pc = "lock" BY DEF NoCall
    <2> QED BY <1>5, <1>7, <2>1 DEF Stop
  <1>8. ASSUME NEW c \in Callers, Cancel(c) \/ Close(c) PROVE OwnInv'
    <2>1. /\ [NoCall EXCEPT !.op = "cancel", !.pc = "lock"].pc = "lock"
          /\ [NoCall EXCEPT !.op = "close", !.pc = "lock"].pc = "lock"
      BY DEF NoCall
    <2> QED BY <1>5, <1>8, <2>1 DEF Cancel, Close
  <1> QED BY <1>4, <1>6, <1>7, <1>8 DEF Asked

LEMMA OutsideOwns ==
  ASSUME TypeOK, DownIsQuiet, LockInv, OwnInv, Outside
  PROVE  OwnInv'
  <1>1. CASE Crash \/ Exits
    <2>1. Down BY <1>1 DEF Crash, Exits
    <2> QED BY <2>1 DEF Down, OwnInv, WorkerOwned, CommandIsAlone, InCommand, AllAwaited,
                        NoWorker, NoManual, NoCall
  <1>2. CASE Restart
    <2>1. /\ phase = "down" /\ phase' = "up" /\ UNCHANGED <<manual, calls, closing>>
          /\ UNCHANGED <<task, worker>> \/ NewWorker
      BY <1>2 DEF Restart
    <2>2. WorkerOwned'
      BY <2>1, NewOwns DEF OwnInv, WorkerOwned, DownIsQuiet, Working
    <2>3. \A c \in Callers : ~InCommand(c)
      BY <2>1 DEF DownIsQuiet, InCommand
    <2>4. \A s \in Slots : "command" \in manual[s].holds => FALSE
      BY <2>1 DEF DownIsQuiet, LockInv, Keeps
    <2>5. CommandIsAlone' BY <2>1, <2>3, <2>4 DEF CommandIsAlone, InCommand
    <2>6. AllAwaited' BY <2>1, <2>3 DEF AllAwaited, InCommand
    <2> QED BY <2>1, <2>2, <2>5, <2>6 DEF OwnInv
  <1>3. CASE ~ (Crash \/ Exits \/ Restart)
    <2>1. UNCHANGED <<manual, calls, worker, task, phase, closing>>
      BY <1>3 DEF Outside, BareStop, EngineExits, DeadlinePasses, NextGame, DiskFills, OtherPlay
    <2> QED BY <2>1 DEF OwnInv, WorkerOwned, CommandIsAlone, InCommand, AllAwaited
  <1> QED BY <1>1, <1>2, <1>3

\* The invariant of the launches up to here.
TaskInv == AttemptInv /\ LockInv /\ OwnInv

LEMMA TaskInit == ASSUME LaunchesAssumption, Init PROVE TaskInv
  <1>1. TypeOK BY TypeInit
  <1>2. saved = Blank /\ disk = Blank /\ game = 0 BY DEF Init
  <1>3. AttemptInv
    BY <1>1, <1>2 DEF Init, AttemptInv, SavedIsOnDisk, NoFutureGame, DownIsQuiet, Blank
  <1>4. LockInv
    BY DEF Init, LockInv, OneHolder, InCommand, Keeps, Held, Claimed, NoWorker, NoManual, NoCall
  <1>5. OwnInv
    BY DEF Init, OwnInv, WorkerOwned, CommandIsAlone, InCommand, AllAwaited, NoWorker, NoManual,
           NoCall
  <1> QED BY <1>3, <1>4, <1>5 DEF TaskInv

LEMMA TaskStep == ASSUME TaskInv, [Next]_vars PROVE TaskInv'
  <1>1. AttemptInv' BY AttemptStep DEF TaskInv
  <1>2. TypeOK /\ DownIsQuiet /\ LockInv /\ OwnInv BY DEF TaskInv, AttemptInv
  <1>3. LockInv' BY <1>2, LocksStep
  <1>4. CASE Next
    <2>1. OwnInv'
      BY <1>2, <1>4, Kinds, WorkerOwns, ManualOwns, CallOwns, AskedOwns, OutsideOwns
    <2> QED BY <1>1, <1>3, <2>1 DEF TaskInv
  <1>5. CASE UNCHANGED vars
    <2>1. OwnInv'
      BY <1>2, <1>5 DEF vars, OwnInv, WorkerOwned, CommandIsAlone, InCommand, AllAwaited
    <2> QED BY <1>1, <1>3, <2>1 DEF TaskInv
  <1> QED BY <1>4, <1>5

\* Types, attempts, locks and who awaits whom are as the invariant says.
THEOREM TasksCorrect == Spec => []TaskInv
  <1>1. Init => TaskInv BY TaskInit, LaunchesAssumption
  <1>2. TaskInv /\ [Next]_vars => TaskInv' BY TaskStep
  <1> QED BY <1>1, <1>2, PTL DEF Spec

\* Every worker that can still launch is the one the next command cancels.
THEOREM TasksOwnedProved == Spec => []TasksOwned
  <1>1. TaskInv => TasksOwned BY DEF TaskInv, AttemptInv, OwnInv, TasksOwned
  <1> QED BY <1>1, TasksCorrect, PTL

\* When a cancel, a Stop or a close is through, no launch is under way.
THEOREM ReturnsQuietProved == Spec => ReturnsQuiet
  <1>1. ASSUME TaskInv, NEW c \in Callers, AtDrain(c)
        PROVE  /\ \A w \in Workers : worker[w].pc \in {"none", "unwind"}
               /\ \A s \in Slots : manual[s].pc \in {"none", "queued", "command"}
    <2>1. task = None
      BY <1>1 DEF TaskInv, OwnInv, CommandIsAlone, InCommand, AtDrain
    <2>2. \A w \in Workers : worker[w].pc \in {"none", "unwind"}
      BY <1>1, <2>1, LaunchesAssumption
         DEF TaskInv, OwnInv, WorkerOwned, LaunchesAssumption
    <2>3. \A s \in Slots : manual[s].pc \in {"none", "queued", "command"}
      BY <1>1 DEF TaskInv, OwnInv, AllAwaited, AtDrain
    <2> QED BY <2>2, <2>3
  <1>2. TaskInv => \A c \in Callers : AtDrain(c) /\ calls'[c].pc = "idle" =>
           /\ \A w \in Workers : worker[w].pc \in {"none", "unwind"}
           /\ \A s \in Slots : manual[s].pc \in {"none", "queued", "command"}
    BY <1>1
  <1> QED BY <1>2, TasksCorrect, PTL DEF Spec, ReturnsQuiet

\* Once the service closes, only a cancel or a Stop that was called before closes the
\* window in the file: every other write looks at closing first.
THEOREM CloseKeepsWindowProved == Spec => CloseKeepsWindow
  <1> DEFINE Kept == closing /\ disk.until = "open" /\ disk'.until = "none" =>
               \E c \in Callers : calls[c].op \in {"cancel", "stop"} /\ calls[c].pc = "drain"
  <1>1. ASSUME TypeOK, [Next]_vars PROVE Kept
    <2> SUFFICES ASSUME closing, disk.until = "open", disk'.until = "none", disk' # disk
                 PROVE  \E c \in Callers :
                          calls[c].op \in {"cancel", "stop"} /\ calls[c].pc = "drain"
      OBVIOUS
    <2>1. ASSUME NEW w \in Workers, WorkerSteps(w) PROVE FALSE
      BY <2>1 DEF WorkerSteps, WorkerBegins, WorkerReturns, WorkerFetches, WorkerDefers,
                  WorkerClaims, WorkerStopped, WorkerPlays, WorkerAdds, WorkerPlayed, WorkerFails,
                  WorkerUnwinds, WorkerHandles, Unexpired, Active, PersistFails, record
    <2>2. ASSUME NEW s \in Slots, ManualSteps(s) \/ ManualFails(s, "cancel") PROVE FALSE
      BY <2>2 DEF ManualSteps, ManualStarts, ManualCommands, ManualHalted, ManualFetches,
                  ManualJoined, ManualClaims, MayLaunch, ManualStopped, ManualPlays, ManualAdds,
                  ManualPlayed, ManualFails, ManualUnwinds, ManualHandles, Current, PersistFails,
                  record
    <2>3. ASSUME NEW c \in Callers, CallSteps(c) \/ StopAbandoned(c)
          PROVE  calls[c].op \in {"cancel", "stop"} /\ calls[c].pc = "drain"
      BY <2>3 DEF CallSteps, KickIsIdle, StopsWorker, CancelRefused, KickArms, StopsManual, Drained,
                  StopAbandoned, AtDrain, PersistFails, record, TypeOK, Call
    <2>4. CASE Asked
      BY <2>4 DEF Asked, Press, Kick, Stop, Cancel, Close, record
    <2>5. CASE Outside
      <3>1. DeadlinePasses
        BY <2>5 DEF Outside, BareStop, EngineExits, NextGame, DiskFills, OtherPlay, Crash, Exits,
                    Down, Restart, record
      <3>2. disk'.until = "over"
        BY <3>1 DEF DeadlinePasses, TypeOK, Saved
      <3> QED BY <3>2
    <2>6. CASE UNCHANGED vars BY <2>6 DEF vars
    <2> QED BY <1>1, <2>1, <2>2, <2>3, <2>4, <2>5, <2>6, Kinds
  <1> QED BY <1>1, TypeCorrect, PTL DEF Spec, CloseKeepsWindow

-----------------------------------------------------------------------------
(* Generations.                                                            *)

\* manual_current ends its loop here.
Terminal(g) == g = ctl.gen \/ edges[g] = g

\* The generations that following the edges from g visits, and those it can end at.
Following(S) == \A g \in S : Terminal(g) \/ edges[g] \in S
Visited(g) == {h \in Generations : \A S \in SUBSET Generations : g \in S /\ Following(S) => h \in S}
Ends(g) == {h \in Visited(g) : Terminal(h)}

\* Rebase is what it says, also where the edges should form a circle: a function that
\* obeys its equation exists.
LEMMA RebaseIs ==
  ASSUME TypeOK
  PROVE  \A g \in Generations : Rebase[g] = IF Terminal(g) THEN g ELSE Rebase[edges[g]]
  <1>1. edges \in [Generations -> Generations] BY DEF TypeOK
  <1>2. \A g \in Generations : g \in Visited(g) BY DEF Visited
  <1>3. ASSUME NEW g \in Generations PROVE Following(Visited(g)) /\ Visited(g) \subseteq Generations
    BY <1>1 DEF Visited, Following
  <1>4. ASSUME NEW g \in Generations, Terminal(g) PROVE Ends(g) = {g}
    <2>1. Following({g}) BY <1>4 DEF Following
    <2>2. Visited(g) = {g} BY <1>2, <2>1 DEF Visited
    <2> QED BY <1>4, <2>2 DEF Ends
  <1>5. ASSUME NEW g \in Generations, ~Terminal(g) PROVE Ends(g) = Ends(edges[g])
    <2>1. edges[g] \in Generations BY <1>1
    <2>2. Visited(edges[g]) \subseteq Visited(g)
      BY <1>5 DEF Visited, Following
    <2>3. Following({g} \cup Visited(edges[g]))
      BY <1>2, <1>3, <2>1 DEF Following
    <2>4. Visited(g) \subseteq {g} \cup Visited(edges[g])
      <3> DEFINE S == {g} \cup Visited(edges[g])
      <3>1. S \in SUBSET Generations /\ g \in S /\ Following(S) BY <1>3, <2>1, <2>3
      <3> HIDE DEF S
      <3>2. Visited(g) \subseteq S BY <3>1 DEF Visited
      <3> QED BY <3>2 DEF S
    <2> QED BY <1>5, <2>2, <2>4 DEF Ends
  <1> DEFINE f == [g \in Generations |-> CHOOSE h : h \in Ends(g)]
  <1>6. f = [g \in Generations |-> IF g = ctl.gen \/ edges[g] = g THEN g ELSE f[edges[g]]]
    <2>1. ASSUME NEW g \in Generations
          PROVE  f[g] = IF g = ctl.gen \/ edges[g] = g THEN g ELSE f[edges[g]]
      <3>1. CASE Terminal(g) BY <1>4, <3>1 DEF Terminal
      <3>2. CASE ~Terminal(g)
        <4>1. edges[g] \in Generations BY <1>1
        <4> QED BY <1>5, <3>2, <4>1 DEF Terminal
      <3> QED BY <3>1, <3>2
    <2> QED BY <2>1
  <1> HIDE DEF f
  <1>7. Rebase = [g \in Generations |-> IF g = ctl.gen \/ edges[g] = g THEN g ELSE Rebase[edges[g]]]
    BY <1>6 DEF Rebase
  <1> QED BY <1>7 DEF Terminal

\* Edges lead from generations of the past, and from none that a launch has owned since
\* it got the manual lock.
Generational(m) ==
    m.pc \in Held =>
        /\ m.base <= m.gen /\ m.gen <= ctl.gen
        /\ \A g \in Generations : g >= m.base => edges[g] = g

\* What a launch that has claimed its game knows: the record names it, and the TVs
\* that play, if nobody has asked for anything since, are its own or play the game.
WorkerKnows(x) ==
    x.pc \in Claimed =>
        /\ saved.attempted = x.game /\ x.gen <= ctl.gen
        /\ x.pc # "adding" /\ x.gen = ctl.gen => ctl.tvs \subseteq saved.tvs
ManualKnows(m) ==
    m.pc \in Claimed =>
        /\ saved.attempted = m.game
        /\ m.pc \in {"stop", "vpn"} /\ m.gen = ctl.gen =>
             ctl.tvs \subseteq m.tvs \/ ctl.src = m.game
        /\ m.pc = "play" /\ m.gen = ctl.gen => ctl.tvs \subseteq m.tvs
        /\ m.pc \in {"play", "adding"} => m.tvs \subseteq m.want

KnowInv ==
    /\ \A g \in Generations : g >= ctl.gen => edges[g] = g
    /\ \A s \in Slots : Generational(manual[s]) /\ ManualKnows(manual[s])
    /\ \A w \in Workers : WorkerKnows(worker[w])

\* A launch that is current and holds the manual lock owns the current generation.
LEMMA CurrentIsLatest ==
  ASSUME TypeOK, KnowInv, NEW s \in Slots, Current(s), manual[s].pc \in Held
  PROVE  manual[s].gen = ctl.gen
  <1>1. manual[s].gen \in Generations /\ manual[s].base <= manual[s].gen /\ ctl.gen \in Generations
    BY DEF TypeOK, Manual, KnowInv, Generational
  <1>2. edges[manual[s].gen] = manual[s].gen
    BY <1>1, LaunchesAssumption DEF KnowInv, Generational, LaunchesAssumption, Generations
  <1>3. Rebase[manual[s].gen] = manual[s].gen
    BY <1>1, <1>2, RebaseIs DEF Terminal
  <1> QED BY <1>3 DEF Current

\* The controller after a step of somebody else: a new generation, or nothing new
\* plays.
CtlMoves == \/ ctl' = ctl
            \/ ctl'.gen > ctl.gen
            \/ ctl'.gen = ctl.gen /\ ctl'.tvs = {}

\* A task that goes on waiting, or ends.
SameWorker(x, y) ==
    y.pc \in Claimed => y.pc = x.pc /\ y.game = x.game /\ y.gen = x.gen
SameManual(m, n) ==
    /\ n.pc \in Held => m.pc \in Held /\ n.base = m.base /\ n.gen = m.gen
    /\ n.pc \in Claimed =>
         n.pc = m.pc /\ n.game = m.game /\ n.tvs = m.tvs /\ n.want = m.want

LEMMA CtlType == TypeOK => /\ ctl.gen \in Nat /\ ctl.gen \in Generations
                           /\ \A s \in Slots : manual[s].gen \in Nat /\ manual[s].base \in Nat
                           /\ \A w \in Workers : worker[w].gen \in Nat
                           /\ \A g \in Generations : g \in Nat
  <1> SUFFICES ASSUME TypeOK
               PROVE  /\ ctl.gen \in Nat /\ ctl.gen \in Generations
                      /\ \A s \in Slots : manual[s].gen \in Nat /\ manual[s].base \in Nat
                      /\ \A w \in Workers : worker[w].gen \in Nat
                      /\ \A g \in Generations : g \in Nat
    OBVIOUS
  <1>1. \A g \in Generations : g \in Nat
    BY LaunchesAssumption DEF LaunchesAssumption, Generations
  <1>2. ctl.gen \in Generations BY DEF TypeOK
  <1>3. \A s \in Slots : manual[s].gen \in Generations /\ manual[s].base \in Generations
    BY DEF TypeOK, Manual
  <1>4. \A w \in Workers : worker[w].gen \in Generations BY DEF TypeOK, Worker
  <1> QED BY <1>1, <1>2, <1>3, <1>4

LEMMA EdgesKept ==
  ASSUME TypeOK, TypeOK', KnowInv, CtlMoves,
         \A g \in Generations : edges'[g] = edges[g] \/ edges'[g] = g,
         NEW m, NEW n, Generational(m), SameManual(m, n), m.gen \in Nat
  PROVE  n.pc \in Held =>
           /\ n.base <= n.gen /\ n.gen <= ctl'.gen
           /\ \A g \in Generations : g >= n.base => edges'[g] = g
  BY CtlType DEF CtlMoves, SameManual, Generational, TypeOK

LEMMA KnowsKept ==
  ASSUME TypeOK, TypeOK', KnowInv, CtlMoves,
         saved'.attempted = saved.attempted,
         \A w \in Workers : SameWorker(worker[w], worker'[w]),
         saved'.tvs = saved.tvs \/ \A w \in Workers : worker'[w].pc \notin Claimed,
         \A s \in Slots : SameManual(manual[s], manual'[s]),
         \A g \in Generations : edges'[g] = edges[g] \/ edges'[g] = g
  PROVE  KnowInv'
  <1>1. ctl.gen \in Nat /\ ctl'.gen \in Nat /\ \A g \in Generations : g \in Nat
    BY CtlType DEF TypeOK
  <1>2. \A g \in Generations : g >= ctl'.gen => edges'[g] = g
    BY <1>1 DEF KnowInv, CtlMoves
  <1>3. ASSUME NEW s \in Slots PROVE Generational(manual[s])' /\ ManualKnows(manual[s])'
    <2>1. manual[s].gen \in Nat BY CtlType
    <2>2. Generational(manual[s]) /\ ManualKnows(manual[s]) /\ SameManual(manual[s], manual'[s])
      BY DEF KnowInv
    <2>3. Generational(manual[s])' BY <2>1, <2>2, EdgesKept DEF Generational
    <2>4. ManualKnows(manual[s])'
      BY <1>1, <2>1, <2>2 DEF ManualKnows, SameManual, CtlMoves, Generational, Held, Claimed
    <2> QED BY <2>3, <2>4
  <1>4. ASSUME NEW w \in Workers PROVE WorkerKnows(worker[w])'
    <2>1. worker[w].gen \in Nat BY CtlType
    <2>2. WorkerKnows(worker[w]) /\ SameWorker(worker[w], worker'[w])
      BY DEF KnowInv
    <2> QED BY <1>1, <2>1, <2>2 DEF WorkerKnows, SameWorker, CtlMoves
  <1> QED BY <1>2, <1>3, <1>4 DEF KnowInv

\* Writes that say how a launch went.
LEMMA StatusWrites ==
  ASSUME TypeOK, NEW status, saved' = With(status) \/ saved' = saved \/ Persist(With(status))
                             \/ UNCHANGED record
  PROVE  saved'.attempted = saved.attempted /\ saved'.tvs = saved.tvs
  BY DEF TypeOK, Saved, With, Persist, record

\* Whoever has the controller's lock is the only launch that has claimed a game.
LEMMA WorkerAlone ==
  ASSUME LockInv, NEW w \in Workers, worker[w].locked \/ Free("control")
  PROVE  /\ \A s \in Slots : manual[s].pc \notin Claimed
         /\ \A v \in Workers \ {w} : worker[v].pc \notin Claimed
  BY DEF LockInv, OneHolder, Keeps, Free

LEMMA ManualAlone ==
  ASSUME LockInv, NEW s \in Slots, "control" \in manual[s].holds \/ Free("control")
  PROVE  /\ \A t \in Slots \ {s} : manual[t].pc \notin Claimed
         /\ \A v \in Workers : worker[v].pc \notin Claimed
  <1>1. \A t \in Slots : "control" \in manual[t].holds => t = s \/ ~Free("control")
    BY DEF Free
  <1>2. \A t \in Slots : "control" \in manual[t].holds => t = s
    BY <1>1 DEF LockInv, OneHolder
  <1>3. \A t \in Slots : manual[t].pc \in Claimed => "control" \in manual[t].holds
    BY DEF LockInv, Keeps
  <1> QED BY <1>2, <1>3 DEF LockInv, OneHolder, Free

\* A step of the launch that has the lock: nobody else has claimed anything.
LEMMA OwnerKeeps ==
  ASSUME TypeOK, TypeOK', KnowInv, ctl'.gen >= ctl.gen, NEW S \in SUBSET Slots,
         \A s \in S : manual'[s] = manual[s] /\ manual[s].pc \notin Claimed,
         UNCHANGED edges
  PROVE  /\ \A g \in Generations : g >= ctl'.gen => edges'[g] = g
         /\ \A s \in S : Generational(manual[s])' /\ ManualKnows(manual[s])'
  <1>1. ctl.gen \in Nat /\ ctl'.gen \in Nat /\ \A g \in Generations : g \in Nat
    BY CtlType DEF TypeOK
  <1>2. \A s \in S : manual[s].gen \in Nat /\ manual[s].base \in Nat
    BY CtlType
  <1> QED BY <1>1, <1>2 DEF KnowInv, Generational, ManualKnows

LEMMA WorkerLearns ==
  ASSUME TypeOK, LockInv, KnowInv, NEW w \in Workers, WorkerSteps(w)
  PROVE  KnowInv'
  <1>1. TypeOK' BY WorkerTypes, LaunchesAssumption
  <1>2. /\ \A v \in Workers \ {w} : worker'[v] = worker[v]
        /\ UNCHANGED <<manual, edges>>
    BY WorkerMoves
  <1>3. /\ worker[w] \in Worker /\ worker \in [Workers -> Worker] /\ saved \in Saved /\ ctl \in Ctl
        /\ ctl.gen \in Nat /\ worker[w].gen \in Nat
    BY CtlType DEF TypeOK, Ctl
  <1>4. WorkerKnows(worker[w]) /\ (worker[w].pc \in Claimed => worker[w].locked)
    BY DEF KnowInv, LockInv
  <1>5. ASSUME worker[w].locked \/ Free("control"), ctl'.gen >= ctl.gen, WorkerKnows(worker[w])'
        PROVE  KnowInv'
    <2>1. /\ \A s \in Slots : manual[s].pc \notin Claimed
          /\ \A v \in Workers \ {w} : worker[v].pc \notin Claimed
      BY <1>5, WorkerAlone
    <2>2. /\ \A g \in Generations : g >= ctl'.gen => edges'[g] = g
          /\ \A s \in Slots : Generational(manual[s])' /\ ManualKnows(manual[s])'
      BY <1>1, <1>2, <1>5, <2>1, OwnerKeeps
    <2>3. \A v \in Workers : WorkerKnows(worker[v])'
      BY <1>2, <1>5, <2>1 DEF WorkerKnows
    <2> QED BY <2>2, <2>3 DEF KnowInv
  <1>6. CASE WorkerClaims(w)
    <2>1. /\ Free("control") /\ ctl.tvs \subseteq saved.tvs
          /\ saved' = [saved EXCEPT !.attempted = worker[w].game]
          /\ ctl' = ctl \/ ctl' = Stopped(ctl)
          /\ worker'[w].gen = ctl'.gen /\ worker'[w].game = worker[w].game
      BY <1>3, <1>6 DEF WorkerClaims, Resumes, Persist, Worker
    <2>2. saved'.attempted = worker[w].game /\ saved'.tvs = saved.tvs
      BY <1>3, <2>1 DEF Saved
    <2>3. ctl'.gen >= ctl.gen /\ ctl'.tvs \subseteq ctl.tvs
      BY <1>3, <2>1 DEF Stopped
    <2>4. WorkerKnows(worker[w])'
      BY <1>3, <2>1, <2>2, <2>3 DEF WorkerKnows, Stopped
    <2> QED BY <1>5, <2>1, <2>3, <2>4
  <1>7. CASE WorkerStopped(w)
    <2>1. /\ worker[w].pc = "stop" /\ worker'[w].pc = "vpn" /\ UNCHANGED <<saved, ctl>>
          /\ worker'[w].gen = worker[w].gen /\ worker'[w].game = worker[w].game
      BY <1>3, <1>7 DEF WorkerStopped, Resumes, Moves, Worker, record
    <2>2. WorkerKnows(worker[w])' BY <1>4, <2>1 DEF WorkerKnows, Claimed
    <2> QED BY <1>3, <1>4, <1>5, <2>1, <2>2 DEF Claimed
  <1>8. CASE WorkerPlays(w)
    <2>1. /\ worker[w].pc = "vpn" /\ UNCHANGED saved /\ worker[w].gen = ctl.gen
          /\ ctl' = [ctl EXCEPT !.gen = @ + 1]
          /\ worker'[w].gen = ctl'.gen /\ worker'[w].game = worker[w].game
      BY <1>3, <1>8 DEF WorkerPlays, Resumes, PlayBegins, Worker, record
    <2>2. ctl'.gen = ctl.gen + 1 /\ ctl'.tvs = ctl.tvs
      BY <1>3, <2>1 DEF Ctl
    <2>3. WorkerKnows(worker[w])' BY <1>3, <1>4, <2>1, <2>2 DEF WorkerKnows, Claimed
    <2> QED BY <1>3, <1>4, <1>5, <2>1, <2>2, <2>3 DEF Claimed
  <1>9. CASE WorkerAdds(w)
    <2>1. /\ worker[w].pc \in {"play", "adding"} /\ UNCHANGED saved
          /\ worker'[w].pc = "adding"
          /\ worker'[w].gen = worker[w].gen /\ worker'[w].game = worker[w].game
      BY <1>3, <1>9 DEF WorkerAdds, Resumes, Moves, Worker, record
    <2>2. ctl'.gen = ctl.gen
      BY <1>3, <1>9 DEF WorkerAdds, Switches, Adds, Ctl
    <2>3. WorkerKnows(worker[w])' BY <1>3, <1>4, <2>1, <2>2 DEF WorkerKnows, Claimed
    <2> QED BY <1>3, <1>4, <1>5, <2>1, <2>2, <2>3 DEF Claimed
  <1>10. CASE ~ (WorkerClaims(w) \/ WorkerStopped(w) \/ WorkerPlays(w) \/ WorkerAdds(w))
    <2>1. worker'[w].pc \notin Claimed
      <3>1. CASE worker'[w] = NoWorker BY <3>1 DEF NoWorker, Claimed
      <3>2. CASE worker'[w] = [NoWorker EXCEPT !.pc = "sleep", !.live = TRUE]
        BY <3>2 DEF NoWorker, Claimed
      <3>3. CASE worker'[w] = [NoWorker EXCEPT !.pc = "unwind", !.end = "error",
                                 !.live = worker[w].live, !.locked = worker[w].locked]
        BY <3>3 DEF NoWorker, Claimed
      <3>4. CASE worker'[w] = [worker[w] EXCEPT !.pc = "fetch"]
                 \/ worker'[w] = [worker[w] EXCEPT !.pc = "lock", !.game = game]
        BY <1>3, <3>4 DEF Worker, Claimed
      <3> QED BY <1>10, <3>1, <3>2, <3>3, <3>4, WorkerMoves
    <2>2. UNCHANGED ctl
      BY <1>10 DEF WorkerSteps, WorkerBegins, WorkerReturns, WorkerFetches, WorkerDefers,
                   WorkerPlayed, WorkerFails, WorkerUnwinds
    <2>3. UNCHANGED record \/ \E status : Persist(With(status))
      BY <1>10 DEF WorkerSteps, WorkerBegins, WorkerReturns, WorkerFetches, WorkerDefers,
                   WorkerPlayed, WorkerFails, WorkerUnwinds, WorkerHandles, PersistFails
    <2>4. saved'.attempted = saved.attempted /\ saved'.tvs = saved.tvs
      BY <2>3, StatusWrites
    <2>5. \A v \in Workers : SameWorker(worker[v], worker'[v])
      BY <1>2, <2>1 DEF SameWorker
    <2>6. \A s \in Slots : SameManual(manual[s], manual'[s])
      BY <1>2 DEF SameManual, Held
    <2> QED BY <1>1, <1>2, <2>2, <2>4, <2>5, <2>6, KnowsKept DEF CtlMoves
  <1> QED BY <1>6, <1>7, <1>8, <1>9, <1>10

\* The edges after a launch: those there were, or none.
LEMMA EdgesAfter ==
  ASSUME TypeOK, edges' = edges \/ edges' = NoEdges
  PROVE  \A g \in Generations : edges'[g] = edges[g] \/ edges'[g] = g
  BY DEF NoEdges

LEMMA ManualLearns ==
  ASSUME TypeOK, LockInv, OwnInv, KnowInv, NEW s \in Slots,
         ManualSteps(s) \/ ManualFails(s, "cancel")
  PROVE  KnowInv'
  <1>1. TypeOK' BY ManualTypes, LaunchesAssumption
  <1>2. \A t \in Slots \ {s} : manual'[t] = manual[t]
    BY ManualMoves
  <1>3. /\ manual[s] \in Manual /\ manual \in [Slots -> Manual] /\ saved \in Saved /\ ctl \in Ctl
        /\ ctl.gen \in Nat /\ ctl.gen \in Generations
        /\ manual[s].gen \in Nat /\ manual[s].base \in Nat /\ \A g \in Generations : g \in Nat
    BY CtlType DEF TypeOK, Ctl
  <1>4. /\ Generational(manual[s]) /\ ManualKnows(manual[s]) /\ Keeps(manual[s])
        /\ \A g \in Generations : g >= ctl.gen => edges[g] = g
    BY DEF KnowInv, LockInv
  <1>5. ASSUME UNCHANGED worker, UNCHANGED edges, ctl'.gen >= ctl.gen,
               "control" \in manual[s].holds \/ Free("control"),
               Generational(manual[s])', ManualKnows(manual[s])'
        PROVE  KnowInv'
    <2>1. /\ \A t \in Slots \ {s} : manual[t].pc \notin Claimed
          /\ \A v \in Workers : worker[v].pc \notin Claimed
      BY <1>5, ManualAlone
    <2>2. /\ \A g \in Generations : g >= ctl'.gen => edges'[g] = g
          /\ \A t \in Slots \ {s} : Generational(manual[t])' /\ ManualKnows(manual[t])'
      BY <1>1, <1>2, <1>5, <2>1, OwnerKeeps
    <2>3. \A v \in Workers : WorkerKnows(worker[v])'
      BY <1>5, <2>1 DEF WorkerKnows
    <2> QED BY <1>5, <2>2, <2>3 DEF KnowInv
  <1>6. ASSUME SameManual(manual[s], manual'[s]), UNCHANGED ctl,
               saved'.attempted = saved.attempted,
               \/ UNCHANGED worker /\ saved'.tvs = saved.tvs
               \/ \A w \in Workers : worker'[w].pc \notin Claimed,
               edges' = edges \/ edges' = NoEdges
        PROVE  KnowInv'
    <2>1. \A t \in Slots : SameManual(manual[t], manual'[t])
      BY <1>2, <1>6 DEF SameManual, Held
    <2>2. \A w \in Workers : SameWorker(worker[w], worker'[w])
      BY <1>6 DEF SameWorker
    <2>3. \A g \in Generations : edges'[g] = edges[g] \/ edges'[g] = g
      BY <1>6, EdgesAfter
    <2> QED BY <1>1, <1>6, <2>1, <2>2, <2>3, KnowsKept DEF CtlMoves
  <1>7. CASE ManualStarts(s)
    <2>1. /\ manual'[s].pc = "command" /\ manual'[s].base = ctl.gen /\ manual'[s].gen = ctl.gen
          /\ UNCHANGED <<saved, edges, ctl, worker>>
      BY <1>3, <1>7 DEF ManualStarts, Manual, record
    <2>2. Generational(manual[s])' /\ ManualKnows(manual[s])'
      BY <1>3, <1>4, <2>1 DEF Generational, ManualKnows, Claimed
    <2>3. \A t \in Slots : Generational(manual[t])' /\ ManualKnows(manual[t])'
      BY <1>2, <2>1, <2>2 DEF KnowInv, Generational, ManualKnows
    <2> QED BY <2>1, <2>3 DEF KnowInv, WorkerKnows
  <1>8. CASE ManualCommands(s)
    <2>1. /\ manual[s].pc = "command" /\ manual'[s].pc = "halt"
          /\ manual'[s].base = manual[s].base /\ manual'[s].gen = manual[s].gen
          /\ StopWorker /\ UNCHANGED <<saved, edges, ctl>>
      BY <1>3, <1>8 DEF ManualCommands, Continues, Manual, record
    <2>2. \A w \in Workers : worker'[w].pc \notin Claimed
      BY <2>1, HaltedAll DEF Working, Claimed
    <2> QED BY <1>6, <2>1, <2>2 DEF SameManual, Held, Claimed
  <1>9. CASE ManualHalted(s)
    <2>1. /\ manual[s].pc = "halt" /\ manual'[s].pc = "fetch"
          /\ manual'[s].base = manual[s].base /\ manual'[s].gen = manual[s].gen
          /\ saved' = [With("checking") EXCEPT !.tvs = manual[s].tvs]
          /\ UNCHANGED <<edges, ctl, worker>>
      BY <1>3, <1>9 DEF ManualHalted, Continues, Manual, Persist
    <2>2. saved'.attempted = saved.attempted BY <1>3, <2>1 DEF With, Saved
    <2>3. task = None
      BY <1>4, <2>1 DEF OwnInv, CommandIsAlone, Keeps
    <2>4. \A w \in Workers : worker[w].pc \notin Claimed
      BY <2>3, LaunchesAssumption DEF OwnInv, WorkerOwned, LaunchesAssumption, Claimed
    <2> QED BY <1>6, <2>1, <2>2, <2>4 DEF SameManual, Held, Claimed
  <1>10. CASE ManualFetches(s)
    <2>1. /\ manual[s].pc = "fetch" /\ manual'[s].pc = "lock"
          /\ manual'[s].base = manual[s].base /\ manual'[s].gen = manual[s].gen
          /\ UNCHANGED <<saved, edges, ctl, worker>>
      BY <1>3, <1>10 DEF ManualFetches, Continues, Manual, record
    <2> QED BY <1>6, <2>1 DEF SameManual, Held, Claimed
  <1>11. CASE ManualJoined(s)
    <2>1. Free("control") /\ UNCHANGED <<worker, ctl>> /\ ManualEnds(s)
      BY <1>11 DEF ManualJoined, MayLaunch, Continues
    <2>2. /\ \A t \in Slots \ {s} : manual[t].pc \notin Claimed
          /\ \A v \in Workers : worker[v].pc \notin Claimed
      BY <2>1, ManualAlone
    <2>3. manual'[s] = NoManual /\ (edges' = edges \/ edges' = NoEdges)
      BY <1>3, <2>1 DEF ManualEnds
    <2>4. \A g \in Generations : edges'[g] = edges[g] \/ edges'[g] = g
      BY <2>3, EdgesAfter
    <2>5. \A g \in Generations : g >= ctl'.gen => edges'[g] = g
      BY <1>4, <2>1, <2>4
    <2>6. \A t \in Slots : Generational(manual[t])'
      BY <1>2, <2>1, <2>3, <2>4 DEF KnowInv, Generational, NoManual, Held, Claimed
    <2>7. /\ \A t \in Slots : ManualKnows(manual[t])'
          /\ \A v \in Workers : WorkerKnows(worker[v])'
      BY <1>2, <2>1, <2>2, <2>3 DEF ManualKnows, WorkerKnows, NoManual, Claimed
    <2> QED BY <2>5, <2>6, <2>7 DEF KnowInv
  <1>12. CASE ManualClaims(s)
    <2>1. PICK same \in BOOLEAN :
            /\ MayLaunch(s, same)
            /\ LET idle == same \/ ctl.src = 0
               IN  /\ ctl' = IF idle THEN ctl ELSE Stopped(ctl)
                   /\ manual' = [manual EXCEPT ![s].pc = IF idle THEN "vpn" ELSE "stop",
                                               ![s].holds = @ \cup {"control"},
                                               ![s].gen = IF idle THEN @ ELSE ctl'.gen]
      BY <1>12 DEF ManualClaims
    <2>2. /\ Free("control") /\ manual[s].pc = "lock" /\ Current(s)
          /\ same => ctl.src = manual[s].game
          /\ ctl.tvs \subseteq manual[s].tvs \/ same
          /\ saved' = [saved EXCEPT !.attempted = manual[s].game]
          /\ UNCHANGED <<worker, edges>>
      BY <1>12, <2>1 DEF ManualClaims, MayLaunch, Continues, Persist
    <2>3. saved'.attempted = manual[s].game
      BY <1>3, <2>2 DEF Saved
    <2>4. manual[s].gen = ctl.gen
      BY <2>2, CurrentIsLatest DEF Held
    <2>5. /\ manual'[s].pc \in {"vpn", "stop"} /\ manual'[s].game = manual[s].game
          /\ manual'[s].base = manual[s].base /\ manual'[s].tvs = manual[s].tvs
      BY <1>3, <2>1 DEF Manual
    <2>6. CASE same \/ ctl.src = 0
      <3>1. ctl' = ctl /\ manual'[s].gen = ctl.gen
        BY <1>3, <2>1, <2>4, <2>6 DEF Manual
      <3>2. Generational(manual[s])'
        BY <1>4, <2>2, <2>4, <2>5, <3>1 DEF Generational, Held
      <3>3. ManualKnows(manual[s])'
        BY <2>2, <2>3, <2>5, <3>1 DEF ManualKnows, Claimed
      <3> QED BY <1>3, <1>5, <2>2, <3>1, <3>2, <3>3
    <2>7. CASE ~ (same \/ ctl.src = 0)
      <3>1. ctl' = Stopped(ctl) /\ manual'[s].gen = ctl'.gen
        BY <1>3, <2>1, <2>7 DEF Manual
      <3>2. ctl'.gen = ctl.gen + 1 /\ ctl'.tvs = {}
        BY <3>1 DEF Stopped
      <3>3. Generational(manual[s])'
        BY <1>3, <1>4, <2>2, <2>4, <2>5, <3>1, <3>2 DEF Generational, Held
      <3>4. ManualKnows(manual[s])'
        BY <2>3, <2>5, <3>2 DEF ManualKnows, Claimed
      <3> QED BY <1>3, <1>5, <2>2, <3>2, <3>3, <3>4
    <2> QED BY <2>6, <2>7
  <1>13. CASE ManualStopped(s)
    <2>1. /\ manual[s].pc = "stop" /\ manual'[s].pc = "vpn"
          /\ manual'[s].base = manual[s].base /\ manual'[s].gen = manual[s].gen
          /\ manual'[s].game = manual[s].game /\ manual'[s].tvs = manual[s].tvs
          /\ UNCHANGED <<saved, edges, ctl, worker>>
      BY <1>3, <1>13 DEF ManualStopped, Continues, Manual, record
    <2>2. Generational(manual[s])' /\ ManualKnows(manual[s])'
      BY <1>4, <2>1 DEF Generational, ManualKnows, Held, Claimed
    <2>3. "control" \in manual[s].holds BY <1>4, <2>1 DEF Keeps, Claimed
    <2> QED BY <1>3, <1>5, <2>1, <2>2, <2>3
  <1>14. CASE ManualPlays(s)
    <2>1. /\ manual[s].pc = "vpn" /\ Current(s)
          /\ manual'[s].pc = IF ctl.src = manual[s].game THEN "adding" ELSE "play"
          /\ manual'[s].base = manual[s].base /\ manual'[s].gen = ctl'.gen
          /\ manual'[s].game = manual[s].game /\ manual'[s].tvs = manual[s].tvs
          /\ manual'[s].want = manual[s].tvs \cup ctl.tvs
          /\ ctl' = [ctl EXCEPT !.gen = @ + 1]
          /\ UNCHANGED <<saved, edges, worker>>
      BY <1>3, <1>14 DEF ManualPlays, Continues, PlayBegins, Manual, record
    <2>2. manual[s].gen = ctl.gen
      BY <2>1, CurrentIsLatest DEF Held, Claimed
    <2>3. ctl'.gen = ctl.gen + 1 /\ ctl'.tvs = ctl.tvs
      BY <1>3, <2>1 DEF Ctl
    <2>4. Generational(manual[s])'
      BY <1>3, <1>4, <2>1, <2>2, <2>3 DEF Generational, Held, Claimed
    <2>5. ManualKnows(manual[s])'
      BY <1>4, <2>1, <2>2, <2>3 DEF ManualKnows, Claimed
    <2>6. "control" \in manual[s].holds BY <1>4, <2>1 DEF Keeps, Claimed
    <2> QED BY <1>3, <1>5, <2>1, <2>3, <2>4, <2>5, <2>6
  <1>15. CASE ManualAdds(s)
    <2>1. /\ manual[s].pc \in {"play", "adding"} /\ manual'[s].pc = "adding"
          /\ manual'[s].base = manual[s].base /\ manual'[s].gen = manual[s].gen
          /\ manual'[s].game = manual[s].game /\ manual'[s].tvs = manual[s].tvs
          /\ manual'[s].want = manual[s].want
          /\ UNCHANGED <<saved, edges, worker>>
      BY <1>3, <1>15 DEF ManualAdds, Continues, Manual, record
    <2>2. ctl'.gen = ctl.gen
      BY <1>3, <1>15 DEF ManualAdds, Switches, Adds, Ctl
    <2>3. Generational(manual[s])' /\ ManualKnows(manual[s])'
      BY <1>4, <2>1, <2>2 DEF Generational, ManualKnows, Held, Claimed
    <2>4. "control" \in manual[s].holds BY <1>4, <2>1 DEF Keeps, Claimed
    <2> QED BY <1>3, <1>5, <2>1, <2>2, <2>3, <2>4
  <1>16. CASE ManualPlayed(s)
    <2>1. /\ manual[s].pc = "adding" /\ manual'[s] = NoManual /\ UNCHANGED <<worker, ctl>>
          /\ Persist(With("started")) /\ manual[s].gen = ctl.gen
      BY <1>3, <1>16 DEF ManualPlayed, Continues, Plays
    <2>2. saved'.attempted = saved.attempted /\ saved'.tvs = saved.tvs
      BY <2>1, StatusWrites
    <2>3. \A g \in Generations : g >= ctl.gen => edges'[g] = g
      <3>1. CASE edges' = NoEdges BY <3>1 DEF NoEdges
      <3>2. CASE edges' = [g \in Generations |->
                             IF g \in manual[s].base .. manual[s].gen - 1 THEN manual[s].gen
                             ELSE edges[g]]
        BY <1>3, <1>4, <2>1, <3>2
      <3> QED BY <1>16, <3>1, <3>2 DEF ManualPlayed
    <2>4. \A t \in Slots \ {s} : manual[t].pc \notin Held
      BY <1>4, <2>1 DEF LockInv, OneHolder, Keeps, Held, Claimed
    <2>5. \A t \in Slots : Generational(manual[t])'
      BY <1>2, <2>1, <2>4 DEF Generational, NoManual, Held, Claimed
    <2>6. /\ \A t \in Slots : ManualKnows(manual[t])'
          /\ \A v \in Workers : WorkerKnows(worker[v])'
      BY <1>2, <2>1, <2>2 DEF KnowInv, ManualKnows, WorkerKnows, NoManual, Claimed
    <2> QED BY <2>1, <2>3, <2>5, <2>6 DEF KnowInv
  <1>17. ASSUME NEW end \in {"cancel", "error"},
                ManualFails(s, end) \/ (ManualUnwinds(s) /\ end = manual[s].end)
         PROVE  KnowInv'
    <2>1. UNCHANGED <<ctl, worker>>
      BY <1>17 DEF ManualFails, ManualUnwinds
    <2>2. CASE ManualHandles(s, end)
      <3>1. manual'[s].pc = "none" /\ (edges' = edges \/ edges' = NoEdges)
        BY <1>3, <2>2 DEF ManualHandles, ManualEnds, NoManual
      <3>2. saved' = With("ended") \/ Persist(With("ended")) \/ UNCHANGED record
        BY <2>2 DEF ManualHandles, PersistFails, record
      <3>3. saved'.attempted = saved.attempted /\ saved'.tvs = saved.tvs
        BY <3>2, StatusWrites
      <3> QED BY <1>6, <2>1, <3>1, <3>3 DEF SameManual, Held, Claimed
    <2>3. CASE /\ manual' = [manual EXCEPT ![s] = ManualUnwinding(s, end)]
               /\ UNCHANGED <<saved, disk, edges, calls>>
      <3>1. manual'[s].pc \in {"none", "unwind"}
        BY <1>3, <2>3, UnwindMoves
      <3> QED BY <1>6, <2>1, <2>3, <3>1 DEF SameManual, Held, Claimed
    <2> QED BY <1>17, <2>2, <2>3 DEF ManualFails, ManualUnwinds
  <1> QED
    <2>1. manual[s].end \in {"cancel", "error"} BY <1>3 DEF Manual
    <2> QED BY <1>7, <1>8, <1>9, <1>10, <1>11, <1>12, <1>13, <1>14, <1>15, <1>16, <1>17, <2>1
            DEF ManualSteps

\* A Stop takes a new generation, or finds nothing to stop.
LEMMA StopMoves ==
  ASSUME TypeOK, NEW r, ctl' = UserStopped(r) \/ ctl' = Stopped(ctl)
  PROVE  CtlMoves /\ ctl'.gen >= ctl.gen
  <1>1. ctl \in Ctl /\ ctl.gen \in Nat BY CtlType DEF TypeOK, Ctl
  <1>2. Stopped(ctl).gen = ctl.gen + 1 BY <1>1 DEF Stopped
  <1>3. [ctl EXCEPT !.gen = @ + 1, !.tvs = @ \ {r}].gen = ctl.gen + 1 BY <1>1 DEF Ctl
  <1>4. ctl' \in {ctl, Stopped(ctl), [ctl EXCEPT !.gen = @ + 1, !.tvs = @ \ {r}]}
    BY DEF UserStopped
  <1>5. CASE ctl' = ctl BY <1>1, <1>5 DEF CtlMoves
  <1>6. CASE ctl'.gen = ctl.gen + 1
    <2>1. ctl'.gen > ctl.gen BY <1>1, <1>6
    <2> QED BY <1>1, <1>6, <2>1 DEF CtlMoves
  <1> QED BY <1>2, <1>3, <1>4, <1>5, <1>6

LEMMA CallLearns ==
  ASSUME TypeOK, LockInv, OwnInv, KnowInv, NEW c \in Callers, CallSteps(c) \/ StopAbandoned(c)
  PROVE  KnowInv'
  <1>1. TypeOK' BY CallTypes, LaunchesAssumption
  <1>2. saved \in Saved BY DEF TypeOK
  <1>3. \A g \in Generations : edges'[g] = edges[g] BY CallMoves
  <1>4. \A s \in Slots : SameManual(manual[s], manual'[s])
    <2>1. CASE UNCHANGED manual BY <2>1 DEF SameManual, Held
    <2>2. CASE StopsManual(c)
      <3>1. \A s \in Slots : manual'[s] = ManualUnwinding(s, "cancel")
        BY <2>2 DEF StopsManual
      <3>2. \A s \in Slots : manual'[s].pc \in {"none", "unwind"}
        BY <3>1, UnwindMoves
      <3> QED BY <3>2 DEF SameManual, Held, Claimed
    <2> QED BY <2>1, <2>2, CallMoves
  <1>5. \A w \in Workers : SameWorker(worker[w], worker'[w])
    <2>1. CASE UNCHANGED worker BY <2>1 DEF SameWorker
    <2>2. CASE StopWorker BY <2>2, HaltedAll DEF SameWorker, Working, Claimed
    <2>3. CASE NewWorker
      <3>1. worker'[task'].pc \notin Claimed BY <2>3, NewMoves DEF Claimed
      <3> QED BY <2>3, <3>1, NewMoves DEF SameWorker
    <2> QED BY <2>1, <2>2, <2>3, CallMoves
  <1>6. CtlMoves
    <2>1. UNCHANGED ctl \/ ctl' = UserStopped(calls[c].tv)
      BY DEF CallSteps, KickIsIdle, StopsWorker, CancelRefused, KickArms, StopsManual, Drained,
             StopAbandoned
    <2> QED BY <2>1, StopMoves DEF CtlMoves
  <1>7. /\ saved'.attempted = saved.attempted
        /\ saved'.tvs = saved.tvs \/ \A w \in Workers : worker'[w].pc \notin Claimed
    <2>1. CASE KickArms(c) /\ ~UNCHANGED saved
      <3>1. /\ saved' = [saved EXCEPT !.status = "checking", !.until = "open",
                                      !.tvs = calls[c].tvs]
            /\ NewWorker /\ InCommand(c)
        BY <2>1 DEF KickArms, AtHalt, Persist, PersistFails, record, InCommand
      <3>2. saved'.attempted = saved.attempted BY <1>2, <3>1 DEF Saved
      <3>3. task = None BY <3>1 DEF OwnInv, CommandIsAlone
      <3>4. \A w \in Workers : worker[w].pc \notin Claimed
        BY <3>3, LaunchesAssumption DEF OwnInv, WorkerOwned, LaunchesAssumption, Claimed
      <3>5. \A w \in Workers : worker'[w].pc \notin Claimed
        BY <3>1, <3>4, NewMoves DEF Claimed
      <3> QED BY <3>2, <3>5
    <2>2. CASE UNCHANGED saved \/ Persist(With("ended"))
      BY <2>2, StatusWrites
    <2>3. UNCHANGED saved \/ Persist(With("ended")) \/ KickArms(c)
      BY DEF CallSteps, KickIsIdle, StopsWorker, CancelRefused, StopsManual, Drained,
             StopAbandoned, PersistFails, record
    <2> QED BY <2>1, <2>2, <2>3
  <1> QED BY <1>1, <1>3, <1>4, <1>5, <1>6, <1>7, KnowsKept

LEMMA AskedLearns ==
  ASSUME TypeOK, KnowInv, Asked
  PROVE  KnowInv'
  <1>1. TypeOK' BY AskedTypes, LaunchesAssumption
  <1>2. manual \in [Slots -> Manual] BY DEF TypeOK
  <1>3. UNCHANGED <<saved, worker, edges>>
    BY DEF Asked, Press, Kick, Stop, Cancel, Close, record
  <1>4. CtlMoves
    <2>1. UNCHANGED ctl \/ \E r \in StopTargets : ctl' = UserStopped(r)
      BY DEF Asked, Press, Kick, Stop, Cancel, Close
    <2> QED BY <2>1, StopMoves DEF CtlMoves
  <1>5. \A s \in Slots : SameManual(manual[s], manual'[s])
    <2>1. ASSUME NEW s \in Slots, NEW T \in PressTargets, NEW join \in Joins, Press(s, T, join)
          PROVE  \A t \in Slots : SameManual(manual[t], manual'[t])
      <3>1. manual'[s].pc = "queued" /\ \A t \in Slots \ {s} : manual'[t] = manual[t]
        BY <1>2, <2>1 DEF Press, NoManual
      <3> QED BY <3>1 DEF SameManual, Held, Claimed
    <2>2. CASE NewEpoch
      <3>1. ASSUME NEW s \in Slots PROVE SameManual(manual[s], manual'[s])
        <4>1. manual'[s] = [manual[s] EXCEPT !.live = FALSE] /\ manual[s] \in Manual
          BY <1>2, <2>2, EpochMoves
        <4> QED BY <4>1 DEF Manual, SameManual, Held
      <3> QED BY <3>1
    <2>3. CASE UNCHANGED manual BY <2>3 DEF SameManual, Held
    <2> QED BY <2>1, <2>2, <2>3 DEF Asked, Kick, Stop, Cancel, Close
  <1> QED BY <1>1, <1>3, <1>4, <1>5, KnowsKept DEF SameWorker

LEMMA OutsideLearns ==
  ASSUME TypeOK, DownIsQuiet, KnowInv, Outside
  PROVE  KnowInv'
  <1>1. TypeOK' BY OutsideTypes, LaunchesAssumption
  <1>2. saved \in Saved /\ ctl \in Ctl /\ ctl.gen \in Nat BY CtlType DEF TypeOK, Ctl
  <1>3. CASE Crash \/ Exits
    <2>1. Down BY <1>3 DEF Crash, Exits
    <2> QED BY <2>1 DEF Down, KnowInv, NoEdges, NoManual, NoWorker, Generational, ManualKnows,
                        WorkerKnows, Held, Claimed
  <1>4. CASE Restart
    <2>1. /\ phase = "down" /\ UNCHANGED <<manual, edges, ctl>>
          /\ UNCHANGED worker \/ NewWorker
      BY <1>4 DEF Restart
    <2>2. \A w \in Workers : worker'[w].pc \notin Claimed
      BY <2>1, NewMoves DEF DownIsQuiet, Claimed
    <2>3. \A s \in Slots : manual'[s].pc \notin Held
      BY <2>1 DEF DownIsQuiet, Held, Claimed
    <2> QED BY <2>1, <2>2, <2>3 DEF KnowInv, Generational, ManualKnows, WorkerKnows, Held
  <1>5. CASE ~ (Crash \/ Exits \/ Restart)
    <2>1. UNCHANGED <<worker, manual, edges>>
      BY <1>5 DEF Outside, BareStop, EngineExits, DeadlinePasses, NextGame, DiskFills, OtherPlay
    <2>2. saved'.attempted = saved.attempted /\ saved'.tvs = saved.tvs
      BY <1>2, <1>5 DEF Outside, BareStop, EngineExits, DeadlinePasses, NextGame, DiskFills,
                        OtherPlay, record, Saved
    <2>3. CtlMoves
      <3>1. CASE BareStop BY <3>1, StopMoves DEF BareStop
      <3>2. CASE EngineExits BY <1>2, <3>2 DEF EngineExits, CtlMoves, Ctl
      <3>3. CASE \E T \in OtherTargets : OtherPlay(T) BY <1>2, <3>3 DEF OtherPlay, CtlMoves
      <3>4. CASE UNCHANGED ctl BY <3>4 DEF CtlMoves
      <3> QED BY <1>5, <3>1, <3>2, <3>3, <3>4 DEF Outside, DeadlinePasses, NextGame, DiskFills
    <2> QED BY <1>1, <2>1, <2>2, <2>3, KnowsKept DEF SameWorker, SameManual, Held
  <1> QED BY <1>3, <1>4, <1>5

LEMMA KnowInit == ASSUME Init PROVE KnowInv
  BY DEF Init, KnowInv, NoEdges, NoManual, NoWorker, Generational, ManualKnows, WorkerKnows, Held,
         Claimed

LEMMA KnowStep == ASSUME TaskInv, KnowInv, [Next]_vars PROVE KnowInv'
  <1>1. TypeOK /\ DownIsQuiet /\ LockInv /\ OwnInv BY DEF TaskInv, AttemptInv
  <1>2. CASE Next
    BY <1>1, <1>2, Kinds, WorkerLearns, ManualLearns, CallLearns, AskedLearns, OutsideLearns
  <1>3. CASE UNCHANGED vars
    BY <1>3 DEF vars, KnowInv, Generational, ManualKnows, WorkerKnows
  <1> QED BY <1>2, <1>3

\* A launch that has claimed its game knows what its checks have shown for as long as
\* nobody asks for anything else.
THEOREM LaunchCorrect == Spec => [](TaskInv /\ KnowInv)
  <1>1. Init => KnowInv BY KnowInit
  <1>2. TaskInv /\ KnowInv /\ [Next]_vars => KnowInv' BY KnowStep
  <1> QED BY <1>1, <1>2, TasksCorrect, PTL DEF Spec

-----------------------------------------------------------------------------
(* What a launch does to the TVs.                                          *)

\* A TV that loses its stream lost it to no launch that was not asked for it.
Untouched ==
    \A t \in ctl.tvs \ ctl'.tvs :
        calls' = calls /\ phase' = phase =>
            /\ \A w \in Workers : worker'[w] # worker[w] => t \in saved.tvs
            /\ \A s \in Slots : manual'[s] # manual[s] => t \in manual[s].tvs

LEMMA WorkerSpares ==
  ASSUME TypeOK, KnowInv, NEW w \in Workers, WorkerSteps(w)
  PROVE  Untouched
  <1>1. /\ \A v \in Workers \ {w} : worker'[v] = worker[v]
        /\ UNCHANGED manual
    BY WorkerMoves
  <1>2. ctl \in Ctl /\ WorkerKnows(worker[w]) BY DEF TypeOK, Ctl, KnowInv
  <1>3. ctl.tvs \subseteq ctl'.tvs \/ ctl.tvs \subseteq saved.tvs
    <2>1. CASE WorkerClaims(w) BY <2>1 DEF WorkerClaims
    <2>2. CASE WorkerPlays(w) BY <1>2, <2>2 DEF WorkerPlays, PlayBegins, Ctl
    <2>3. CASE WorkerAdds(w)
      BY <1>2, <2>3 DEF WorkerAdds, Resumes, Switches, Adds, WorkerKnows, Claimed, Ctl
    <2>4. CASE UNCHANGED ctl BY <2>4
    <2> QED BY <2>1, <2>2, <2>3, <2>4
            DEF WorkerSteps, WorkerBegins, WorkerReturns, WorkerFetches, WorkerDefers,
                WorkerStopped, WorkerPlayed, WorkerFails, WorkerUnwinds
  <1> QED BY <1>1, <1>3 DEF Untouched

LEMMA ManualSpares ==
  ASSUME TypeOK, KnowInv, NEW s \in Slots, ManualSteps(s) \/ ManualFails(s, "cancel")
  PROVE  Untouched
  <1>1. \A t \in Slots \ {s} : manual'[t] = manual[t] BY ManualMoves
  <1>2. ctl \in Ctl /\ ManualKnows(manual[s]) BY DEF TypeOK, Ctl, KnowInv
  <1>3. CASE UNCHANGED ctl BY <1>3 DEF Untouched
  <1>4. CASE ctl.tvs \subseteq ctl'.tvs BY <1>4 DEF Untouched
  <1>5. CASE UNCHANGED worker /\ ctl.tvs \subseteq manual[s].tvs BY <1>1, <1>5 DEF Untouched
  <1>6. CASE ManualClaims(s) BY <1>3, <1>5, <1>6 DEF ManualClaims, MayLaunch
  <1>7. CASE ManualPlays(s) BY <1>2, <1>4, <1>7 DEF ManualPlays, PlayBegins, Ctl
  <1>8. CASE ManualAdds(s)
    BY <1>2, <1>4, <1>5, <1>8 DEF ManualAdds, Continues, Switches, Adds, ManualKnows, Claimed, Ctl
  <1> QED BY <1>3, <1>6, <1>7, <1>8
          DEF ManualSteps, ManualStarts, ManualCommands, ManualHalted, ManualFetches, ManualJoined,
              ManualStopped, ManualPlayed, ManualFails, ManualUnwinds

\* Whatever else takes a TV is no step of a launch.
LEMMA OthersSpare ==
  ASSUME TypeOK, OwnInv,
         \/ \E c \in Callers : CallSteps(c) \/ StopAbandoned(c)
         \/ Asked \/ Outside \/ UNCHANGED vars
  PROVE  Untouched
  <1>1. CASE UNCHANGED ctl BY <1>1 DEF Untouched
  <1>2. CASE UNCHANGED <<worker, manual>> BY <1>2 DEF Untouched
  <1>3. CASE phase' # phase BY <1>3 DEF Untouched
  <1>4. CASE \E c \in Callers : CallSteps(c) \/ StopAbandoned(c)
    BY <1>1, <1>2, <1>4 DEF CallSteps, KickIsIdle, StopsWorker, CancelRefused, KickArms,
                            StopsManual, Drained, StopAbandoned
  <1>5. CASE Asked
    BY <1>1, <1>2, <1>5 DEF Asked, Press, Kick, Stop, Cancel, Close
  <1>6. CASE Crash \/ Exits
    <2>1. phase = "up" /\ phase' = "down" BY <1>6 DEF Crash, Exits, Down, OwnInv
    <2> QED BY <1>3, <2>1
  <1>7. CASE Outside /\ ~ (Crash \/ Exits)
    BY <1>1, <1>2, <1>7 DEF Outside, BareStop, EngineExits, DeadlinePasses, NextGame, DiskFills,
                            OtherPlay, Restart
  <1>8. CASE UNCHANGED vars BY <1>1, <1>8 DEF vars
  <1> QED BY <1>4, <1>5, <1>6, <1>7, <1>8

\* No step of a launch takes the stream from a TV that the launch was not asked for,
\* whatever happened between its check, its Stop, the VPN and its Play.
THEOREM OthersUntouchedProved == Spec => OthersUntouched
  <1>1. TaskInv /\ KnowInv /\ [Next]_vars => Untouched
    BY Kinds, WorkerSpares, ManualSpares, OthersSpare DEF TaskInv, AttemptInv
  <1>2. TaskInv /\ KnowInv /\ [Next]_vars =>
          [\A t \in ctl.tvs \ ctl'.tvs :
             calls' = calls /\ phase' = phase =>
                 /\ \A w \in Workers : worker'[w] # worker[w] => t \in saved.tvs
                 /\ \A s \in Slots : manual'[s] # manual[s] => t \in manual[s].tvs]_vars
    BY <1>1 DEF Untouched
  <1> QED BY <1>2, LaunchCorrect, PTL DEF Spec, OthersUntouched

\* What a task that ends and leaves "started" behind has shown.
OnTVs ==
    saved'.status = "started" /\ saved # saved' /\ phase = "up" =>
        /\ \A s \in Slots : Busy(s) /\ manual'[s].pc = "none" =>
             manual[s].tvs \subseteq ctl.tvs /\ ctl.src = saved'.attempted
        /\ \A w \in Workers : worker[w].pc = "adding" /\ worker'[w].pc = "none" =>
             saved.tvs \subseteq ctl.tvs /\ ctl.src = saved'.attempted

\* The three writes that end a launch tell their results apart.
LEMMA Statuses ==
  ASSUME TypeOK
  PROVE  /\ \A status \in {"checking", "started", "ended"} :
              /\ With(status).status = status /\ With(status).attempted = saved.attempted
              /\ \A T : [With(status) EXCEPT !.tvs = T].status = status
              /\ \A g : /\ [With(status) EXCEPT !.attempted = g].status = status
                        /\ [With(status) EXCEPT !.attempted = g].attempted = g
         /\ Blank.status = "ended"
  BY DEF TypeOK, Saved, With, Blank

LEMMA WorkerShows ==
  ASSUME TypeOK, KnowInv, NEW w \in Workers, WorkerSteps(w)
  PROVE  OnTVs
  <1>1. /\ \A v \in Workers \ {w} : worker'[v] = worker[v]
        /\ UNCHANGED manual
    BY WorkerMoves
  <1>2. saved \in Saved /\ WorkerKnows(worker[w]) BY DEF TypeOK, KnowInv
  <1>3. CASE UNCHANGED saved BY <1>3 DEF OnTVs
  <1>4. CASE saved'.status # "started" BY <1>4 DEF OnTVs
  <1>5. CASE worker[w].pc # "adding" BY <1>1, <1>5 DEF OnTVs, Busy
  <1>6. CASE WorkerPlayed(w)
    <2>1. /\ ctl.src = worker[w].game /\ ctl.tvs = saved.tvs /\ saved' = With("started")
          /\ worker[w].pc = "adding"
      BY <1>6 DEF WorkerPlayed, Plays, Persist, Resumes
    <2>2. saved'.attempted = worker[w].game
      BY <1>2, <2>1, Statuses DEF WorkerKnows, Claimed
    <2> QED BY <1>1, <2>1, <2>2 DEF OnTVs, Busy
  <1>7. CASE WorkerReturns(w) \/ WorkerFails(w) \/ WorkerUnwinds(w)
    <2>1. UNCHANGED saved \/ saved' = With("ended")
      BY <1>7 DEF WorkerReturns, WorkerFails, WorkerUnwinds, WorkerHandles, Persist, PersistFails,
                  record
    <2> QED BY <1>3, <1>4, <2>1, Statuses
  <1> QED BY <1>3, <1>5, <1>6, <1>7
          DEF WorkerSteps, WorkerBegins, WorkerFetches, WorkerDefers, WorkerClaims, WorkerStopped,
              WorkerPlays, WorkerAdds, Resumes, record

LEMMA ManualShows ==
  ASSUME TypeOK, KnowInv, NEW s \in Slots, ManualSteps(s) \/ ManualFails(s, "cancel")
  PROVE  OnTVs
  <1>1. /\ \A t \in Slots \ {s} : manual'[t] = manual[t]
        /\ UNCHANGED worker \/ ManualCommands(s)
    BY ManualMoves
  <1>2. saved \in Saved /\ manual \in [Slots -> Manual] /\ ManualKnows(manual[s])
    BY DEF TypeOK, KnowInv
  <1>3. CASE UNCHANGED saved BY <1>3 DEF OnTVs
  <1>4. CASE saved'.status # "started" BY <1>4 DEF OnTVs
  <1>5. CASE manual'[s].pc # "none" /\ UNCHANGED worker BY <1>1, <1>5 DEF OnTVs, Busy
  <1>6. CASE /\ manual[s].tvs \subseteq ctl.tvs /\ ctl.src = saved'.attempted
             /\ UNCHANGED worker
    BY <1>1, <1>6 DEF OnTVs, Busy
  <1>7. CASE ManualJoined(s)
    <2>1. /\ manual[s].tvs \subseteq ctl.tvs /\ ctl.src = manual[s].game /\ UNCHANGED worker
          /\ saved' = [With("started") EXCEPT !.attempted = manual[s].game]
      BY <1>7 DEF ManualJoined, MayLaunch, Persist
    <2> QED BY <1>6, <2>1, Statuses
  <1>8. CASE ManualPlayed(s)
    <2>1. /\ ctl.tvs = manual[s].want /\ ctl.src = manual[s].game /\ UNCHANGED worker
          /\ manual[s].pc = "adding" /\ saved' = With("started")
      BY <1>8 DEF ManualPlayed, Continues, Plays, Persist
    <2>2. manual[s].tvs \subseteq manual[s].want /\ saved'.attempted = manual[s].game
      BY <1>2, <2>1, Statuses DEF ManualKnows, Claimed
    <2> QED BY <1>6, <2>1, <2>2
  <1>9. CASE ManualClaims(s)
    <2>1. manual'[s].pc \in {"vpn", "stop"} /\ UNCHANGED worker
      BY <1>2, <1>9 DEF ManualClaims, Manual
    <2> QED BY <1>5, <2>1
  <1>10. CASE ManualHalted(s)
    <2>1. saved' = [With("checking") EXCEPT !.tvs = manual[s].tvs]
      BY <1>10 DEF ManualHalted, Persist
    <2> QED BY <1>4, <2>1, Statuses
  <1>11. ASSUME NEW end, ManualFails(s, end) \/ ManualHandles(s, end) PROVE OnTVs
    <2>1. UNCHANGED saved \/ saved' = With("ended")
      BY <1>11 DEF ManualFails, ManualHandles, Persist, PersistFails, record
    <2> QED BY <1>3, <1>4, <2>1, Statuses
  <1> QED BY <1>3, <1>7, <1>8, <1>9, <1>10, <1>11
          DEF ManualSteps, ManualStarts, ManualCommands, ManualFetches, ManualStopped, ManualPlays,
              ManualAdds, ManualUnwinds, record

\* What else writes the record ends no launch, or writes another status.
LEMMA OthersShow ==
  ASSUME TypeOK,
         \/ \E c \in Callers : CallSteps(c) \/ StopAbandoned(c)
         \/ Asked \/ Outside \/ UNCHANGED vars
  PROVE  OnTVs
  <1>1. CASE UNCHANGED saved BY <1>1 DEF OnTVs
  <1>2. CASE saved'.status # "started" BY <1>2 DEF OnTVs
  <1>3. CASE UNCHANGED <<worker, manual>> BY <1>3 DEF OnTVs, Busy
  <1>4. CASE phase # "up" BY <1>4 DEF OnTVs
  <1>5. ASSUME NEW c \in Callers, CallSteps(c) \/ StopAbandoned(c) PROVE OnTVs
    <2>1. CASE KickArms(c)
      <3>1. UNCHANGED saved \/ saved' = [saved EXCEPT !.status = "checking", !.until = "open",
                                                      !.tvs = calls[c].tvs]
        BY <2>1 DEF KickArms, Persist, PersistFails, record
      <3>2. saved \in Saved BY DEF TypeOK
      <3>3. UNCHANGED saved \/ saved'.status = "checking" BY <3>1, <3>2 DEF Saved
      <3> QED BY <1>1, <1>2, <3>3
    <2>2. UNCHANGED saved \/ UNCHANGED <<worker, manual>> \/ KickArms(c)
      BY <1>5 DEF CallSteps, KickIsIdle, StopsWorker, CancelRefused, StopsManual, Drained,
                  StopAbandoned, record
    <2> QED BY <1>1, <1>3, <2>1, <2>2
  <1>6. CASE Asked
    BY <1>1, <1>6 DEF Asked, Press, Kick, Stop, Cancel, Close, record
  <1>7. CASE Crash \/ Exits
    BY <1>2, <1>7, Statuses DEF Crash, Exits, Down
  <1>8. CASE Outside /\ ~ (Crash \/ Exits)
    BY <1>3, <1>4, <1>8 DEF Outside, BareStop, EngineExits, DeadlinePasses, NextGame, DiskFills,
                            OtherPlay, Restart
  <1>9. CASE UNCHANGED vars BY <1>1, <1>9 DEF vars
  <1> QED BY <1>5, <1>6, <1>7, <1>8, <1>9

\* A launch that reports "started" has its game on all its TVs at that moment, with no
\* Stop and no other Play since its own Play.
THEOREM StartedIsOnTVsProved == Spec => StartedIsOnTVs
  <1>1. TaskInv /\ KnowInv /\ [Next]_vars => OnTVs
    BY Kinds, WorkerShows, ManualShows, OthersShow DEF TaskInv, AttemptInv
  <1>2. TaskInv /\ KnowInv /\ [Next]_vars =>
          [saved'.status = "started" /\ saved # saved' /\ phase = "up" =>
             /\ \A s \in Slots : Busy(s) /\ manual'[s].pc = "none" =>
                  manual[s].tvs \subseteq ctl.tvs /\ ctl.src = saved'.attempted
             /\ \A w \in Workers : worker[w].pc = "adding" /\ worker'[w].pc = "none" =>
                  saved.tvs \subseteq ctl.tvs /\ ctl.src = saved'.attempted]_vars
    BY <1>1 DEF OnTVs
  <1> QED BY <1>2, LaunchCorrect, PTL DEF Spec, StartedIsOnTVs

-----------------------------------------------------------------------------
(* Stops and launches that wait.                                           *)

\* A set of natural numbers that is not empty has a least element.
LEMMA Least ==
  ASSUME NEW T, T \subseteq Nat, T # {}
  PROVE  \E x \in T : \A y \in T : x <= y
  <1> DEFINE R == OpToRel(<, Nat)
  <1>1. IsWellFoundedOn(R, Nat) BY NatLessThanWellFounded
  <1>2. \A x, y \in Nat : y < x => <<y, x>> \in R BY DEF OpToRel
  <1> HIDE DEF R
  <1>3. PICK x \in T : \A y \in T : ~ (<<y, x>> \in R) BY <1>1, WFMin
  <1>4. ASSUME NEW y \in T PROVE x <= y
    <2>1. x \in Nat /\ y \in Nat BY <1>3
    <2>2. ~ (y < x) BY <1>2, <1>3, <2>1
    <2> QED BY <2>1, <2>2
  <1> QED BY <1>3, <1>4

\* Edges lead on, and not beyond the present; nor does a launch own the future.
Rising ==
    /\ \A g \in Generations : edges[g] >= g /\ (g <= ctl.gen => edges[g] <= ctl.gen)
    /\ \A s \in Slots : manual[s].gen <= ctl.gen

\* No edge leads across k, and no launch owns generations on both sides of it.
Cut(k) ==
    /\ k <= ctl.gen
    /\ \A g \in Generations : g < k => edges[g] < k
    /\ \A s \in Slots : manual[s].pc \in Held /\ manual[s].base < k => manual[s].gen < k

\* A launch on the other side of a cut is not current: its edges never get across.
LEMMA CutOff ==
  ASSUME TypeOK, Rising, NEW k \in Nat, Cut(k), NEW s \in Slots, manual[s].gen < k
  PROVE  ~Current(s)
  <1>1. edges \in [Generations -> Generations] /\ manual[s].gen \in Generations
    BY DEF TypeOK, Manual
  <1>2. ctl.gen \in Nat /\ \A g \in Generations : g \in Nat BY CtlType
  <1> DEFINE T == {g \in Generations : g < k /\ Rebase[g] = ctl.gen}
  <1>3. T = {}
    <2> SUFFICES ASSUME T # {} PROVE FALSE OBVIOUS
    <2> DEFINE U == {k - g : g \in T}
    <2>1. U \subseteq Nat /\ U # {} BY <1>2
    <2>2. PICK u \in U : \A v \in U : u <= v
      <3> HIDE DEF U
      <3> QED BY <2>1, Least
    <2>3. PICK g \in T : u = k - g BY <2>2
    <2>4. \A h \in T : h <= g
      <3>1. ASSUME NEW h \in T PROVE h <= g
        <4>1. k - h \in U OBVIOUS
        <4>2. k - g <= k - h BY <2>2, <2>3, <4>1
        <4> QED BY <1>2, <4>2
      <3> QED BY <3>1
    <2>5. ~Terminal(g)
      <3>1. CASE Terminal(g)
        <4>1. Rebase[g] = g BY <3>1, RebaseIs
        <4> QED BY <1>2, <4>1 DEF Cut
      <3> QED BY <3>1
    <2>6. Rebase[edges[g]] = ctl.gen BY <2>5, RebaseIs
    <2>7. edges[g] \in Generations /\ edges[g] < k /\ edges[g] >= g /\ edges[g] # g
      BY <1>1, <2>5 DEF Cut, Rising, Terminal
    <2>8. edges[g] \in T BY <2>6, <2>7
    <2> QED BY <1>2, <2>4, <2>7, <2>8
  <1> QED BY <1>1, <1>3 DEF Current

\* A Stop is a cut between all that is and all that comes.
LEMMA StopCuts ==
  ASSUME TypeOK, TypeOK', Rising, ctl'.gen > ctl.gen, UNCHANGED manual, UNCHANGED edges
  PROVE  \E k \in Nat : Cut(k)' /\ \A s \in Slots : manual'[s].gen < k
  <1> DEFINE k == ctl.gen + 1
  <1>1. /\ ctl.gen \in Nat /\ ctl'.gen \in Nat
        /\ \A g \in Generations : g \in Nat /\ edges[g] \in Generations
        /\ \A s \in Slots : manual[s].gen \in Nat
    BY CtlType DEF TypeOK
  <1>2. PICK j \in Nat : j = k BY <1>1
  <1>3. \A g \in Generations : g < j => edges'[g] < j
    BY <1>1, <1>2 DEF Rising
  <1>4. j <= ctl'.gen BY <1>1, <1>2
  <1>5. \A s \in Slots : manual'[s].gen < j
    BY <1>1, <1>2 DEF Rising
  <1>6. Cut(j)' BY <1>3, <1>4, <1>5 DEF Cut
  <1> QED BY <1>5, <1>6

LEMMA CutKept ==
  ASSUME TypeOK, TypeOK', NEW k \in Nat, Cut(k), ctl'.gen >= ctl.gen,
         \A g \in Generations : edges'[g] = edges[g] \/ edges'[g] = g \/ g >= k,
         \A s \in Slots : manual'[s].pc \in Held =>
             \/ /\ manual[s].pc \in Held
                /\ manual'[s].base = manual[s].base /\ manual'[s].gen = manual[s].gen
             \/ manual'[s].base >= k
  PROVE  Cut(k)'
  <1>1. /\ ctl.gen \in Nat /\ ctl'.gen \in Nat /\ \A g \in Generations : g \in Nat
        /\ \A s \in Slots : manual[s].gen \in Nat /\ manual[s].base \in Nat
    BY CtlType DEF TypeOK
  <1>2. \A s \in Slots : manual'[s].base \in Nat
    BY LaunchesAssumption DEF TypeOK, Manual, LaunchesAssumption, Generations
  <1> QED BY <1>1, <1>2 DEF Cut

\* An overruled launch: its epoch is over, or a cut has left it behind.
Dead(s) == Busy(s) /\ (~manual[s].live \/ \E k \in Nat : Cut(k) /\ manual[s].gen < k)

LEMMA DeadIsOld ==
  ASSUME TypeOK, Rising, NEW s \in Slots, Dead(s)
  PROVE  ~Current(s)
  BY CutOff DEF Dead, Current

\* A step of somebody who leaves the generations of the launches alone, or ends them.
Aside ==
    /\ ctl'.gen >= ctl.gen /\ UNCHANGED edges
    /\ \A s \in Slots :
         /\ manual'[s].pc \in Held => /\ manual[s].pc \in Held
                                      /\ manual'[s].base = manual[s].base
                                      /\ manual'[s].gen = manual[s].gen
         /\ manual'[s].gen \in {manual[s].gen, ctl.gen, 0}
         /\ Busy(s) => /\ manual'[s].live => manual[s].live
                       /\ manual'[s].gen \in {manual[s].gen, 0}

LEMMA AsideKeeps ==
  ASSUME TypeOK, TypeOK', KnowInv, Rising, Aside
  PROVE  Rising' /\ \A s \in Slots : Dead(s) => manual'[s].pc = "none" \/ Dead(s)'
  <1>1. /\ ctl.gen \in Nat /\ ctl'.gen \in Nat
        /\ \A g \in Generations : g \in Nat /\ edges[g] \in Generations
        /\ \A s \in Slots : manual[s].gen \in Nat
    BY CtlType DEF TypeOK
  <1>2. ASSUME NEW g \in Generations
        PROVE  edges'[g] >= g /\ (g <= ctl'.gen => edges'[g] <= ctl'.gen)
    <2>1. CASE g <= ctl.gen BY <1>1, <2>1 DEF Rising, Aside
    <2>2. CASE g > ctl.gen BY <1>1, <2>2 DEF KnowInv, Aside
    <2> QED BY <1>1, <2>1, <2>2
  <1>3. \A s \in Slots : manual'[s].gen <= ctl'.gen
    BY <1>1 DEF Rising, Aside
  <1>4. Rising' BY <1>2, <1>3 DEF Rising
  <1>5. ASSUME NEW s \in Slots, Dead(s), manual'[s].pc # "none" PROVE Dead(s)'
    <2>1. Busy(s) /\ Busy(s)' BY <1>5 DEF Dead, Busy
    <2>2. CASE ~manual[s].live BY <2>1, <2>2 DEF Dead, Aside
    <2>3. ASSUME NEW k \in Nat, Cut(k), manual[s].gen < k PROVE Dead(s)'
      <3>1. Cut(k)' BY <2>3, CutKept DEF Aside
      <3>2. manual'[s].gen < k BY <1>1, <2>1, <2>3 DEF Aside
      <3> QED BY <2>1, <3>1, <3>2 DEF Dead
    <2> QED BY <1>5, <2>2, <2>3 DEF Dead
  <1> QED BY <1>4, <1>5

\* What a launch does to the generations: only as the current one it takes new ones.
LEMMA ManualGens ==
  ASSUME TypeOK, KnowInv, NEW s \in Slots, ManualSteps(s) \/ ManualFails(s, "cancel")
  PROVE  /\ ctl'.gen >= ctl.gen
         /\ \/ manual'[s].pc = "none" /\ manual'[s].gen = 0
            \/ /\ manual'[s].pc = "unwind" /\ manual'[s].gen = 0
               /\ manual'[s].live = manual[s].live
            \/ Current(s) /\ manual'[s].gen = ctl'.gen /\ manual'[s].base = ctl'.gen
            \/ /\ Current(s) /\ manual[s].pc \in Held
               /\ manual'[s].base = manual[s].base /\ manual'[s].gen = ctl'.gen
            \/ /\ manual[s].pc = "command" \/ manual[s].pc \in Held
               /\ manual'[s].base = manual[s].base /\ manual'[s].gen = manual[s].gen
               /\ manual'[s].live = manual[s].live
         /\ \A g \in Generations :
              \/ edges'[g] = edges[g] \/ edges'[g] = g
              \/ /\ Current(s) /\ manual[s].pc \in Held /\ UNCHANGED ctl
                 /\ g >= manual[s].base /\ g < manual[s].gen
                 /\ edges'[g] = manual[s].gen
  <1>1. /\ manual[s] \in Manual /\ manual \in [Slots -> Manual] /\ ctl \in Ctl
        /\ edges \in [Generations -> Generations]
        /\ ctl.gen \in Nat /\ manual[s].gen \in Nat /\ manual[s].base \in Nat
        /\ \A g \in Generations : g \in Nat
    BY CtlType DEF TypeOK, Ctl
  <1>2. ASSUME edges' = edges \/ edges' = NoEdges
        PROVE  \A g \in Generations : edges'[g] = edges[g] \/ edges'[g] = g
    BY <1>2, EdgesAfter
  <1>3. CASE ManualStarts(s)
    <2>1. /\ manual'[s].base = ctl.gen /\ manual'[s].gen = ctl.gen /\ Current(s)
          /\ UNCHANGED <<edges, ctl>>
      BY <1>1, <1>3 DEF ManualStarts, Manual
    <2> QED BY <1>1, <2>1
  <1>4. CASE ManualCommands(s) \/ ManualHalted(s) \/ ManualFetches(s) \/ ManualStopped(s)
             \/ ManualAdds(s)
    <2>1. /\ manual'[s].base = manual[s].base /\ manual'[s].gen = manual[s].gen
          /\ manual'[s].live = manual[s].live /\ manual[s].pc \in Held /\ UNCHANGED edges
      BY <1>1, <1>4 DEF ManualCommands, ManualHalted, ManualFetches, ManualStopped, ManualAdds,
                        Continues, Manual, Held, Claimed
    <2>2. ctl'.gen = ctl.gen
      BY <1>1, <1>4 DEF ManualCommands, ManualHalted, ManualFetches, ManualStopped, ManualAdds,
                        Switches, Adds, Ctl
    <2> QED BY <1>1, <2>1, <2>2
  <1>5. CASE ManualClaims(s)
    <2>1. PICK same \in BOOLEAN :
            /\ MayLaunch(s, same)
            /\ LET idle == same \/ ctl.src = 0
               IN  /\ ctl' = IF idle THEN ctl ELSE Stopped(ctl)
                   /\ manual' = [manual EXCEPT ![s].pc = IF idle THEN "vpn" ELSE "stop",
                                               ![s].holds = @ \cup {"control"},
                                               ![s].gen = IF idle THEN @ ELSE ctl'.gen]
      BY <1>5 DEF ManualClaims
    <2>2. manual[s].pc \in Held /\ Current(s) /\ UNCHANGED edges
      BY <1>5, <2>1 DEF ManualClaims, MayLaunch, Continues, Held
    <2>3. manual[s].gen = ctl.gen BY <2>2, CurrentIsLatest
    <2>4. manual'[s].base = manual[s].base BY <1>1, <2>1 DEF Manual
    <2>5. CASE same \/ ctl.src = 0
      <3>1. ctl' = ctl /\ manual'[s].gen = ctl.gen BY <1>1, <2>1, <2>3, <2>5 DEF Manual
      <3> QED BY <1>1, <2>2, <2>4, <3>1
    <2>6. CASE ~ (same \/ ctl.src = 0)
      <3>1. ctl' = Stopped(ctl) /\ manual'[s].gen = ctl'.gen BY <1>1, <2>1, <2>6 DEF Manual
      <3>2. ctl'.gen = ctl.gen + 1 BY <3>1 DEF Stopped
      <3> QED BY <1>1, <2>2, <2>4, <3>1, <3>2
    <2> QED BY <2>5, <2>6
  <1>6. CASE ManualPlays(s)
    <2>1. /\ manual'[s].base = manual[s].base /\ manual'[s].gen = ctl'.gen
          /\ ctl' = [ctl EXCEPT !.gen = @ + 1]
          /\ manual[s].pc \in Held /\ Current(s) /\ UNCHANGED edges
      BY <1>1, <1>6 DEF ManualPlays, PlayBegins, Continues, Manual, Held, Claimed
    <2>2. ctl'.gen = ctl.gen + 1 BY <1>1, <2>1 DEF Ctl
    <2> QED BY <1>1, <2>1, <2>2
  <1>7. CASE ManualJoined(s)
    <2>1. manual'[s] = NoManual /\ (edges' = edges \/ edges' = NoEdges) /\ UNCHANGED ctl
      BY <1>1, <1>7 DEF ManualJoined, ManualEnds
    <2> QED BY <1>1, <1>2, <2>1 DEF NoManual
  <1>8. CASE ManualPlayed(s)
    <2>1. manual'[s] = NoManual /\ Current(s) /\ manual[s].pc \in Held /\ UNCHANGED ctl
      BY <1>1, <1>8 DEF ManualPlayed, Continues, Held, Claimed
    <2>2. CASE edges' = NoEdges BY <1>1, <1>2, <2>1, <2>2 DEF NoManual
    <2>3. CASE edges' = [g \in Generations |->
                           IF g \in manual[s].base .. manual[s].gen - 1 THEN manual[s].gen
                           ELSE edges[g]]
      BY <1>1, <2>1, <2>3 DEF NoManual
    <2> QED BY <1>8, <2>2, <2>3 DEF ManualPlayed
  <1>9. ASSUME NEW end \in {"cancel", "error"},
               ManualFails(s, end) \/ (ManualUnwinds(s) /\ end = manual[s].end)
        PROVE  /\ UNCHANGED ctl
               /\ \/ manual'[s].pc = "none" /\ manual'[s].gen = 0
                  \/ /\ manual'[s].pc = "unwind" /\ manual'[s].gen = 0
                     /\ manual'[s].live = manual[s].live
               /\ \A g \in Generations : edges'[g] = edges[g] \/ edges'[g] = g
    <2>1. UNCHANGED ctl
      BY <1>9 DEF ManualFails, ManualUnwinds
    <2>2. CASE ManualHandles(s, end)
      <3>1. manual'[s] = NoManual /\ (edges' = edges \/ edges' = NoEdges)
        BY <1>1, <2>2 DEF ManualHandles, ManualEnds
      <3> QED BY <1>2, <2>1, <3>1 DEF NoManual
    <2>3. CASE /\ manual[s].pc \in {"play", "adding"}
               /\ manual' = [manual EXCEPT ![s] = ManualUnwinding(s, end)]
               /\ UNCHANGED <<saved, disk, edges, calls>>
      <3>1. manual'[s].pc = "unwind" /\ manual'[s].gen = 0 /\ manual'[s].live = manual[s].live
        BY <1>1, <2>3 DEF ManualUnwinding, Manual
      <3> QED BY <2>1, <2>3, <3>1
    <2> QED BY <1>9, <2>2, <2>3 DEF ManualFails, ManualUnwinds
  <1> QED
    <2>1. manual[s].end \in {"cancel", "error"} BY <1>1 DEF Manual
    <2>2. CASE ManualFails(s, "cancel") \/ ManualFails(s, "error") \/ ManualUnwinds(s)
      BY <1>1, <1>9, <2>1, <2>2
    <2> QED BY <1>3, <1>4, <1>5, <1>6, <1>7, <1>8, <2>2 DEF ManualSteps

LEMMA ManualKeeps ==
  ASSUME TypeOK, TypeOK', KnowInv, Rising, NEW s \in Slots,
         ManualSteps(s) \/ ManualFails(s, "cancel")
  PROVE  Rising' /\ \A t \in Slots : Dead(t) => manual'[t].pc = "none" \/ Dead(t)'
  <1>1. /\ ctl.gen \in Nat /\ ctl'.gen \in Nat /\ ctl.gen \in Generations
        /\ edges \in [Generations -> Generations] /\ \A g \in Generations : g \in Nat
        /\ \A t \in Slots : manual[t].gen \in Nat /\ manual[t].base \in Nat
    BY CtlType DEF TypeOK
  <1>2. \A t \in Slots \ {s} : manual'[t] = manual[t] BY ManualMoves
  <1>3. ctl'.gen >= ctl.gen BY ManualGens
  <1>4. Current(s) /\ manual[s].pc \in Held => manual[s].gen = ctl.gen BY CurrentIsLatest
  <1>5. ASSUME NEW g \in Generations
        PROVE  edges'[g] >= g /\ (g <= ctl'.gen => edges'[g] <= ctl'.gen)
    <2>1. CASE edges'[g] = edges[g]
      <3>1. edges[g] \in Generations BY <1>1
      <3>2. CASE g <= ctl.gen BY <1>1, <1>3, <2>1, <3>1, <3>2 DEF Rising
      <3>3. CASE g > ctl.gen BY <1>1, <2>1, <3>3 DEF KnowInv
      <3> QED BY <1>1, <3>2, <3>3
    <2>2. CASE edges'[g] = g BY <1>1, <2>2
    <2>3. CASE /\ Current(s) /\ manual[s].pc \in Held /\ UNCHANGED ctl
               /\ g < manual[s].gen /\ edges'[g] = manual[s].gen
      BY <1>1, <1>4, <2>3
    <2> QED BY <2>1, <2>2, <2>3, ManualGens
  <1>6. ASSUME NEW t \in Slots PROVE manual'[t].gen <= ctl'.gen
    <2>1. CASE t # s BY <1>1, <1>2, <1>3, <2>1 DEF Rising
    <2>2. CASE t = s
      <3>1. manual'[s].gen \in {0, ctl'.gen, manual[s].gen} BY ManualGens
      <3> QED BY <1>1, <1>3, <2>2, <3>1 DEF Rising
    <2> QED BY <2>1, <2>2
  <1>7. ASSUME NEW k \in Nat, Cut(k) PROVE Cut(k)'
    <2>1. Current(s) /\ manual[s].pc \in Held => manual[s].base >= k /\ ctl.gen >= k
      BY <1>1, <1>4, <1>7 DEF Cut
    <2>2. ctl.gen >= k BY <1>1, <1>7 DEF Cut
    <2>3. \A g \in Generations : edges'[g] = edges[g] \/ edges'[g] = g \/ g >= k
      <3>1. ASSUME NEW g \in Generations,
                   Current(s), manual[s].pc \in Held, g >= manual[s].base
            PROVE  g >= k
        BY <1>1, <2>1, <3>1
      <3> QED BY <3>1, ManualGens
    <2>4. manual'[s].pc \in Held =>
             \/ /\ manual[s].pc \in Held
                /\ manual'[s].base = manual[s].base /\ manual'[s].gen = manual[s].gen
             \/ manual'[s].base >= k
      <3>1. CASE manual'[s].pc \in {"none", "unwind"} BY <3>1 DEF Held, Claimed
      <3>2. CASE manual'[s].base = ctl'.gen BY <1>1, <1>3, <2>2, <3>2
      <3>3. CASE /\ Current(s) /\ manual[s].pc \in Held
                 /\ manual'[s].base = manual[s].base
        BY <2>1, <3>3
      <3>4. CASE /\ manual[s].pc = "command" \/ manual[s].pc \in Held
                 /\ manual'[s].base = manual[s].base /\ manual'[s].gen = manual[s].gen
        BY <3>4 DEF Held
      <3> QED BY <3>1, <3>2, <3>3, <3>4, ManualGens
    <2>5. \A t \in Slots : manual'[t].pc \in Held =>
             \/ /\ manual[t].pc \in Held
                /\ manual'[t].base = manual[t].base /\ manual'[t].gen = manual[t].gen
             \/ manual'[t].base >= k
      BY <1>2, <2>4
    <2> QED BY <1>3, <1>7, <2>3, <2>5, CutKept
  <1>8. ASSUME NEW t \in Slots, Dead(t), manual'[t].pc # "none" PROVE Dead(t)'
    <2>1. Busy(t)' BY <1>8 DEF Busy
    <2>2. manual'[t].live = manual[t].live /\ manual'[t].gen \in {manual[t].gen, 0}
      <3>1. CASE t # s BY <1>2, <3>1
      <3>2. CASE t = s
        <4>1. ~Current(s) BY <1>8, <3>2, DeadIsOld
        <4> QED BY <1>8, <3>2, <4>1, ManualGens
      <3> QED BY <3>1, <3>2
    <2>3. CASE ~manual[t].live BY <2>1, <2>2, <2>3 DEF Dead
    <2>4. ASSUME NEW k \in Nat, Cut(k), manual[t].gen < k PROVE Dead(t)'
      <3>1. manual'[t].gen < k BY <1>1, <2>2, <2>4
      <3> QED BY <1>7, <2>1, <2>4, <3>1 DEF Dead
    <2> QED BY <1>8, <2>3, <2>4 DEF Dead
  <1>9. Rising' BY <1>5, <1>6 DEF Rising
  <1> QED BY <1>8, <1>9

\* Every step but those of the launches, and the end of the process, is one aside.
LEMMA AsideSteps ==
  ASSUME TypeOK,
         \/ \E w \in Workers : WorkerSteps(w)
         \/ \E c \in Callers : CallSteps(c) \/ StopAbandoned(c)
         \/ Asked
         \/ Outside /\ ~ (Crash \/ Exits)
         \/ UNCHANGED vars
  PROVE  Aside
  <1>1. /\ ctl \in Ctl /\ ctl.gen \in Nat /\ manual \in [Slots -> Manual]
    BY CtlType DEF TypeOK, Ctl
  <1>2. ASSUME NEW r, ctl' = UserStopped(r) \/ ctl' = Stopped(ctl) PROVE ctl'.gen >= ctl.gen
    BY <1>2, StopMoves
  <1>3. CASE \E w \in Workers : WorkerSteps(w)
    <2>1. PICK w \in Workers : WorkerSteps(w) BY <1>3
    <2>2. UNCHANGED <<manual, edges>> BY <2>1, WorkerMoves
    <2>3. ctl'.gen >= ctl.gen
      <3>1. CASE WorkerClaims(w)
        <4>1. ctl' = ctl \/ ctl' = Stopped(ctl) BY <3>1 DEF WorkerClaims
        <4> QED BY <1>1, <1>2, <4>1
      <3>2. CASE WorkerPlays(w)
        <4>1. ctl' = [ctl EXCEPT !.gen = @ + 1] BY <3>2 DEF WorkerPlays, PlayBegins
        <4>2. ctl'.gen = ctl.gen + 1 BY <1>1, <4>1 DEF Ctl
        <4> QED BY <1>1, <4>2
      <3>3. CASE WorkerAdds(w)
        <4>1. ctl'.gen = ctl.gen BY <1>1, <3>3 DEF WorkerAdds, Switches, Adds, Ctl
        <4> QED BY <1>1, <4>1
      <3>4. CASE UNCHANGED ctl BY <1>1, <3>4
      <3> QED BY <2>1, <3>1, <3>2, <3>3, <3>4
              DEF WorkerSteps, WorkerBegins, WorkerReturns, WorkerFetches, WorkerDefers,
                  WorkerStopped, WorkerPlayed, WorkerFails, WorkerUnwinds
    <2> QED BY <2>2, <2>3 DEF Aside
  <1>4. CASE \E c \in Callers : CallSteps(c) \/ StopAbandoned(c)
    <2>1. PICK c \in Callers : CallSteps(c) \/ StopAbandoned(c) BY <1>4
    <2>2. UNCHANGED ctl \/ ctl' = UserStopped(calls[c].tv)
      BY <2>1 DEF CallSteps, KickIsIdle, StopsWorker, CancelRefused, KickArms, StopsManual, Drained,
                  StopAbandoned
    <2>3. ctl'.gen >= ctl.gen BY <1>1, <1>2, <2>2
    <2>4. UNCHANGED edges BY <2>1, CallMoves
    <2>5. CASE UNCHANGED manual BY <2>3, <2>4, <2>5 DEF Aside
    <2>6. CASE StopsManual(c)
      <3>1. \A s \in Slots : manual'[s] = ManualUnwinding(s, "cancel") BY <2>6 DEF StopsManual
      <3>2. \A s \in Slots : manual'[s].pc \in {"none", "unwind"} BY <3>1, UnwindMoves
      <3>3. ASSUME NEW s \in Slots
            PROVE  manual'[s].gen \in {manual[s].gen, 0} /\ manual'[s].live = manual[s].live
        BY <3>1, UnwindMoves
      <3> QED BY <2>3, <2>4, <3>2, <3>3 DEF Aside, Held, Claimed
    <2> QED BY <2>1, <2>5, <2>6, CallMoves
  <1>5. CASE Asked
    <2>1. UNCHANGED edges BY <1>5 DEF Asked, Press, Kick, Stop, Cancel, Close
    <2>2. UNCHANGED ctl \/ \E r \in StopTargets : ctl' = UserStopped(r)
      BY <1>5 DEF Asked, Press, Kick, Stop, Cancel, Close
    <2>3. ctl'.gen >= ctl.gen BY <1>1, <1>2, <2>2
    <2>4. ASSUME NEW s \in Slots, NEW T \in PressTargets, NEW join \in Joins, Press(s, T, join)
          PROVE  Aside
      <3>1. /\ ~Busy(s) /\ manual'[s].pc = "queued" /\ manual'[s].gen = ctl.gen
            /\ \A t \in Slots \ {s} : manual'[t] = manual[t]
        BY <1>1, <2>4 DEF Press, NoManual
      <3> QED BY <2>1, <2>3, <3>1 DEF Aside, Held, Claimed
    <2>5. CASE NewEpoch
      <3>1. ASSUME NEW s \in Slots
            PROVE  /\ manual'[s].pc = manual[s].pc /\ manual'[s].base = manual[s].base
                   /\ manual'[s].gen = manual[s].gen /\ ~manual'[s].live
        <4>1. manual'[s] = [manual[s] EXCEPT !.live = FALSE] /\ manual[s] \in Manual
          BY <1>1, <2>5, EpochMoves
        <4> QED BY <4>1 DEF Manual
      <3> QED BY <2>1, <2>3, <3>1 DEF Aside
    <2>6. CASE UNCHANGED manual BY <2>1, <2>3, <2>6 DEF Aside
    <2> QED BY <1>5, <2>4, <2>5, <2>6 DEF Asked, Kick, Stop, Cancel, Close
  <1>6. CASE Outside /\ ~ (Crash \/ Exits)
    <2>1. UNCHANGED <<manual, edges>>
      BY <1>6 DEF Outside, BareStop, EngineExits, DeadlinePasses, NextGame, DiskFills, OtherPlay,
                  Restart
    <2>2. ctl'.gen >= ctl.gen
      <3>1. CASE BareStop BY <1>2, <3>1 DEF BareStop
      <3>2. CASE EngineExits BY <1>1, <3>2 DEF EngineExits, Ctl
      <3>3. CASE \E T \in OtherTargets : OtherPlay(T)
        <4>1. ctl'.gen = ctl.gen + 1 BY <3>3 DEF OtherPlay
        <4> QED BY <1>1, <4>1
      <3>4. CASE UNCHANGED ctl BY <1>1, <3>4
      <3> QED BY <1>6, <3>1, <3>2, <3>3, <3>4 DEF Outside, DeadlinePasses, NextGame, DiskFills,
                                                  Restart
    <2> QED BY <2>1, <2>2 DEF Aside
  <1>7. CASE UNCHANGED vars BY <1>1, <1>7 DEF Aside, vars
  <1> QED BY <1>3, <1>4, <1>5, <1>6, <1>7

\* The launches a user has overruled are dead, and the dead stay it until they end.
HistoryInv ==
    /\ TaskInv /\ KnowInv /\ Rising
    /\ overruled \subseteq Slots /\ \A s \in overruled : Dead(s)

LEMMA DeadStep ==
  ASSUME TaskInv, KnowInv, Rising, [Next]_vars
  PROVE  Rising' /\ \A s \in Slots : Dead(s) => manual'[s].pc = "none" \/ Dead(s)'
  <1>1. TypeOK /\ TypeOK' BY TaskStep DEF TaskInv, AttemptInv
  <1>2. CASE Crash \/ Exits
    <2>1. Down BY <1>2 DEF Crash, Exits
    <2>2. \A g \in Generations : g \in Nat
      BY LaunchesAssumption DEF LaunchesAssumption, Generations
    <2>3. \A g \in Generations : edges'[g] = g BY <2>1 DEF Down, NoEdges
    <2>4. ctl'.gen = 0 BY <2>1 DEF Down, Quiet
    <2>5. \A s \in Slots : manual'[s].pc = "none" /\ manual'[s].gen = 0
      BY <2>1 DEF Down, NoManual
    <2>6. Rising' BY <2>2, <2>3, <2>4, <2>5 DEF Rising
    <2> QED BY <2>5, <2>6
  <1>3. CASE \E s \in Slots : ManualSteps(s) \/ ManualFails(s, "cancel")
    BY <1>1, <1>3, ManualKeeps
  <1>4. CASE Aside BY <1>1, <1>4, AsideKeeps
  <1> QED BY <1>1, <1>2, <1>3, <1>4, Kinds, AsideSteps

\* Whoever is overruled by a step is dead after it.
LEMMA OverruledIsDead ==
  ASSUME TaskInv, KnowInv, Rising, Next, NEW s \in OverruledSlots, manual'[s].pc # "none"
  PROVE  Dead(s)'
  <1>1. /\ TypeOK /\ TypeOK' /\ s \in Slots /\ Busy(s) /\ Busy(s)'
    BY TaskStep DEF TaskInv, AttemptInv, OverruledSlots, Busy
  <1>2. CASE StopTaken
    <2>1. UNCHANGED manual /\ ctl'.gen > ctl.gen BY <1>2 DEF StopTaken
    <2>2. UNCHANGED edges
      <3>1. ASSUME NEW t \in Slots, ManualSteps(t) \/ ManualFails(t, "cancel")
            PROVE  UNCHANGED edges
        <4>1. manual[t].pc # "none" BY <1>1, <3>1, ManualMoves
        <4>2. manual'[t] # NoManual BY <2>1, <4>1 DEF NoManual
        <4> QED BY <1>1, <3>1, <4>2, ManualMoves
      <3>2. ~ (Crash \/ Exits)
        <4>1. CASE Crash \/ Exits
          <5>1. ctl'.gen = 0 BY <4>1 DEF Crash, Exits, Down, Quiet
          <5>2. ctl.gen \in Nat BY <1>1, CtlType
          <5> QED BY <2>1, <5>1, <5>2
        <4> QED BY <4>1
      <3> QED BY <1>1, <3>1, <3>2, Kinds, AsideSteps DEF Aside
    <2> QED BY <1>1, <2>1, <2>2, StopCuts DEF Dead
  <1>3. CASE \E c \in Callers : calls[c].op = "none" /\ calls'[c].op \in {"cancel", "stop"}
    <2>1. PICK c \in Callers : calls[c].op = "none" /\ calls'[c].op \in {"cancel", "stop"}
      BY <1>3
    <2>2. calls \in [Callers -> Call] BY <1>1 DEF TypeOK
    <2>3. Asked
      <3>1. ~ \E w \in Workers : WorkerSteps(w) BY <1>1, <2>1, WorkerMoves
      <3>2. ~ \E t \in Slots : ManualSteps(t) \/ ManualFails(t, "cancel")
        BY <1>1, <2>1, ManualMoves
      <3>3. ASSUME NEW d \in Callers, CallSteps(d) \/ StopAbandoned(d) PROVE FALSE
        <4>1. calls'[d].op \in {calls[d].op, "none"}
          <5>1. CASE calls'[d] = NoCall BY <5>1 DEF NoCall
          <5>2. CASE calls'[d] = [calls[d] EXCEPT !.pc = "halt", !.on = task]
            BY <2>2, <5>2 DEF Call
          <5>3. CASE calls'[d] = [calls[d] EXCEPT !.pc = "drain", !.on = None,
                                                  !.drains = {t \in Slots : Busy(t)}]
            BY <2>2, <5>3 DEF Call
          <5> QED BY <1>1, <3>3, <5>1, <5>2, <5>3, CallMoves
        <4>2. \A e \in Callers \ {d} : calls'[e] = calls[e] BY <1>1, <3>3, CallMoves
        <4> QED BY <2>1, <4>1, <4>2
      <3>4. CASE Outside
        <4>1. UNCHANGED calls \/ calls' = [e \in Callers |-> NoCall]
          BY <3>4 DEF Outside, BareStop, EngineExits, DeadlinePasses, NextGame, DiskFills,
                      OtherPlay, Crash, Exits, Down, Restart
        <4> QED BY <2>1, <4>1 DEF NoCall
      <3> QED BY <3>1, <3>2, <3>3, <3>4, Kinds
    <2>4. NewEpoch
      <3>1. ~ UNCHANGED calls BY <2>1
      <3>2. ASSUME NEW d \in Callers, NEW T \in KickTargets, Kick(d, T) PROVE FALSE
        <4>1. \A e \in Callers : calls'[e].op \in {calls[e].op, "kick"}
          BY <2>2, <3>2 DEF Kick, Asks, NoCall
        <4> QED BY <2>1, <4>1
      <3> QED BY <2>3, <3>1, <3>2 DEF Asked, Press, Stop, Cancel, Close
    <2>5. ~manual'[s].live
      <3>1. manual'[s] = [manual[s] EXCEPT !.live = FALSE] /\ manual[s] \in Manual
        BY <1>1, <2>4, EpochMoves DEF TypeOK
      <3> QED BY <3>1 DEF Manual
    <2> QED BY <1>1, <2>5 DEF Dead
  <1> QED BY <1>2, <1>3 DEF OverruledSlots

LEMMA HistoryStep ==
  ASSUME HistoryInv, [HistoryNext]_<<vars, overruled>>
  PROVE  HistoryInv'
  <1>1. [Next]_vars BY DEF HistoryNext
  <1>2. TaskInv' /\ KnowInv' BY <1>1, TaskStep, KnowStep DEF HistoryInv
  <1>3. Rising' /\ \A s \in Slots : Dead(s) => manual'[s].pc = "none" \/ Dead(s)'
    BY <1>1, DeadStep DEF HistoryInv
  <1>4. CASE HistoryNext
    <2>1. overruled' = {s \in overruled \cup OverruledSlots : manual'[s].pc # "none"} /\ Next
      BY <1>4 DEF HistoryNext
    <2>2. overruled' \subseteq Slots BY <2>1 DEF HistoryInv, OverruledSlots
    <2>3. \A s \in overruled' : Dead(s)'
      BY <1>3, <2>1, OverruledIsDead DEF HistoryInv
    <2> QED BY <1>2, <1>3, <2>2, <2>3 DEF HistoryInv
  <1>5. CASE UNCHANGED <<vars, overruled>>
    <2>1. \A s \in overruled : Dead(s)'
      BY <1>5 DEF HistoryInv, Dead, Cut, Busy, vars
    <2> QED BY <1>2, <1>3, <1>5, <2>1 DEF HistoryInv
  <1> QED BY <1>4, <1>5

\* A launch that goes on from its VPN to its Play is current.
LEMMA PlaysCurrent ==
  ASSUME TypeOK, Next, NEW s \in Slots,
         manual[s].pc = "vpn", manual'[s].pc \in {"play", "adding"}
  PROVE  Current(s)
  <1>1. manual \in [Slots -> Manual] BY DEF TypeOK
  <1>2. manual'[s] # manual[s] OBVIOUS
  <1>3. ASSUME NEW t \in Slots, ManualSteps(t) \/ ManualFails(t, "cancel") PROVE Current(s)
    <2>1. t = s BY <1>2, <1>3, ManualMoves
    <2>2. CASE ManualPlays(s) BY <2>2 DEF ManualPlays
    <2>3. CASE manual'[s].pc \in {"none", "unwind", "command", "halt", "fetch", "lock", "vpn", "stop"}
      BY <2>3
    <2>4. ManualClaims(s) => manual'[s].pc \in {"vpn", "stop"} BY <1>1 DEF ManualClaims, Manual
    <2>5. ManualAdds(s) => manual[s].pc # "vpn" BY DEF ManualAdds, Continues
    <2>6. ASSUME NEW end, manual'[s] = ManualUnwinding(s, end)
          PROVE  manual'[s].pc \in {"none", "unwind"}
      BY <2>6, UnwindMoves
    <2>7. CASE \/ manual'[s] = NoManual
               \/ ManualStarts(s) \/ ManualCommands(s) \/ ManualHalted(s) \/ ManualFetches(s)
               \/ ManualStopped(s)
      BY <1>1, <2>7 DEF NoManual, ManualStarts, ManualCommands, ManualHalted, ManualFetches,
                        ManualStopped, Continues
    <2> QED BY <1>3, <2>1, <2>2, <2>3, <2>4, <2>5, <2>6, <2>7, ManualMoves
  <1>4. ASSUME NEW c \in Callers, CallSteps(c) \/ StopAbandoned(c) PROVE FALSE
    <2>1. StopsManual(c) BY <1>2, <1>4, CallMoves
    <2>2. manual'[s] = ManualUnwinding(s, "cancel") BY <2>1 DEF StopsManual
    <2> QED BY <2>2, UnwindMoves
  <1>5. CASE Asked
    <2>1. ASSUME NEW t \in Slots, NEW T \in PressTargets, NEW join \in Joins, Press(t, T, join)
          PROVE  FALSE
      BY <1>1, <1>2, <2>1 DEF Press, NoManual, Busy
    <2>2. ~NewEpoch BY EpochMoves
    <2> QED BY <1>2, <1>5, <2>1, <2>2 DEF Asked, Kick, Stop, Cancel, Close
  <1>6. CASE Outside
    <2>1. UNCHANGED manual \/ manual' = [t \in Slots |-> NoManual]
      BY <1>6 DEF Outside, BareStop, EngineExits, DeadlinePasses, NextGame, DiskFills, OtherPlay,
                  Crash, Exits, Down, Restart
    <2> QED BY <1>2, <2>1 DEF NoManual
  <1>7. ~ \E w \in Workers : WorkerSteps(w) BY <1>2, WorkerMoves
  <1> QED BY <1>3, <1>4, <1>5, <1>6, <1>7, Kinds

\* A launch that a Stop or a Cancel overruled never starts a Play, however long it
\* stayed queued behind others and whatever those played meanwhile.
THEOREM OverruledProved == HistorySpec => OverruledNeverPlays
  <1>1. HistoryInit => HistoryInv
    <2>1. ASSUME HistoryInit PROVE HistoryInv
      <3>1. TaskInv /\ KnowInv
        BY <2>1, TaskInit, KnowInit, LaunchesAssumption DEF HistoryInit
      <3>2. \A g \in Generations : g \in Nat
        BY LaunchesAssumption DEF LaunchesAssumption, Generations
      <3>3. Rising
        BY <2>1, <3>2 DEF HistoryInit, Init, Rising, NoEdges, NoManual, Quiet
      <3> QED BY <2>1, <3>1, <3>3 DEF HistoryInit, HistoryInv
    <2> QED BY <2>1
  <1>2. HistoryInv /\ [HistoryNext]_<<vars, overruled>> => HistoryInv' BY HistoryStep
  <1>3. HistoryInv /\ [HistoryNext]_<<vars, overruled>> =>
          [\A s \in Slots : manual[s].pc = "vpn" /\ manual'[s].pc \in {"play", "adding"} =>
             s \notin overruled]_<<vars, overruled>>
    <2>1. ASSUME HistoryInv, HistoryNext, NEW s \in Slots,
                 manual[s].pc = "vpn", manual'[s].pc \in {"play", "adding"}
          PROVE  s \notin overruled
      <3>1. TypeOK /\ Rising BY <2>1 DEF HistoryInv, TaskInv, AttemptInv
      <3>2. Current(s) BY <2>1, <3>1, PlaysCurrent DEF HistoryNext
      <3> QED BY <2>1, <3>1, <3>2, DeadIsOld DEF HistoryInv
    <2> QED BY <2>1
  <1> QED BY <1>1, <1>2, <1>3, PTL DEF HistorySpec, OverruledNeverPlays
=============================================================================
