---------------------------- MODULE Services_proofs ----------------------------
(***************************************************************************)
(* What is measured is measured alone and nobody leaves a process behind,  *)
(* and a recording ends only for a reason of its own: for any number of    *)
(* media processes.  The Supervisor's requests are bounded and a Stop      *)
(* finds its slot, and a measurement belongs to the request that started   *)
(* it: for any number of slots and of measurements.                        *)
(***************************************************************************)
EXTENDS MCServices, FiniteSetTheorems, TLAPS

-----------------------------------------------------------------------------
(* Recordings and measurements *)

\* A request that closes the browser has the lock, and nobody has it while something is measured.
Exclusive ==
    /\ request = "closing" => lock = "close"
    /\ \A j \in Jobs : Active(j) => lock = "free"

\* Only a Play has a pending stream; a recording has an engine: its own, or one that is playing
\* or being torn down.
Accounted ==
    /\ pend # 0 => lock = "play"
    /\ rec = 0 <=> rstream = 0
    /\ ~owned /\ rstream \in up => rstream \in {stream, pend} \cup ending \cup retiring

\* A task that ends has no child, or one that it was told twice to leave; one that waits for
\* its child to end was told before.
Unwound ==
    \A j \in Jobs :
        /\ job[j] \in {"none", "clean"} =>
               proc[j] = "none" \/ (proc[j] = "killed" /\ ToldTwice(j))
        /\ job[j] \in {"adopt", "reap"} => told[j] # {}

\* Every media process is known.
Known == up \subseteq {stream, pend, rstream} \cup ending \cup retiring

MInv == Exclusive /\ Accounted /\ MeasuredAlone /\ Unwound /\ Known


-----------------------------------------------------------------------------
\* There is always a number for a new recording.
LEMMA FreshOne ==
  ASSUME MTypeOK, rec = 0
  PROVE  FreshRec \in Recs /\ FreshRec # rec
  <1> DEFINE T == {writes[e] : e \in Engines}
  <1>1. IsFiniteSet(Engines) /\ Cardinality(Engines) = MaxEngines
    BY FS_Interval, MeasurementsAssumption DEF Engines
  <1>2. IsFiniteSet(Recs) /\ Cardinality(Recs) = MaxEngines + 1
    BY FS_Interval, MeasurementsAssumption DEF Recs
  <1>3. writes \in Surjection(Engines, T)
    <2>1. writes \in [Engines -> T] BY DEF MTypeOK
    <2> QED BY <2>1 DEF Surjection
  <1>4. IsFiniteSet(T) /\ Cardinality(T) <= MaxEngines BY <1>1, <1>3, FS_Surjection
  <1>5. ~(Recs \subseteq T)
    <2>1. SUFFICES ASSUME Recs \subseteq T PROVE FALSE OBVIOUS
    <2>2. Cardinality(Recs) <= Cardinality(T) BY <1>4, <2>1, FS_Subset
    <2>3. Cardinality(T) \in Nat BY <1>4, FS_CardinalityType
    <2> QED BY <1>2, <1>4, <2>2, <2>3, MeasurementsAssumption
  <1>6. \E r \in Recs : r # rec /\ \A e \in Engines : writes[e] # r
    BY <1>5, MeasurementsAssumption DEF Recs
  <1> QED BY <1>6 DEF FreshRec


Steps == {"none", "new", "launch", "adopt", "run", "reap", "desk", "clean"}
Children == {"none", "starting", "live", "killed"}
Reasons == {"cancel", "again", "limit", "child"}

\* The types of what plays and what is recorded, and of the rest.
MediaType ==
    /\ stream \in Engines \cup {0} /\ pend \in Engines \cup {0}
    /\ up \subseteq Engines /\ ending \subseteq up /\ retiring \subseteq up
RecordingType ==
    /\ rec \in Recs \cup {0} /\ rstream \in Engines \cup {0} /\ owned \in BOOLEAN
    /\ timer \in {"none", "set", "due"} /\ writes \in [Engines -> Recs \cup {0}]
JobType ==
    /\ lock \in {"free", "play", "record", "close", "open"}
    /\ browser \in BOOLEAN /\ request \in {"none", "asked", "closing"}
    /\ job \in [Jobs -> Steps] /\ proc \in [Jobs -> Children]
    /\ told \in [Jobs -> SUBSET Reasons] /\ desk \in {"none", "up", "left"}

\* The type invariant in three parts.
LEMMA TypeParts == MTypeOK <=> MediaType /\ RecordingType /\ JobType
  BY DEF MTypeOK, MediaType, RecordingType, JobType, Steps, Children, Reasons


\* The steps of a measurement that has begun.
JobMoves(j) == JobRuns(j) \/ Breaks(j) \/ Cancel(j) \/ Expires(j) \/ Dies(j)

\* A measurement changes nothing else.
LEMMA JobsApart ==
  ASSUME NEW j \in Jobs, Measure(j) \/ JobMoves(j)
  PROVE  UNCHANGED <<lock, playback, browser, request, media, recording>>
  BY DEF Measure, JobMoves, JobRuns, Breaks, Cancel, Expires, Dies

\* The task goes on, with a child that its own step decides; it does not begin again.
LEMMA JobGoes ==
  ASSUME MTypeOK, NEW j \in Jobs, JobMoves(j)
  PROVE  /\ \E step \in Steps, child \in Children, why \in SUBSET Reasons :
               Job(j, step, child, why) /\ (Active(j) \/ step = "none")
         /\ desk' \in {"none", "up", "left"}
  <1> USE DEF MTypeOK, Steps, Children, Reasons, Active
  <1>1. CASE JobRuns(j) BY <1>1 DEF JobRuns, Unwinds
  <1>2. CASE Breaks(j) BY <1>2 DEF Breaks
  <1>3. ASSUME NEW why \in SUBSET Reasons, JobCancelled(j, why)
        PROVE  /\ \E step \in Steps, child \in Children :
                     Job(j, step, child, why) /\ Active(j)
               /\ desk' \in {"none", "up", "left"}
    BY <1>3 DEF JobCancelled, Adopted, Unwinds
  <1>4. CASE Cancel(j) BY <1>3, <1>4 DEF Cancel
  <1>5. CASE Expires(j) BY <1>3, <1>5 DEF Expires
  <1>6. CASE Dies(j) BY <1>6 DEF Dies
  <1> QED BY <1>1, <1>2, <1>4, <1>5, <1>6 DEF JobMoves


\* What plays keeps its type.
LEMMA MediaKept ==
  ASSUME MTypeOK, MediaType, [MeasurementsNext]_mvars
  PROVE  MediaType'
  <1> USE DEF MediaType, playback, media, recording, jobs
  <1>1. CASE UNCHANGED mvars BY <1>1 DEF mvars
  <1>2. CASE RecordPlayback BY <1>2 DEF RecordPlayback, MayRecord
  <1>3. CASE RecordStarted BY <1>3 DEF RecordStarted, Finish
  <1>4. CASE TimeIsOver BY <1>4 DEF TimeIsOver
  <1>5. CASE TimedOut BY <1>5 DEF TimedOut, Finish
  <1>6. CASE Played BY <1>6 DEF Played
  <1>7. CASE Opened BY <1>7 DEF Opened
  <1>8. CASE Closed BY <1>8 DEF Closed
  <1>9. CASE CloseStarts BY <1>9 DEF CloseStarts, NoDiagnostic
  <1>10. CASE Stop BY <1>10 DEF Stop, StopsPlayback
  <1>11. CASE OpenBrowser BY <1>11 DEF OpenBrowser, NoDiagnostic
  <1>12. CASE CloseBrowser BY <1>12 DEF CloseBrowser, NoDiagnostic, StopsPlayback
  <1>13. CASE Reconfigure BY <1>13 DEF Reconfigure, Quiet, NoDiagnostic
  <1>14. ASSUME NEW e \in Engines,
         RecordStarts(e) \/ Play(e) \/ Reports(e) \/ Fails(e) \/ Exits(e)
        PROVE  MediaType'
    <2>1. CASE RecordStarts(e) BY <2>1 DEF RecordStarts, MayRecord, NoDiagnostic, Spawns, Unused
    <2>2. CASE Play(e) BY <2>2 DEF Play, MayPlay, NoDiagnostic, Spawns, Unused
    <2>3. CASE Reports(e) BY <2>3 DEF Reports, Hears, Finish
    <2>4. CASE Fails(e) BY <2>4 DEF Fails, Hears, Finish
    <2>5. CASE Exits(e) BY <2>5 DEF Exits, Hears, Finish
    <2> QED BY <1>14, <2>1, <2>2, <2>3, <2>4, <2>5
  <1>15. ASSUME NEW e \in ending \cup retiring, Exits(e) PROVE MediaType'
    BY <1>15 DEF Exits, Hears, Finish
  <1>16. ASSUME NEW j \in Jobs, Measure(j) \/ JobMoves(j) PROVE MediaType'
    BY <1>16, JobsApart
  <1> QED
    BY <1>1, <1>2, <1>3, <1>4, <1>5, <1>6, <1>7, <1>8, <1>9,
       <1>10, <1>11, <1>12, <1>13, <1>14, <1>15, <1>16
    DEF MeasurementsNext, RecordingSteps, PlaybackSteps, JobMoves


\* What is recorded keeps its type.
LEMMA RecordingTyped ==
  ASSUME MTypeOK, RecordingType, [MeasurementsNext]_mvars
  PROVE  RecordingType'
  <1> USE DEF RecordingType, playback, media, recording, jobs
  <1>1. CASE UNCHANGED mvars BY <1>1 DEF mvars
  <1>2. CASE RecordPlayback
    BY <1>2, FreshOne DEF RecordPlayback, MayRecord, MTypeOK
  <1>3. CASE RecordStarted BY <1>3 DEF RecordStarted, Finish
  <1>4. CASE TimeIsOver BY <1>4 DEF TimeIsOver
  <1>5. CASE TimedOut BY <1>5 DEF TimedOut, Finish
  <1>6. CASE Played BY <1>6 DEF Played
  <1>7. CASE Opened BY <1>7 DEF Opened
  <1>8. CASE Closed BY <1>8 DEF Closed
  <1>9. CASE CloseStarts BY <1>9 DEF CloseStarts, NoDiagnostic
  <1>10. CASE Stop BY <1>10 DEF Stop, StopsPlayback
  <1>11. CASE OpenBrowser BY <1>11 DEF OpenBrowser, NoDiagnostic
  <1>12. CASE CloseBrowser BY <1>12 DEF CloseBrowser, NoDiagnostic, StopsPlayback
  <1>13. CASE Reconfigure BY <1>13 DEF Reconfigure, Quiet, NoDiagnostic
  <1>14. ASSUME NEW e \in Engines,
         RecordStarts(e) \/ Play(e) \/ Reports(e) \/ Fails(e) \/ Exits(e)
        PROVE  RecordingType'
    <2>1. CASE RecordStarts(e)
    BY <2>1, FreshOne DEF RecordStarts, MayRecord
    <2>2. CASE Play(e) BY <2>2 DEF Play, MayPlay, NoDiagnostic, Spawns, Unused
    <2>3. CASE Reports(e) BY <2>3 DEF Reports, Hears, Finish
    <2>4. CASE Fails(e) BY <2>4 DEF Fails, Hears, Finish
    <2>5. CASE Exits(e) BY <2>5 DEF Exits, Hears, Finish
    <2> QED BY <1>14, <2>1, <2>2, <2>3, <2>4, <2>5
  <1>15. ASSUME NEW e \in ending \cup retiring, Exits(e) PROVE RecordingType'
    BY <1>15 DEF Exits, Hears, Finish
  <1>16. ASSUME NEW j \in Jobs, Measure(j) \/ JobMoves(j) PROVE RecordingType'
    BY <1>16, JobsApart
  <1> QED
    BY <1>1, <1>2, <1>3, <1>4, <1>5, <1>6, <1>7, <1>8, <1>9,
       <1>10, <1>11, <1>12, <1>13, <1>14, <1>15, <1>16
    DEF MeasurementsNext, RecordingSteps, PlaybackSteps, JobMoves


\* The rest keeps its type.
LEMMA JobKept ==
  ASSUME MTypeOK, JobType, [MeasurementsNext]_mvars
  PROVE  JobType'
  <1> USE DEF JobType, playback, media, recording, jobs
  <1>1. CASE UNCHANGED mvars BY <1>1 DEF mvars
  <1>2. CASE RecordPlayback BY <1>2 DEF RecordPlayback, MayRecord
  <1>3. CASE RecordStarted BY <1>3 DEF RecordStarted, Finish
  <1>4. CASE TimeIsOver BY <1>4 DEF TimeIsOver
  <1>5. CASE TimedOut BY <1>5 DEF TimedOut, Finish
  <1>6. CASE Played BY <1>6 DEF Played
  <1>7. CASE Opened BY <1>7 DEF Opened
  <1>8. CASE Closed BY <1>8 DEF Closed
  <1>9. CASE CloseStarts BY <1>9 DEF CloseStarts, NoDiagnostic
  <1>10. CASE Stop BY <1>10 DEF Stop, StopsPlayback
  <1>11. CASE OpenBrowser BY <1>11 DEF OpenBrowser, NoDiagnostic
  <1>12. CASE CloseBrowser BY <1>12 DEF CloseBrowser, NoDiagnostic, StopsPlayback
  <1>13. CASE Reconfigure BY <1>13 DEF Reconfigure, Quiet, NoDiagnostic
  <1>14. ASSUME NEW e \in Engines,
         RecordStarts(e) \/ Play(e) \/ Reports(e) \/ Fails(e) \/ Exits(e)
        PROVE  JobType'
    <2>1. CASE RecordStarts(e) BY <2>1 DEF RecordStarts, MayRecord, NoDiagnostic, Spawns, Unused
    <2>2. CASE Play(e) BY <2>2 DEF Play, MayPlay, NoDiagnostic, Spawns, Unused
    <2>3. CASE Reports(e) BY <2>3 DEF Reports, Hears, Finish
    <2>4. CASE Fails(e) BY <2>4 DEF Fails, Hears, Finish
    <2>5. CASE Exits(e) BY <2>5 DEF Exits, Hears, Finish
    <2> QED BY <1>14, <2>1, <2>2, <2>3, <2>4, <2>5
  <1>15. ASSUME NEW e \in ending \cup retiring, Exits(e) PROVE JobType'
    BY <1>15 DEF Exits, Hears, Finish
  <1>16. ASSUME NEW j \in Jobs, Measure(j) \/ JobMoves(j) PROVE JobType'
    <2>1. UNCHANGED <<lock, browser, request>> BY <1>16, JobsApart
    <2>2. CASE Measure(j) BY <2>1, <2>2 DEF Measure, Steps, Children, Reasons
    <2>3. CASE JobMoves(j)
      <3>1. PICK step \in Steps, child \in Children, why \in SUBSET Reasons : Job(j, step, child, why)
        BY <2>3, JobGoes
      <3>2. desk' \in {"none", "up", "left"} BY <2>3, JobGoes
      <3>3. \A r \in SUBSET Reasons : r \cup why \in SUBSET Reasons OBVIOUS
      <3>4. told' \in [Jobs -> SUBSET Reasons] BY <3>1, <3>3 DEF Job
      <3>5. job' \in [Jobs -> Steps] /\ proc' \in [Jobs -> Children] BY <3>1 DEF Job
      <3> QED BY <2>1, <3>2, <3>4, <3>5
    <2> QED BY <1>16, <2>2, <2>3
  <1> QED
    BY <1>1, <1>2, <1>3, <1>4, <1>5, <1>6, <1>7, <1>8, <1>9,
       <1>10, <1>11, <1>12, <1>13, <1>14, <1>15, <1>16
    DEF MeasurementsNext, RecordingSteps, PlaybackSteps, JobMoves


\* Every variable keeps its type.
LEMMA TypeKept ==
  ASSUME MTypeOK, [MeasurementsNext]_mvars
  PROVE  MTypeOK'
  <1>1. MediaType' /\ RecordingType' /\ JobType'
    BY TypeParts, MediaKept, RecordingTyped, JobKept
  <1> QED BY <1>1 DEF MTypeOK, MediaType, RecordingType, JobType, Steps, Children, Reasons


\* Nobody takes the lock while something is measured.
LEMMA ExclusiveKept ==
  ASSUME MTypeOK, Exclusive, [MeasurementsNext]_mvars
  PROVE  Exclusive'
  <1> USE DEF MTypeOK, Exclusive, Active, Jobs, playback, media, recording, jobs
  <1>1. CASE UNCHANGED mvars BY <1>1 DEF mvars
  <1>2. CASE RecordPlayback BY <1>2 DEF RecordPlayback, MayRecord
  <1>3. CASE RecordStarted BY <1>3 DEF RecordStarted, Finish
  <1>4. CASE TimeIsOver BY <1>4 DEF TimeIsOver
  <1>5. CASE TimedOut BY <1>5 DEF TimedOut, Finish
  <1>6. CASE Played BY <1>6 DEF Played
  <1>7. CASE Opened BY <1>7 DEF Opened
  <1>8. CASE Closed BY <1>8 DEF Closed
  <1>9. CASE CloseStarts BY <1>9 DEF CloseStarts, NoDiagnostic
  <1>10. CASE Stop BY <1>10 DEF Stop, StopsPlayback
  <1>11. CASE OpenBrowser BY <1>11 DEF OpenBrowser, NoDiagnostic
  <1>12. CASE CloseBrowser BY <1>12 DEF CloseBrowser, NoDiagnostic, StopsPlayback
  <1>13. CASE Reconfigure BY <1>13 DEF Reconfigure, Quiet, NoDiagnostic
  <1>14. ASSUME NEW e \in Engines,
         RecordStarts(e) \/ Play(e) \/ Reports(e) \/ Fails(e) \/ Exits(e)
        PROVE  Exclusive'
    <2>1. CASE RecordStarts(e) BY <2>1 DEF RecordStarts, MayRecord, NoDiagnostic, Spawns, Unused
    <2>2. CASE Play(e) BY <2>2 DEF Play, MayPlay, NoDiagnostic, Spawns, Unused
    <2>3. CASE Reports(e) BY <2>3 DEF Reports, Hears, Finish
    <2>4. CASE Fails(e) BY <2>4 DEF Fails, Hears, Finish
    <2>5. CASE Exits(e) BY <2>5 DEF Exits, Hears, Finish
    <2> QED BY <1>14, <2>1, <2>2, <2>3, <2>4, <2>5
  <1>15. ASSUME NEW e \in ending \cup retiring, Exits(e) PROVE Exclusive'
    BY <1>15 DEF Exits, Hears, Finish
  <1>16. ASSUME NEW j \in Jobs, Measure(j) \/ JobMoves(j) PROVE Exclusive'
    <2>1. UNCHANGED <<lock, playback, browser, request, media, recording>> BY <1>16, JobsApart
    <2>2. CASE Measure(j) BY <2>1, <2>2 DEF Measure, Quiet, NoDiagnostic
    <2>3. CASE JobMoves(j)
      <3>1. PICK step \in Steps, child \in Children, why \in SUBSET Reasons :
               Job(j, step, child, why) /\ (Active(j) \/ step = "none")
        BY <2>3, JobGoes
      <3>2. \A k \in Jobs : Active(k)' => Active(k) BY <3>1 DEF Job
      <3> QED BY <2>1, <3>2
    <2> QED BY <1>16, <2>2, <2>3
  <1> QED
    BY <1>1, <1>2, <1>3, <1>4, <1>5, <1>6, <1>7, <1>8, <1>9,
       <1>10, <1>11, <1>12, <1>13, <1>14, <1>15, <1>16
    DEF MeasurementsNext, RecordingSteps, PlaybackSteps, JobMoves


\* A recording keeps its engine.
LEMMA AccountedKept ==
  ASSUME MTypeOK, Exclusive, Accounted, [MeasurementsNext]_mvars
  PROVE  Accounted'
  <1> USE DEF MTypeOK, Accounted, Engines, Recs, playback, media, recording, jobs
  <1>1. CASE UNCHANGED mvars BY <1>1 DEF mvars
  <1>2. CASE RecordPlayback
    <2>1. FreshRec \in Recs BY <1>2, FreshOne DEF RecordPlayback, MayRecord
    <2> QED BY <1>2, <2>1 DEF RecordPlayback, MayRecord
  <1>3. CASE RecordStarted BY <1>3 DEF RecordStarted, Finish
  <1>4. CASE TimeIsOver BY <1>4 DEF TimeIsOver
  <1>5. CASE TimedOut BY <1>5 DEF TimedOut, Finish
  <1>6. CASE Played BY <1>6 DEF Played
  <1>7. CASE Opened BY <1>7 DEF Opened
  <1>8. CASE Closed
    BY <1>8 DEF Closed, Exclusive
  <1>9. CASE CloseStarts BY <1>9 DEF CloseStarts, NoDiagnostic
  <1>10. CASE Stop BY <1>10 DEF Stop, StopsPlayback
  <1>11. CASE OpenBrowser BY <1>11 DEF OpenBrowser, NoDiagnostic
  <1>12. CASE CloseBrowser BY <1>12 DEF CloseBrowser, NoDiagnostic, StopsPlayback
  <1>13. CASE Reconfigure BY <1>13 DEF Reconfigure, Quiet, NoDiagnostic
  <1>14. ASSUME NEW e \in Engines,
         RecordStarts(e) \/ Play(e) \/ Reports(e) \/ Fails(e) \/ Exits(e)
        PROVE  Accounted'
    <2>1. CASE RecordStarts(e)
    <3>1. FreshRec \in Recs BY <2>1, FreshOne DEF RecordStarts, MayRecord
    <3> QED BY <2>1, <3>1 DEF RecordStarts, MayRecord, Spawns, Unused
    <2>2. CASE Play(e) BY <2>2 DEF Play, MayPlay, NoDiagnostic, Spawns, Unused
    <2>3. CASE Reports(e) BY <2>3 DEF Reports, Hears, Finish
    <2>4. CASE Fails(e) BY <2>4 DEF Fails, Hears, Finish
    <2>5. CASE Exits(e) BY <2>5 DEF Exits, Hears, Finish
    <2> QED BY <1>14, <2>1, <2>2, <2>3, <2>4, <2>5
  <1>15. ASSUME NEW e \in ending \cup retiring, Exits(e) PROVE Accounted'
    BY <1>15 DEF Exits, Hears, Finish
  <1>16. ASSUME NEW j \in Jobs, Measure(j) \/ JobMoves(j) PROVE Accounted'
    BY <1>16, JobsApart
  <1> QED
    BY <1>1, <1>2, <1>3, <1>4, <1>5, <1>6, <1>7, <1>8, <1>9,
       <1>10, <1>11, <1>12, <1>13, <1>14, <1>15, <1>16
    DEF MeasurementsNext, RecordingSteps, PlaybackSteps, JobMoves


\* What is measured stays alone.
LEMMA AloneKept ==
  ASSUME MTypeOK, Exclusive, MeasuredAlone, [MeasurementsNext]_mvars
  PROVE  MeasuredAlone'
  <1> USE DEF MTypeOK, Exclusive, MeasuredAlone, Active, Engines, Jobs, playback, media, recording, jobs
  <1>1. CASE UNCHANGED mvars BY <1>1 DEF mvars
  <1>2. CASE RecordPlayback BY <1>2 DEF RecordPlayback, MayRecord
  <1>3. CASE RecordStarted BY <1>3 DEF RecordStarted, Finish
  <1>4. CASE TimeIsOver BY <1>4 DEF TimeIsOver
  <1>5. CASE TimedOut BY <1>5 DEF TimedOut, Finish
  <1>6. CASE Played BY <1>6 DEF Played
  <1>7. CASE Opened BY <1>7 DEF Opened
  <1>8. CASE Closed BY <1>8 DEF Closed
  <1>9. CASE CloseStarts BY <1>9 DEF CloseStarts, NoDiagnostic
  <1>10. CASE Stop BY <1>10 DEF Stop, StopsPlayback
  <1>11. CASE OpenBrowser BY <1>11 DEF OpenBrowser, NoDiagnostic
  <1>12. CASE CloseBrowser BY <1>12 DEF CloseBrowser, NoDiagnostic, StopsPlayback
  <1>13. CASE Reconfigure BY <1>13 DEF Reconfigure, Quiet, NoDiagnostic
  <1>14. ASSUME NEW e \in Engines,
         RecordStarts(e) \/ Play(e) \/ Reports(e) \/ Fails(e) \/ Exits(e)
        PROVE  MeasuredAlone'
    <2>1. CASE RecordStarts(e) BY <2>1 DEF RecordStarts, MayRecord, NoDiagnostic, Spawns, Unused
    <2>2. CASE Play(e) BY <2>2 DEF Play, MayPlay, NoDiagnostic, Spawns, Unused
    <2>3. CASE Reports(e) BY <2>3 DEF Reports, Hears, Finish
    <2>4. CASE Fails(e) BY <2>4 DEF Fails, Hears, Finish
    <2>5. CASE Exits(e) BY <2>5 DEF Exits, Hears, Finish
    <2> QED BY <1>14, <2>1, <2>2, <2>3, <2>4, <2>5
  <1>15. ASSUME NEW e \in ending \cup retiring, Exits(e) PROVE MeasuredAlone'
    BY <1>15 DEF Exits, Hears, Finish
  <1>16. ASSUME NEW j \in Jobs, Measure(j) \/ JobMoves(j) PROVE MeasuredAlone'
    <2>1. UNCHANGED <<lock, playback, browser, request, media, recording>> BY <1>16, JobsApart
    <2>2. CASE Measure(j) BY <2>1, <2>2 DEF Measure, Quiet, NoDiagnostic
    <2>3. CASE JobMoves(j)
      <3>1. PICK step \in Steps, child \in Children, why \in SUBSET Reasons :
               Job(j, step, child, why) /\ (Active(j) \/ step = "none")
        BY <2>3, JobGoes
      <3>2. \A k \in Jobs : Active(k)' => Active(k) BY <3>1 DEF Job
      <3> QED BY <2>1, <3>2
    <2> QED BY <1>16, <2>2, <2>3
  <1> QED
    BY <1>1, <1>2, <1>3, <1>4, <1>5, <1>6, <1>7, <1>8, <1>9,
       <1>10, <1>11, <1>12, <1>13, <1>14, <1>15, <1>16
    DEF MeasurementsNext, RecordingSteps, PlaybackSteps, JobMoves


\* Every media process stays known.
LEMMA KnownKept ==
  ASSUME MTypeOK, Accounted, Known, [MeasurementsNext]_mvars
  PROVE  Known'
  <1> USE DEF MTypeOK, Accounted, Known, Engines, playback, media, recording, jobs
  <1>1. CASE UNCHANGED mvars BY <1>1 DEF mvars
  <1>2. CASE RecordPlayback BY <1>2 DEF RecordPlayback, MayRecord
  <1>3. CASE RecordStarted BY <1>3 DEF RecordStarted, Finish
  <1>4. CASE TimeIsOver BY <1>4 DEF TimeIsOver
  <1>5. CASE TimedOut BY <1>5 DEF TimedOut, Finish
  <1>6. CASE Played BY <1>6 DEF Played
  <1>7. CASE Opened BY <1>7 DEF Opened
  <1>8. CASE Closed BY <1>8 DEF Closed
  <1>9. CASE CloseStarts BY <1>9 DEF CloseStarts, NoDiagnostic
  <1>10. CASE Stop BY <1>10 DEF Stop, StopsPlayback
  <1>11. CASE OpenBrowser BY <1>11 DEF OpenBrowser, NoDiagnostic
  <1>12. CASE CloseBrowser BY <1>12 DEF CloseBrowser, NoDiagnostic, StopsPlayback
  <1>13. CASE Reconfigure BY <1>13 DEF Reconfigure, Quiet, NoDiagnostic
  <1>14. ASSUME NEW e \in Engines,
         RecordStarts(e) \/ Play(e) \/ Reports(e) \/ Fails(e) \/ Exits(e)
        PROVE  Known'
    <2>1. CASE RecordStarts(e) BY <2>1 DEF RecordStarts, MayRecord, NoDiagnostic, Spawns, Unused
    <2>2. CASE Play(e) BY <2>2 DEF Play, MayPlay, NoDiagnostic, Spawns, Unused
    <2>3. CASE Reports(e) BY <2>3 DEF Reports, Hears, Finish
    <2>4. CASE Fails(e) BY <2>4 DEF Fails, Hears, Finish
    <2>5. CASE Exits(e) BY <2>5 DEF Exits, Hears, Finish
    <2> QED BY <1>14, <2>1, <2>2, <2>3, <2>4, <2>5
  <1>15. ASSUME NEW e \in ending \cup retiring, Exits(e) PROVE Known'
    BY <1>15 DEF Exits, Hears, Finish
  <1>16. ASSUME NEW j \in Jobs, Measure(j) \/ JobMoves(j) PROVE Known'
    BY <1>16, JobsApart
  <1> QED
    BY <1>1, <1>2, <1>3, <1>4, <1>5, <1>6, <1>7, <1>8, <1>9,
       <1>10, <1>11, <1>12, <1>13, <1>14, <1>15, <1>16
    DEF MeasurementsNext, RecordingSteps, PlaybackSteps, JobMoves


\* What a step changes of the measurements is one of theirs.
LEMMA JobSteps ==
  ASSUME [MeasurementsNext]_mvars
  PROVE  UNCHANGED jobs \/ \E j \in Jobs : Measure(j) \/ JobMoves(j)
  <1>1. CASE UNCHANGED mvars BY <1>1 DEF mvars
  <1>2. CASE RecordPlayback \/ RecordingSteps \/ Stop
    BY <1>2 DEF RecordPlayback, RecordingSteps, RecordStarted, TimeIsOver, TimedOut, Stop
  <1>3. CASE Played \/ Opened \/ Closed \/ CloseStarts BY <1>3 DEF Played, Opened, Closed, CloseStarts
  <1>4. CASE OpenBrowser \/ CloseBrowser \/ Reconfigure BY <1>4 DEF OpenBrowser, CloseBrowser, Reconfigure
  <1>5. ASSUME NEW e, RecordStarts(e) \/ Play(e) \/ Reports(e) \/ Fails(e) \/ Exits(e)
        PROVE  UNCHANGED jobs
    BY <1>5 DEF RecordStarts, Play, Reports, Fails, Exits
  <1>6. CASE \E j \in Jobs : Measure(j) \/ JobMoves(j) BY <1>6
  <1> QED BY <1>1, <1>2, <1>3, <1>4, <1>5, <1>6 DEF MeasurementsNext, PlaybackSteps, JobMoves

\* Told once more, a task was told twice.
LEMMA Again ==
  ASSUME NEW R, R \in SUBSET Reasons, R # {}, NEW w, w \notin R
  PROVE  \E u, v \in R \cup {w} : u # v
  OBVIOUS

\* A task ends as Unwound says.
LEMMA UnwoundKept ==
  ASSUME MTypeOK, Unwound, [MeasurementsNext]_mvars
  PROVE  Unwound'
  <1> USE DEF MTypeOK, Unwound, ToldTwice
  <1>1. CASE UNCHANGED jobs BY <1>1 DEF jobs
  <1>2. ASSUME NEW j \in Jobs, Measure(j) PROVE Unwound'
    BY <1>2 DEF Measure, Quiet, NoDiagnostic, Active
  <1>3. ASSUME NEW j \in Jobs, NEW step, NEW child, NEW why \in SUBSET Reasons,
               Job(j, step, child, why),
               /\ step \in {"none", "clean"} => child = "none" \/ (child = "killed" /\ \E w, v \in told[j] \cup why : w # v)
               /\ step \in {"adopt", "reap"} => told[j] \cup why # {}
        PROVE  Unwound'
    <2>1. ASSUME NEW k \in Jobs, k # j
          PROVE  job'[k] = job[k] /\ proc'[k] = proc[k] /\ told'[k] = told[k]
      BY <1>3, <2>1 DEF Job
    <2>2. job'[j] = step /\ proc'[j] = child
      BY <1>3 DEF Job
    <2>3. child # "none" \/ step # "none" => told'[j] = told[j] \cup why BY <1>3 DEF Job
    <2> QED BY <1>3, <2>1, <2>2, <2>3
  <1>4. ASSUME NEW j \in Jobs, JobMoves(j) PROVE Unwound'
    <2>1. CASE JobRuns(j) BY <1>3, <2>1 DEF JobRuns, Unwinds
    <2>2. CASE Breaks(j) BY <1>3, <2>2 DEF Breaks, Reasons
    <2>3. ASSUME NEW w \in Reasons, w \notin told[j] \/ ToldTwice(j), JobCancelled(j, {w})
          PROVE  Unwound'
      <3>1. told[j] # {} => \E u, v \in told[j] \cup {w} : u # v
        <4>1. CASE ToldTwice(j) BY <4>1
        <4>2. CASE w \notin told[j] BY <4>2, Again DEF Reasons
        <4> QED BY <2>3, <4>1, <4>2
      <3>2. told[j] \cup {w} # {} OBVIOUS
      <3>3. \A u, v \in told[j] : u # v => \E x, y \in told[j] \cup {w} : x # y OBVIOUS
      <3> QED BY <1>3, <2>3, <3>1, <3>2, <3>3 DEF JobCancelled, Adopted, Unwinds, Reasons
    <2>4. CASE Cancel(j)
      <3>1. PICK w \in Reasons : /\ w = IF "cancel" \in told[j] THEN "again" ELSE "cancel"
                                 /\ JobCancelled(j, {w})
        BY <2>4 DEF Cancel, Reasons
      <3>2. w \notin told[j] \/ ToldTwice(j) BY <3>1
      <3> QED BY <2>3, <3>1, <3>2
    <2>5. CASE Expires(j) BY <2>3, <2>5 DEF Expires, Reasons
    <2>6. CASE Dies(j) BY <1>3, <2>6 DEF Dies
    <2> QED BY <1>4, <2>1, <2>2, <2>4, <2>5, <2>6 DEF JobMoves
  <1> QED BY <1>1, <1>2, <1>4, JobSteps


\* What RecordingKept says of a step.
RecordingEnds == rec # 0 /\ rec' # rec =>
    TimedOut \/ RecordStarted \/ Written(rstream) \/ Fails(rstream) \/ Exits(rstream)

\* A recording ends for a reason.
LEMMA RecordingStep ==
  ASSUME MTypeOK, Accounted, [MeasurementsNext]_mvars
  PROVE  RecordingEnds
  <1> USE DEF MTypeOK, Accounted, RecordingEnds, Engines, Recs, playback, media, recording, jobs
  <1>1. CASE UNCHANGED mvars BY <1>1 DEF mvars
  <1>2. CASE RecordPlayback BY <1>2 DEF RecordPlayback, MayRecord
  <1>3. CASE RecordStarted BY <1>3 DEF RecordStarted, Finish
  <1>4. CASE TimeIsOver BY <1>4 DEF TimeIsOver
  <1>5. CASE TimedOut BY <1>5 DEF TimedOut, Finish
  <1>6. CASE Played BY <1>6 DEF Played
  <1>7. CASE Opened BY <1>7 DEF Opened
  <1>8. CASE Closed BY <1>8 DEF Closed
  <1>9. CASE CloseStarts BY <1>9 DEF CloseStarts, NoDiagnostic
  <1>10. CASE Stop BY <1>10 DEF Stop, StopsPlayback
  <1>11. CASE OpenBrowser BY <1>11 DEF OpenBrowser, NoDiagnostic
  <1>12. CASE CloseBrowser BY <1>12 DEF CloseBrowser, NoDiagnostic, StopsPlayback
  <1>13. CASE Reconfigure BY <1>13 DEF Reconfigure, Quiet, NoDiagnostic
  <1>14. ASSUME NEW e \in Engines,
         RecordStarts(e) \/ Play(e) \/ Reports(e) \/ Fails(e) \/ Exits(e)
        PROVE  RecordingEnds
    <2>1. CASE RecordStarts(e) BY <2>1 DEF RecordStarts, MayRecord, NoDiagnostic, Spawns, Unused
    <2>2. CASE Play(e) BY <2>2 DEF Play, MayPlay, NoDiagnostic, Spawns, Unused
    <2>3. CASE Reports(e)
      <3>1. rec' # rec => e = rstream /\ writes[e] = rec BY <2>3 DEF Reports, Hears
      <3> QED BY <2>3, <3>1 DEF Written
    <2>4. CASE Fails(e) BY <2>4 DEF Fails, Hears
    <2>5. CASE Exits(e)
      <3>1. rec' # rec => e = rstream BY <2>5 DEF Exits, Hears
      <3> QED BY <2>5, <3>1
    <2> QED BY <1>14, <2>1, <2>2, <2>3, <2>4, <2>5
  <1>15. ASSUME NEW e \in ending \cup retiring, Exits(e) PROVE RecordingEnds
    <2>1. rec' # rec => e = rstream BY <1>15 DEF Exits, Hears
    <2> QED BY <1>15, <2>1
  <1>16. ASSUME NEW j \in Jobs, Measure(j) \/ JobMoves(j) PROVE RecordingEnds
    BY <1>16, JobsApart
  <1> QED
    BY <1>1, <1>2, <1>3, <1>4, <1>5, <1>6, <1>7, <1>8, <1>9,
       <1>10, <1>11, <1>12, <1>13, <1>14, <1>15, <1>16
    DEF MeasurementsNext, RecordingSteps, PlaybackSteps, JobMoves


-----------------------------------------------------------------------------
\* The invariant holds in the beginning and after every step.
THEOREM MeasurementsInvariant == MeasurementsSpec => [](MTypeOK /\ MInv)
  <1>1. MInit => MTypeOK /\ MInv
    <2> SUFFICES ASSUME MInit PROVE MTypeOK /\ MInv OBVIOUS
    <2> USE DEF MInit
    <2>1. MTypeOK BY DEF MTypeOK
    <2>2. \A j \in Jobs : ~Active(j) BY DEF Active
    <2>3. Unwound BY DEF Unwound
    <2>4. MInv BY <2>2, <2>3 DEF MInv, Exclusive, Accounted, MeasuredAlone, Known
    <2> QED BY <2>1, <2>4
  <1>2. MTypeOK /\ MInv /\ [MeasurementsNext]_mvars => MTypeOK' /\ MInv'
    BY TypeKept, ExclusiveKept, AccountedKept, AloneKept, UnwoundKept, KnownKept DEF MInv
  <1> QED BY <1>1, <1>2, PTL DEF MeasurementsSpec

\* While something is measured nothing plays or is recorded, and whoever is gone has left no
\* media process and no child, but one that it had killed and was told again not to wait for.
THEOREM ApartProved == MeasurementsSpec => []MeasurementsApart
  <1>1. MTypeOK /\ MInv => MeasurementsApart
    BY DEF MInv, MeasurementsApart, NoneLeftRunning, Unwound, Known, Active
  <1> QED BY <1>1, MeasurementsInvariant, PTL

\* A recording ends when its own engine has written it, has failed or is gone, at its own time,
\* or when it could not be started: never for what another engine or an earlier recording says.
THEOREM RecordingKeptProved == MeasurementsSpec => RecordingKept
  <1>1. MTypeOK /\ MInv /\ [MeasurementsNext]_mvars =>
          [rec # 0 /\ rec' # rec =>
             TimedOut \/ RecordStarted \/ Written(rstream) \/ Fails(rstream) \/ Exits(rstream)]_mvars
    BY RecordingStep DEF MInv, RecordingEnds
  <1> QED BY <1>1, MeasurementsInvariant, PTL DEF MeasurementsSpec, RecordingKept

-----------------------------------------------------------------------------
(* The Supervisor's control *)

\* However many requests wait, one more slot is for a Stop.
Bounded ==
    /\ Cardinality(requests) <= MaxRequests + 1
    /\ Cardinality(requests \ stop_requests) <= MaxRequests

\* A request keeps what it has started until that is over.
Keeps ==
    /\ \A m \in Slots :
          /\ own[m] # 0 <=> pc[m] \in {"own", "lock", "reap"}
          /\ own[m] <= probe
          /\ pc[m] = "lock" => Done(own[m])
    /\ \A i \in Probes : by[i] = "request" /\ ~Done(i) => \E m \in Slots : own[m] = i

\* The report is of the latest measurement, and one that has not begun is not over.
Reported ==
    /\ status = "complete" => report = probe
    /\ \A i \in Probes : i > probe => run[i] = "none" /\ by[i] = "user"

CInv == Bounded /\ Keeps /\ Reported


-----------------------------------------------------------------------------

\* Every variable keeps its type.
LEMMA STypeKept ==
  ASSUME STypeOK, [SupervisorNext]_svars
  PROVE  STypeOK'
  <1> USE SupervisorAssumption DEF STypeOK, taskVars, probing, Kinds, Probes, ProbeActive
  <1>1. CASE UNCHANGED svars BY <1>1 DEF svars
  <1>2. CASE Feeds BY <1>2 DEF Feeds
  <1>3. CASE PartialTimeout BY <1>3 DEF PartialTimeout
  <1>4. CASE UserStarts BY <1>4 DEF UserStarts, ProbeStarts
  <1>5. CASE UserCancels BY <1>5 DEF UserCancels
  <1>6. CASE UserCancelled BY <1>6 DEF UserCancelled
  <1>7. CASE Probed BY <1>7 DEF Probed
  <1>8. CASE SClose BY <1>8 DEF SClose
  <1>9. ASSUME NEW k \in Kinds, Dispatch(k) PROVE STypeOK'
    BY <1>9 DEF Dispatch
  <1>10. ASSUME NEW m \in Slots, TaskSteps(m) \/ Cut(m) PROVE STypeOK'
    <2>1. CASE Begins(m) BY <2>1 DEF Begins, At
    <2>2. CASE Returns(m) BY <2>2 DEF Returns, Over
    <2>3. CASE MeasureStarts(m)
    <3>1. CASE ProbeStarts("request") /\ pc' = [pc EXCEPT ![m] = "own"] /\ own' = [own EXCEPT ![m] = probe']
      BY <2>3, <3>1 DEF MeasureStarts, ProbeStarts
    <3>2. CASE Over(m) /\ UNCHANGED probing BY <2>3, <3>2 DEF MeasureStarts, Over
    <3> QED BY <2>3, <3>1, <3>2 DEF MeasureStarts
    <2>4. CASE MeasureSees(m) BY <2>4 DEF MeasureSees, At, Over
    <2>5. CASE Reaped(m) BY <2>5 DEF Reaped, Over
    <2>6. CASE Cut(m) BY <2>6 DEF Cut, Reaps, Over, At
    <2> QED BY <1>10, <2>1, <2>2, <2>3, <2>4, <2>5, <2>6 DEF TaskSteps
  <1> QED
    BY <1>1, <1>2, <1>3, <1>4, <1>5, <1>6, <1>7, <1>8, <1>9, <1>10
    DEF SupervisorNext


\* The requests are a finite set.
LEMMA FewRequests ==
  ASSUME NEW S, S \subseteq Slots
  PROVE  IsFiniteSet(S) /\ Cardinality(S) \in Nat
  <1>1. IsFiniteSet(Slots) BY FS_Interval, SupervisorAssumption DEF Slots
  <1> QED BY <1>1, FS_Subset, FS_CardinalityType


\* No request is taken, and none changes what it was asked; or one is taken.
Dropping == \A m \in Slots : pc'[m] # "none" => pc[m] # "none" /\ kind'[m] = kind[m]
Taking ==
    \E k \in Kinds, m \in Slots \ requests :
        HasSlot(k) /\ pc' = [pc EXCEPT ![m] = "new"] /\ kind' = [kind EXCEPT ![m] = k]
Moves == Taking \/ Dropping

\* A step takes one request, for which there was a slot, or takes none.
LEMMA RequestsMove ==
  ASSUME STypeOK, [SupervisorNext]_svars
  PROVE  Moves
  <1> USE DEF STypeOK, taskVars, probing, Dropping, Moves
  <1>1. CASE UNCHANGED svars BY <1>1 DEF svars
  <1>2. CASE Feeds BY <1>2 DEF Feeds
  <1>3. CASE PartialTimeout BY <1>3 DEF PartialTimeout
  <1>4. CASE UserStarts BY <1>4 DEF UserStarts, ProbeStarts
  <1>5. CASE UserCancels BY <1>5 DEF UserCancels
  <1>6. CASE UserCancelled BY <1>6 DEF UserCancelled
  <1>7. CASE Probed BY <1>7 DEF Probed
  <1>8. CASE SClose BY <1>8 DEF SClose
  <1>9. ASSUME NEW k \in Kinds, Dispatch(k) PROVE Moves
    BY <1>9 DEF Dispatch, Moves, Taking, Dropping
  <1>10. ASSUME NEW m \in Slots, TaskSteps(m) \/ Cut(m) PROVE Moves
    <2>1. CASE Begins(m) BY <2>1 DEF Begins, At
    <2>2. CASE Returns(m) BY <2>2 DEF Returns, Over
    <2>3. CASE MeasureStarts(m) BY <2>3 DEF MeasureStarts, ProbeStarts, Over
    <2>4. CASE MeasureSees(m) BY <2>4 DEF MeasureSees, At, Over
    <2>5. CASE Reaped(m) BY <2>5 DEF Reaped, Over
    <2>6. CASE Cut(m) BY <2>6 DEF Cut, Reaps, Over, At
    <2> QED BY <1>10, <2>1, <2>2, <2>3, <2>4, <2>5, <2>6 DEF TaskSteps
  <1> QED
    BY <1>1, <1>2, <1>3, <1>4, <1>5, <1>6, <1>7, <1>8, <1>9, <1>10
    DEF SupervisorNext


\* There is always a slot for a Stop.
LEMMA BoundedKept ==
  ASSUME STypeOK, Bounded, [SupervisorNext]_svars
  PROVE  Bounded'
  <1> DEFINE R == requests
             N == requests \ stop_requests
  <1>1. R \subseteq Slots /\ N \subseteq Slots /\ R' \subseteq Slots /\ N' \subseteq Slots
    BY DEF requests
  <1>2. /\ IsFiniteSet(R) /\ IsFiniteSet(N) /\ Cardinality(R) \in Nat /\ Cardinality(N) \in Nat
        /\ IsFiniteSet(R') /\ IsFiniteSet(N')
    BY <1>1, FewRequests
  <1>3. Cardinality(R) <= MaxRequests + 1 /\ Cardinality(N) <= MaxRequests BY DEF Bounded
  <1>4. SUFFICES Cardinality(R') <= MaxRequests + 1 /\ Cardinality(N') <= MaxRequests
    BY DEF Bounded
  <1>5. CASE Dropping
    <2>1. R' \subseteq R /\ N' \subseteq N BY <1>5 DEF Dropping, requests, stop_requests
    <2>2. Cardinality(R') <= Cardinality(R) /\ Cardinality(N') <= Cardinality(N)
      BY <1>2, <2>1, FS_Subset
    <2>3. Cardinality(R') \in Nat /\ Cardinality(N') \in Nat BY <1>2, FS_CardinalityType
    <2> QED BY <1>2, <1>3, <2>2, <2>3, SupervisorAssumption
  <1>6. CASE Taking
    <2>1. PICK k \in Kinds, m \in Slots \ requests :
             HasSlot(k) /\ pc' = [pc EXCEPT ![m] = "new"] /\ kind' = [kind EXCEPT ![m] = k]
      BY <1>6 DEF Taking
    <2>2. R' = R \cup {m} BY <2>1 DEF requests, STypeOK
    <2>3. m \notin R BY <2>1
    <2>4. Cardinality(R') = Cardinality(R) + 1 BY <1>2, <2>2, <2>3, FS_AddElement
    <2>5. CASE k = "stop"
      <3>1. N' = N BY <2>1, <2>5 DEF requests, stop_requests, STypeOK
      <3>2. Cardinality(R) <= MaxRequests
        BY <1>2, <2>1, <2>5, SupervisorAssumption DEF HasSlot
      <3> QED BY <1>2, <1>3, <2>4, <3>1, <3>2, SupervisorAssumption
    <2>6. CASE k # "stop"
      <3>1. N' = N \cup {m} /\ m \notin N BY <2>1, <2>3, <2>6 DEF requests, stop_requests, STypeOK
      <3>2. Cardinality(N') = Cardinality(N) + 1 BY <1>2, <3>1, FS_AddElement
      <3>3. Cardinality(R) < MaxRequests BY <2>1, <2>6 DEF HasSlot
      <3>4. Cardinality(N) <= Cardinality(R) BY <1>2, FS_Subset
      <3> QED BY <1>2, <2>4, <3>2, <3>3, <3>4, SupervisorAssumption
    <2> QED BY <2>5, <2>6
  <1> QED BY <1>5, <1>6, RequestsMove DEF Moves


\* A request keeps what it has started.
LEMMA KeepsKept ==
  ASSUME STypeOK, Keeps, Reported, [SupervisorNext]_svars
  PROVE  Keeps'
  <1> USE SupervisorAssumption DEF STypeOK, Keeps, Reported, requests, taskVars, probing, Done, ProbeActive, Probes
  <1>1. CASE UNCHANGED svars BY <1>1 DEF svars
  <1>2. CASE Feeds BY <1>2 DEF Feeds
  <1>3. CASE PartialTimeout BY <1>3 DEF PartialTimeout
  <1>4. CASE UserStarts BY <1>4 DEF UserStarts, ProbeStarts
  <1>5. CASE UserCancels BY <1>5 DEF UserCancels
  <1>6. CASE UserCancelled BY <1>6 DEF UserCancelled
  <1>7. CASE Probed BY <1>7 DEF Probed
  <1>8. CASE SClose BY <1>8 DEF SClose
  <1>9. ASSUME NEW k \in Kinds, Dispatch(k) PROVE Keeps'
    BY <1>9 DEF Dispatch
  <1>10. ASSUME NEW m \in Slots, TaskSteps(m) \/ Cut(m) PROVE Keeps'
    <2>1. CASE Begins(m) BY <2>1 DEF Begins, At
    <2>2. CASE Returns(m) BY <2>2 DEF Returns, Over
    <2>3. CASE MeasureStarts(m)
    <3>1. CASE /\ ProbeStarts("request") /\ own' = [own EXCEPT ![m] = probe']
               /\ pc' = [pc EXCEPT ![m] = "own"]
      <4>1. /\ probe' = probe + 1 /\ probe' \in Probes /\ own[m] = 0
            /\ run' = [run EXCEPT ![probe + 1] = "running"] /\ by' = [by EXCEPT ![probe + 1] = "request"]
        BY <2>3, <3>1 DEF MeasureStarts, ProbeStarts
      <4>2. \A l \in Slots : /\ own'[l] # 0 <=> pc'[l] \in {"own", "lock", "reap"}
                             /\ own'[l] <= probe'
        BY <3>1, <4>1
      <4>3. \A l \in Slots : pc'[l] = "lock" => /\ pc[l] = "lock" /\ own'[l] = own[l]
                                               /\ own[l] \in Probes /\ own[l] # probe'
        BY <3>1, <4>1
      <4>4. \A i \in Probes : i # probe' => run'[i] = run[i] /\ by'[i] = by[i] BY <4>1
      <4>5. \A l \in Slots : pc'[l] = "lock" => run'[own'[l]] \in {"complete", "failed"}
        BY <4>1, <4>3, <4>4
      <4>6. ASSUME NEW i \in Probes, by'[i] = "request", run'[i] \notin {"complete", "failed"}
            PROVE  \E l \in Slots : own'[l] = i
        <5>1. CASE i = probe' BY <3>1, <5>1
        <5>2. CASE i # probe'
          <6>1. PICK l \in Slots : own[l] = i BY <4>4, <4>6, <5>2
          <6>2. l # m BY <4>1, <6>1
          <6> QED BY <3>1, <6>1, <6>2
        <5> QED BY <5>1, <5>2
      <4> QED BY <4>2, <4>5, <4>6
    <3>2. CASE Over(m) /\ UNCHANGED probing BY <2>3, <3>2 DEF MeasureStarts, Over
    <3> QED BY <2>3, <3>1, <3>2 DEF MeasureStarts
    <2>4. CASE MeasureSees(m) BY <2>4 DEF MeasureSees, At, Over
    <2>5. CASE Reaped(m) BY <2>5 DEF Reaped, Over
    <2>6. CASE Cut(m)
    <3>1. CASE pc[m] \in {"waits", "start", "new"} /\ Over(m) /\ UNCHANGED run
      BY <2>6, <3>1 DEF Cut, Over
    <3>2. CASE pc[m] \in {"own", "lock"} /\ Done(own[m]) /\ Over(m) /\ UNCHANGED run
      BY <2>6, <3>2 DEF Cut, Over
    <3>3. CASE /\ pc[m] \in {"own", "lock"} /\ ~Done(own[m]) /\ At(m, "reap")
               /\ run' = [run EXCEPT ![own[m]] = "cancelled"]
      BY <2>6, <3>3 DEF Cut, At
    <3> QED BY <2>6, <3>1, <3>2, <3>3 DEF Cut, Reaps
    <2> QED BY <1>10, <2>1, <2>2, <2>3, <2>4, <2>5, <2>6 DEF TaskSteps
  <1> QED
    BY <1>1, <1>2, <1>3, <1>4, <1>5, <1>6, <1>7, <1>8, <1>9, <1>10
    DEF SupervisorNext


\* The report stays that of the latest measurement.
LEMMA ReportedKept ==
  ASSUME STypeOK, Keeps, Reported, [SupervisorNext]_svars
  PROVE  Reported'
  <1> USE SupervisorAssumption DEF STypeOK, Reported, taskVars, probing, Done, ProbeActive, Probes
  <1>1. CASE UNCHANGED svars BY <1>1 DEF svars
  <1>2. CASE Feeds BY <1>2 DEF Feeds
  <1>3. CASE PartialTimeout BY <1>3 DEF PartialTimeout
  <1>4. CASE UserStarts BY <1>4 DEF UserStarts, ProbeStarts
  <1>5. CASE UserCancels BY <1>5 DEF UserCancels
  <1>6. CASE UserCancelled BY <1>6 DEF UserCancelled
  <1>7. CASE Probed BY <1>7 DEF Probed
  <1>8. CASE SClose BY <1>8 DEF SClose
  <1>9. ASSUME NEW k \in Kinds, Dispatch(k) PROVE Reported'
    BY <1>9 DEF Dispatch
  <1>10. ASSUME NEW m \in Slots, TaskSteps(m) \/ Cut(m) PROVE Reported'
    <2>1. CASE Begins(m) BY <2>1 DEF Begins, At
    <2>2. CASE Returns(m) BY <2>2 DEF Returns, Over
    <2>3. CASE MeasureStarts(m) BY <2>3 DEF MeasureStarts, ProbeStarts, Over
    <2>4. CASE MeasureSees(m) BY <2>4 DEF MeasureSees, At, Over
    <2>5. CASE Reaped(m) BY <2>5 DEF Reaped, Over
    <2>6. CASE Cut(m)
    BY <2>6 DEF Cut, Reaps, Over, At, Keeps
    <2> QED BY <1>10, <2>1, <2>2, <2>3, <2>4, <2>5, <2>6 DEF TaskSteps
  <1> QED
    BY <1>1, <1>2, <1>3, <1>4, <1>5, <1>6, <1>7, <1>8, <1>9, <1>10
    DEF SupervisorNext


-----------------------------------------------------------------------------
\* The invariant holds in the beginning and after every step.
THEOREM ControlInvariant == SupervisorSpec => [](STypeOK /\ CInv)
  <1>1. SInit => STypeOK /\ CInv
    <2> SUFFICES ASSUME SInit PROVE STypeOK /\ CInv OBVIOUS
    <2> USE DEF SInit
    <2>1. STypeOK BY DEF STypeOK, Kinds
    <2>2. requests = {} /\ requests \ stop_requests = {} BY DEF requests
    <2>3. Bounded BY <2>2, FS_EmptySet, SupervisorAssumption DEF Bounded
    <2>4. Keeps /\ Reported BY DEF Keeps, Reported, Slots, Probes
    <2> QED BY <2>1, <2>3, <2>4 DEF CInv
  <1>2. STypeOK /\ CInv /\ [SupervisorNext]_svars => STypeOK' /\ CInv'
    BY STypeKept, BoundedKept, KeepsKept, ReportedKept DEF CInv
  <1> QED BY <1>1, <1>2, PTL DEF SupervisorSpec

\* Requests are bounded and a Stop is heard, a measurement that a request has started is over
\* when the request is, and the report a request takes is that of its own.
THEOREM ControlKeptProved == SupervisorSpec => []ControlKept
  <1>1. STypeOK /\ CInv => ControlKept
    <2> SUFFICES ASSUME STypeOK, CInv PROVE ControlKept OBVIOUS
    <2>1. requests \subseteq Slots BY DEF requests
    <2>2. Cardinality(requests) \in Nat /\ Cardinality(requests \ stop_requests) \in Nat
      BY <2>1, FewRequests
    <2>3. stop_requests = {} => requests \ stop_requests = requests OBVIOUS
    <2>4. StopHeard
      BY <2>2, <2>3, SupervisorAssumption DEF CInv, Bounded, StopHeard, HasSlot
    <2>5. MeasurementOwned
      BY SupervisorAssumption DEF CInv, Keeps, Reported, MeasurementOwned, OwnReport, requests, STypeOK, Probes
    <2> QED BY <2>4, <2>5 DEF ControlKept
  <1> QED BY <1>1, ControlInvariant, PTL
================================================================================
