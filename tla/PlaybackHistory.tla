--------------------------- MODULE PlaybackHistory ---------------------------
(***************************************************************************)
(* Playback with a history variable: the TVs that a Stop has named since   *)
(* the Play in progress began, those that Controller.stop found in neither *)
(* targets nor pending_targets, and so ignored, included.                  *)
(***************************************************************************)
EXTENDS Playback

VARIABLE asked

Named(r) == IF r = All THEN Receivers ELSE {r}

\* stop(receiver_id) returns at its second check: nothing but asked changes.
StopIgnored(r) ==
    /\ r \notin ctl.targets \cup ctl.pendingTargets
    /\ asked' = asked \cup {r}
    /\ UNCHANGED vars

HistoryInit == Init /\ asked = {}

HistoryNext ==
    \/ Lock /\ asked' = {}
    \/ \E k \in Stoppers, r \in Receivers \cup {All} :
         (StopOne(k, r) \/ StopWhole(k, r)) /\ asked' = asked \cup Named(r)
    \/ \E r \in Receivers : StopIgnored(r)
    \/ /\ \/ PlaySteps \/ PlayCancelled \/ PlayAbandoned
          \/ \E k \in Stoppers : StopSteps(k) \/ StopCancelled(k)
          \/ \E s \in Streams : Tasks(s) \/ Media(s)
       /\ UNCHANGED asked

HistorySpec == HistoryInit /\ [][HistoryNext]_<<vars, asked>>

\* "Stop can cancel source warmup" (docs/architecture.md), also for one TV: once a
\* Stop has named a TV, the Play that was in progress does not add that TV.
StoppedIsNotAdded ==
    [][play.pc # "idle" =>
         \A s \in Streams :
             (Told(s)' \ Told(s)) \cap asked = {}]_<<vars, asked>>
=============================================================================
