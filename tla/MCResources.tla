---------------------------- MODULE MCResources ----------------------------
(***************************************************************************)
(* The resources of a direct video, each by itself: part says which.       *)
(***************************************************************************)
EXTENDS HlsStream, EnginePlayer

VARIABLE part

mcvars == <<hvars, wvars, part>>

MCInit == HInit /\ WInit /\ part \in {"stream", "worker"}
MCNext ==
    \/ part = "stream" /\ StreamNext /\ UNCHANGED <<wvars, part>>
    \/ part = "worker" /\ WorkerNext /\ UNCHANGED <<hvars, part>>
MCSpec == MCInit /\ [][MCNext]_mcvars /\ StreamFairness /\ WorkerFairness

\* Both resources keep their promise, release what they have, and end.
PartsAreOwned == StreamIsOwned /\ WorkerIsOwned
PartsEnd == []<>(StreamSettled /\ WorkerSettled)
\* What each says when it is closed is true: nothing of it is left, and the media went last ...
ClosedIsGone == HTypeOK /\ WTypeOK /\ StreamClosedIsGone /\ MediaRemovedLast /\ WorkerClosedIsGone
\* ... it ended well only when its process did.
StatusIsTrue == FinishedIsWhole /\ NoHiddenFailure
=============================================================================
