----------------------------- MODULE MCServices -----------------------------
(***************************************************************************)
(* The browser, the measurements and the Supervisor's control, each by     *)
(* itself: part says which.                                                *)
(***************************************************************************)
EXTENDS Desktop, Measurements, Supervisor

VARIABLE part

mcvars == <<dvars, mvars, svars, part>>

MCInit == DInit /\ MInit /\ SInit /\ part \in {"desktop", "measurements", "supervisor"}
MCNext ==
    \/ part = "desktop" /\ DesktopNext /\ UNCHANGED <<mvars, svars, part>>
    \/ part = "measurements" /\ MeasurementsNext /\ UNCHANGED <<dvars, svars, part>>
    \/ part = "supervisor" /\ SupervisorNext /\ UNCHANGED <<dvars, mvars, part>>
MCSpec ==
    MCInit /\ [][MCNext]_mcvars /\ DesktopFairness /\ MeasurementsFairness /\ SupervisorFairness

\* DesktopEnds, MeasurementsEnd and ControlEnds: the three of them end what they were asked for.
\* Those that do not run are settled, so that one formula may stand for the first two.
ServicesEnd == []<>(DesktopSettled /\ MeasurementsSettled) /\ ControlEnds
=============================================================================
