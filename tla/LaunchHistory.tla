---------------------------- MODULE LaunchHistory ----------------------------
(***************************************************************************)
(* Launches with a history variable: the explicit launches that a user has *)
(* overruled.                                                              *)
(***************************************************************************)
EXTENDS Launches

VARIABLE overruled

\* A Stop reached the controller, or a Cancel or a Stop that names the TV was called.
StopTaken == ctl'.gen > ctl.gen /\ UNCHANGED <<worker, manual>> /\ ctl'.src # Other
OverruledSlots ==
    {s \in Slots :
        /\ Busy(s)
        /\ \/ StopTaken
           \/ \E c \in Callers :
                /\ calls[c].op = "none"
                /\ \/ calls'[c].op = "cancel"
                   \/ calls'[c].op = "stop" /\ calls'[c].tv \in manual[s].tvs \cup {All}}

HistoryInit == Init /\ overruled = {}

HistoryNext ==
    /\ Next
    /\ overruled' = {s \in overruled \cup OverruledSlots : manual'[s].pc # "none"}

HistorySpec == HistoryInit /\ [][HistoryNext]_<<vars, overruled>>

\* "Stop and cancel take precedence over pending work" (docs/capitals-live-events.md):
\* a launch that a Stop or a Cancel overruled, however long it then stayed queued
\* behind others, never starts a Play.
OverruledNeverPlays ==
    [][\A s \in Slots : manual[s].pc = "vpn" /\ manual'[s].pc \in {"play", "adding"} =>
         s \notin overruled]_<<vars, overruled>>
=============================================================================
