----------------------------- MODULE Supervisor -----------------------------
(***************************************************************************)
(* Control by the Supervisor over the service's standard input (class      *)
(* SupervisorControl of service/supervisor_control.py), and what it asks   *)
(* of the frame measurement (class FrameProbe of service/frame_probe.py,   *)
(* whose own process is in module Measurements).                           *)
(*                                                                         *)
(*   input    the framing of the bytes: between messages, within one, or   *)
(*            draining after a reject;                                     *)
(*   kind, pc of each task of requests: what it was asked; "none", "new"   *)
(*            before its first step, "waits" for its call, and "start",    *)
(*            "own", "lock" and "reap" of measure(); own: the measurement  *)
(*            it has started, 0 for none;                                  *)
(*   probeLock     who holds FrameProbe.lock; probe: the latest measurement;    *)
(*            run, by: of each measurement how it goes and who started it; *)
(*   status, report  FrameProbe's attributes, report by the measurement    *)
(*            that it is of.                                               *)
(*                                                                         *)
(* The calls that a play and a stop make are modules Launches and          *)
(* Playback: here they return, fail or are cut off.                        *)
(***************************************************************************)
EXTENDS Naturals, FiniteSets

CONSTANTS
    MaxRequests,    \* MAX_REQUESTS
    MaxProbes       \* a bound: how many frame measurements are started

ASSUME SupervisorAssumption == MaxRequests \in Nat /\ MaxProbes \in Nat

VARIABLES input, kind, pc, own, closing, probeLock, probe, run, by, status, report

taskVars == <<kind, pc, own>>
probing == <<probeLock, probe, run, by, status, report>>
svars == <<input, taskVars, closing, probing>>

Kinds == {"play", "stop", "measure"}
Probes == 1..MaxProbes
Slots == 1..MaxRequests + 2         \* one more than are ever taken
requests == {m \in Slots : pc[m] # "none"}
stop_requests == {m \in requests : kind[m] = "stop"}

STypeOK ==
    /\ input \in {"clean", "partial", "draining"} /\ closing \in BOOLEAN
    /\ kind \in [Slots -> Kinds]
    /\ pc \in [Slots -> {"none", "new", "waits", "start", "own", "lock", "reap"}]
    /\ own \in [Slots -> Probes \cup {0}]
    /\ probeLock \in {"free", "user"} /\ probe \in Probes \cup {0}
    /\ run \in [Probes -> {"none", "running", "cancelled", "complete", "failed"}]
    /\ by \in [Probes -> {"user", "request"}]
    /\ status \in {"idle", "running", "complete", "cancelled", "error"}
    /\ report \in Probes \cup {0}

SInit ==
    /\ input = "clean" /\ closing = FALSE
    /\ kind = [m \in Slots |-> "play"] /\ pc = [m \in Slots |-> "none"] /\ own = [m \in Slots |-> 0]
    /\ probeLock = "free" /\ probe = 0 /\ run = [i \in Probes |-> "none"] /\ by = [i \in Probes |-> "user"]
    /\ status = "idle" /\ report = 0

-----------------------------------------------------------------------------
\* feed() and read(): a message begins, is rejected, ends or is given up; after a reject
\* everything up to the end of the line is skipped, for two seconds at most.
Feeds ==
    /\ ~closing
    /\ \/ input = "clean" /\ input' \in {"partial", "draining"}
       \/ input = "partial" /\ input' = "draining"
       \/ input = "draining" /\ input' = "clean"
    /\ UNCHANGED <<taskVars, closing, probing>>

\* Mutant: only a message that was begun is timed.
LateMessage == input = "partial"
Late == input # "clean"
PartialTimeout ==
    /\ ~closing /\ Late /\ input' = "clean"
    /\ UNCHANGED <<taskVars, closing, probing>>

\* dispatch(): a status, or what is not valid, is answered at once; with all slots busy one
\* Stop is still taken, and the rest is told so.
\* Mutant: no slot is kept for Stop.
NoSlotKept(k) == Cardinality(requests) < MaxRequests
HasSlot(k) ==
    \/ Cardinality(requests) < MaxRequests
    \/ k = "stop" /\ Cardinality(requests) = MaxRequests /\ stop_requests = {}
Dispatch(k) ==
    /\ ~closing /\ input = "partial" /\ input' = "clean"
    /\ \/ HasSlot(k) /\ \E m \in Slots \ requests :
              /\ \A l \in Slots \ requests : m <= l
              /\ pc' = [pc EXCEPT ![m] = "new"] /\ kind' = [kind EXCEPT ![m] = k]
       \/ UNCHANGED <<pc, kind>>
    /\ UNCHANGED <<own, closing, probing>>

Over(m) ==
    /\ pc' = [pc EXCEPT ![m] = "none"] /\ own' = [own EXCEPT ![m] = 0]
    /\ kind' = [kind EXCEPT ![m] = "play"]
At(m, st) == pc' = [pc EXCEPT ![m] = st] /\ UNCHANGED <<kind, own>>

\* play() and stop_receiver(): their call returns or fails.
Begins(m) ==
    /\ pc[m] = "new" /\ At(m, IF kind[m] = "measure" THEN "start" ELSE "waits")
    /\ UNCHANGED <<input, closing, probing>>
Returns(m) ==
    /\ pc[m] = "waits" /\ Over(m)
    /\ UNCHANGED <<input, closing, probing>>

-----------------------------------------------------------------------------
\* FrameProbe.start(), called by a user or by measure(), which keeps the task it has started.
Done(i) == run[i] \in {"complete", "failed"}
ProbeActive == probe # 0 /\ ~Done(probe)
ProbeStarts(w) ==
    /\ probeLock = "free" /\ ~ProbeActive /\ probe < MaxProbes
    /\ probe' = probe + 1 /\ run' = [run EXCEPT ![probe + 1] = "running"]
    /\ by' = [by EXCEPT ![probe + 1] = w]
    /\ status' = "running" /\ report' = 0 /\ UNCHANGED probeLock

UserStarts == ProbeStarts("user") /\ UNCHANGED <<input, taskVars, closing>>

\* FrameProbe.cancel(): it keeps the probeLock until the task is done.
UserCancels ==
    /\ probeLock = "free" /\ ProbeActive /\ probeLock' = "user"
    /\ run' = [run EXCEPT ![probe] = "cancelled"]
    /\ UNCHANGED <<input, taskVars, closing, probe, by, status, report>>
UserCancelled ==
    /\ probeLock = "user" /\ ~ProbeActive /\ probeLock' = "free" /\ status' = "cancelled" /\ report' = 0
    /\ UNCHANGED <<input, taskVars, closing, probe, run, by>>

\* FrameProbe.run() ends; what it leaves in status and report is its last step.
Probed ==
    /\ ProbeActive
    /\ \/ /\ run[probe] = "running" /\ status' = "complete" /\ report' = probe
          /\ run' = [run EXCEPT ![probe] = "complete"]
       \/ /\ status' = (IF run[probe] = "running" THEN "error" ELSE "cancelled") /\ report' = 0
          /\ run' = [run EXCEPT ![probe] = "failed"]
    /\ UNCHANGED <<input, taskVars, closing, probeLock, probe, by>>

\* measure(): its steps up to the report, which counts when the latest measurement is still
\* its own and is complete.
OwnReport(m) == probe = own[m] /\ status = "complete"
MeasureStarts(m) ==
    /\ pc[m] = "start"
    /\ \/ /\ ProbeStarts("request") /\ own' = [own EXCEPT ![m] = probe']
          /\ pc' = [pc EXCEPT ![m] = "own"] /\ UNCHANGED kind
       \/ probeLock = "free" /\ Over(m) /\ UNCHANGED probing             \* it is refused
    /\ UNCHANGED <<input, closing>>

MeasureSees(m) ==
    /\ \/ pc[m] = "own" /\ Done(own[m]) /\ (At(m, "lock") \/ (run[own[m]] = "failed" /\ Over(m)))
       \/ pc[m] = "lock" /\ probeLock = "free" /\ Over(m)                \* with the report, or without
    /\ UNCHANGED <<input, closing, probing>>

\* reap_owned(): the measurement is cancelled and waited for, however often the request is
\* cancelled.
Reaps(m) ==
    IF Done(own[m]) THEN Over(m) /\ UNCHANGED run
    ELSE At(m, "reap") /\ run' = [run EXCEPT ![own[m]] = "cancelled"]
Reaped(m) ==
    /\ pc[m] = "reap" /\ Done(own[m]) /\ Over(m)
    /\ UNCHANGED <<input, closing, probing>>

\* A task is cancelled by its deadline, or by close(), which also cancels one that has not
\* begun: it ends without an answer.
Cut(m) ==
    /\ \/ pc[m] \in {"waits", "start"} /\ Over(m) /\ UNCHANGED run
       \/ pc[m] \in {"own", "lock"} /\ Reaps(m)
       \/ pc[m] = "new" /\ closing /\ Over(m) /\ UNCHANGED run
    /\ UNCHANGED <<input, closing, probeLock, probe, by, status, report>>

SClose ==
    /\ ~closing /\ closing' = TRUE /\ input' = "clean"
    /\ UNCHANGED <<taskVars, probing>>

-----------------------------------------------------------------------------
TaskSteps(m) == Begins(m) \/ Returns(m) \/ MeasureStarts(m) \/ MeasureSees(m) \/ Reaped(m)
SupervisorNext ==
    \/ Feeds \/ PartialTimeout \/ UserStarts \/ UserCancels \/ UserCancelled \/ Probed \/ SClose
    \/ \E k \in Kinds : Dispatch(k)
    \/ \E m \in Slots : TaskSteps(m) \/ Cut(m)

SupervisorSpec == SInit /\ [][SupervisorNext]_svars

\* asyncio runs what is ready, and every call has a deadline.
SupervisorFairness ==
    /\ WF_svars(PartialTimeout) /\ WF_svars(UserCancelled) /\ WF_svars(Probed)
    /\ \A m \in Slots : WF_svars(TaskSteps(m)) /\ WF_svars(Cut(m))

-----------------------------------------------------------------------------
\* Requests are bounded; a Stop finds a slot unless another one is under way, however many
\* requests wait.
StopHeard ==
    /\ Cardinality(requests) <= MaxRequests + 1
    /\ Cardinality(requests \ stop_requests) <= MaxRequests
    /\ stop_requests = {} => HasSlot("stop")

\* A measurement that a request has started is over when the request is, and what a request
\* takes for its report is that of its own measurement, which is complete.
MeasurementOwned ==
    /\ \A i \in Probes : by[i] = "request" /\ ~Done(i) => \E m \in requests : own[m] = i
    /\ \A m \in requests : pc[m] = "lock" /\ probeLock = "free" /\ OwnReport(m) => report = own[m]

\* Requests are bounded, a Stop is heard, and a measurement belongs to its request.
ControlKept == STypeOK /\ StopHeard /\ MeasurementOwned

\* Every request ends, and the input always becomes ready for another message.
ControlEnds == []<>(input = "clean") /\ \A m \in Slots : []<>(pc[m] = "none")
=============================================================================
