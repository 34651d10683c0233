-------------------------------- MODULE Feed --------------------------------
(***************************************************************************)
(* What the media pipeline of one engine process promises to a reader (a   *)
(* TV's connection or a recording): from the first keyframe encoded after  *)
(* it subscribed it gets every packet, in the order of their encoding,     *)
(* until its feed is cut; a feed that is cut never resumes, and a reader   *)
(* never holds up the encoders or the other readers.                       *)
(***************************************************************************)
EXTENDS Naturals, Sequences

CONSTANTS Readers, Kinds

VARIABLES
    log,    \* the kinds of the packets published so far
    feed    \* the subscription of each reader

vars == <<log, feed>>

Cut == [on |-> FALSE, since |-> 0, last |-> 0]

\* n is the packet a reader with subscription f gets next: the one after its
\* last, and before that the first keyframe published since it subscribed.
NextOf(f, n) ==
    IF f.last > 0
    THEN n = f.last + 1
    ELSE /\ n > f.since /\ log[n] = "key"
         /\ \A i \in f.since+1..n-1 : log[i] # "key"

Init == log = <<>> /\ feed = [x \in Readers |-> Cut]

\* Some readers lose their subscription: they failed, were stopped, or hold all
\* they may when a packet is published.
Lose == \E X \in SUBSET Readers :
          feed' = [x \in Readers |-> IF x \in X THEN Cut ELSE feed[x]]

Publish == /\ \E k \in Kinds : log' = Append(log, k)
           /\ Lose

Subscribe(x) == /\ ~feed[x].on
                /\ feed' = [feed EXCEPT ![x] = [on |-> TRUE, since |-> Len(log), last |-> 0]]
                /\ UNCHANGED log

Take(x) == /\ feed[x].on
           /\ \E n \in 1..Len(log) : /\ NextOf(feed[x], n)
                                     /\ feed' = [feed EXCEPT ![x].last = n]
           /\ UNCHANGED log

Next == Publish \/ (Lose /\ UNCHANGED log) \/ \E x \in Readers : Subscribe(x) \/ Take(x)

Spec == Init /\ [][Next]_vars
=============================================================================
