---------------------------- MODULE ReceiverLease ----------------------------
(***************************************************************************)
(* What the playback lifecycle promises about TVs, without saying how: a   *)
(* TV is sent media by at most one stream; it changes hands only by being  *)
(* free in between, so that the teardown of one stream can never reach the *)
(* session another one opened; and a stream that is being given up never   *)
(* takes a TV again.  Playback implements this specification.              *)
(***************************************************************************)
CONSTANTS Receivers, Streams, None

VARIABLES
    holder,     \* the stream that sends to a TV
    retired     \* streams being closed, or ended

leaseVars == <<holder, retired>>

LeaseInit ==
    /\ holder = [r \in Receivers |-> None]
    /\ retired = {}

Attach(s, r) ==
    /\ s \notin retired /\ holder[r] = None
    /\ holder' = [holder EXCEPT ![r] = s]
    /\ UNCHANGED retired

Released(R) == [r \in Receivers |-> IF r \in R THEN None ELSE holder[r]]

Detach(R) ==
    /\ holder' = Released(R)
    /\ UNCHANGED retired

\* Streams are given up; those that are gone at once free their TVs.
Retire(R) ==
    /\ retired' \in SUBSET Streams /\ retired \subseteq retired'
    /\ \A r \in R : holder[r] \in retired'
    /\ holder' = Released(R)

LeaseNext ==
    \/ \E s \in Streams, r \in Receivers : Attach(s, r)
    \/ \E R \in SUBSET Receivers : Detach(R) \/ Retire(R)

LeaseSpec == LeaseInit /\ [][LeaseNext]_leaseVars
=============================================================================
