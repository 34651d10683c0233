-------------------------------- MODULE Owned --------------------------------
(***************************************************************************)
(* What a resource of a direct video (the stream, the listener, the        *)
(* worker) is to the session that owns it, as a record:                    *)
(*                                                                         *)
(*   st      start() was not called, runs, returned, or raised;            *)
(*   asked   close() was called, by the owner or by the resource itself;   *)
(*   held    it has something: a process, a directory, a listener, a file; *)
(*   failed  it has seen a failure;                                        *)
(*   closed  its event closed: "no", "clean", or "raised" when close()     *)
(*           raises to its callers.                                        *)
(*                                                                         *)
(* It is closed only when it holds nothing, and holds nothing later.       *)
(***************************************************************************)
VARIABLE r

Resources == [st : {"new", "starting", "up", "over"}, asked : BOOLEAN, held : BOOLEAN,
              failed : BOOLEAN, closed : {"no", "clean", "raised"}]
Fresh == [st |-> "new", asked |-> FALSE, held |-> FALSE, failed |-> FALSE, closed |-> "no"]

Init == r = Fresh

Start == r.st = "new" /\ ~r.asked /\ r' = [r EXCEPT !.st = "starting", !.held = TRUE]
\* The owner asks for a close() only after start() has ended, so one that was asked for
\* before is that of a start() which raises.
Up == r.st = "starting" /\ ~r.asked /\ r' = [r EXCEPT !.st = "up"]
\* start() raises when it has closed, or is cancelled and leaves that to its owner.
Over == r.st = "starting" /\ r' = [r EXCEPT !.st = "over"]
Fails == r.closed = "no" /\ r' = [r EXCEPT !.failed = TRUE]
Ask == r' = [r EXCEPT !.asked = TRUE]
Close == r.asked /\ r.closed = "no" /\ \E c \in {"clean", "raised"} :
             r' = [r EXCEPT !.held = FALSE, !.closed = c]

Legal(q) ==
    /\ \/ q.st = r.st
       \/ r.st = "new" /\ q.st = "starting" /\ ~r.asked
       \/ r.st = "starting" /\ q.st \in {"up", "over"}
    /\ q.st = "up" /\ r.st # "up" => r.closed = "no"
    /\ r.asked => q.asked
    /\ q.st = "new" => ~q.held
    /\ IF r.closed = "no" THEN r.failed => q.failed
       ELSE q.closed = r.closed /\ q.failed = r.failed
    /\ q.closed # "no" => r.asked /\ ~q.held

Next == r' \in Resources /\ Legal(r')
Spec == Init /\ [][Next]_r
=============================================================================
