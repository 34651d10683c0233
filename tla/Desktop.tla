------------------------------- MODULE Desktop -------------------------------
(***************************************************************************)
(* The browser on its virtual display (class Browser of                    *)
(* service/browser.py) and the channel to the extension in it (class       *)
(* Companion of service/companion.py).  Chrome and the extension           *)
(* (companion/background.js) are the environment: a command is executed in *)
(* the order in which it was sent, late or never, and its reply may be     *)
(* lost; every command that was sent may still be executed.                *)
(*                                                                         *)
(*   running, url, initial, profile  the attributes of these names;        *)
(*   browserLock, controlLock  who holds lock and control_lock;            *)
(*   user     what each user's request (navigate, back, fullscreen or      *)
(*            paste) waits for; what it is told in the end is left out;    *)
(*   closer   close(), asked for once;                                     *)
(*   tube     the task prepare_youtube, rounds its rounds;                 *)
(*   link     the companion's writer: "up", "closing" after writer.close() *)
(*            until its reader sees it, "down";                            *)
(*   call     the call that holds the companion's lock: its number         *)
(*            (sequence), 0 for none, and what has become of it;           *)
(*   wire, replies  commands that Chrome has not executed, and replies     *)
(*            that were not read; live: their connection is still up;      *)
(*   page, tabs, viewonly  the page shown, the tabs that were created and  *)
(*            whether the preview's input is paused;                       *)
(*   held     how far the attempt has come that pauses it: fullscreen, by  *)
(*            the task or a user, or paste, which hold control_lock;       *)
(*   resumed  why a paused input was not resumed: the command failed or    *)
(*            was cut off (a history variable).                            *)
(*                                                                         *)
(* Code between two awaits is one action.  The users' requests hold        *)
(* Controller.lock, so that one is under way at a time; a close need not.  *)
(* Links that somebody follows in the preview are left out.                *)
(***************************************************************************)
EXTENDS Naturals, Sequences, FiniteSets

CONSTANTS
    Users,          \* each makes one request: to navigate to the page of its name, or another
    Sportsnet,      \* the users whose page belongs to the profile "sportsnet"
    Rounds          \* 45: rounds of prepare_youtube

ASSUME DesktopAssumption ==
    /\ Sportsnet \subseteq Users /\ Rounds \in Nat
    /\ Users \cap {"free", "close", "tube", "none", "blank", "other"} = {}

VARIABLES running, url, initial, profile, browserLock, controlLock, user, closer, tube, rounds,
          link, call, sequence, wire, replies, page, tabs, viewonly, held, resumed

state == <<running, url, initial, profile>>
channel == <<link, call, sequence, wire, replies>>
chrome == <<page, tabs>>
preview == <<viewonly, held, resumed>>
youtube == <<tube, rounds, preview>>
locks == <<browserLock, controlLock>>
dvars == <<state, locks, user, closer, channel, chrome, youtube>>

Profile(u) == IF u \in Sportsnet THEN "sportsnet" ELSE "default"
NoCall == [id |-> 0, st |-> "none"]
Commands == [id : Nat, op : {"navigate", "back", "prepare"}, u : Users \cup {"tube"},
             new : BOOLEAN, live : BOOLEAN]

DTypeOK ==
    /\ {running, viewonly} \subseteq BOOLEAN
    /\ url \in Users \cup {"none"} /\ page \in Users \cup {"blank", "other"}
    /\ initial \in {"new", "uncertain", "ready"}
    /\ profile \in {"default", "sportsnet"}
    /\ browserLock \in Users \cup {"free", "close"} /\ controlLock \in Users \cup {"free", "close", "tube"}
    /\ user \in [Users -> {"idle", "start", "switch", "switching", "starting", "control", "back",
                           "navigate", "going", "fullscreen", "full", "paste", "pasting", "done"}]
    /\ closer \in {"none", "tube", "lock", "control", "closing", "done"}
    /\ tube \in {"none", "wait", "prepare", "full"}
    /\ held \in {"none", "pause", "keys", "resume"} /\ resumed \in {"yes", "failed", "cut"}
    /\ rounds \in 0..Rounds /\ sequence \in Nat /\ tabs \in Nat
    /\ link \in {"up", "closing", "down"}
    /\ call \in [id : Nat, st : {"none", "sent", "ok", "failed"}]
    /\ wire \in Seq(Commands) /\ replies \subseteq [id : Nat, ok : BOOLEAN]

DInit ==
    /\ running = FALSE /\ url = "none" /\ initial = "new" /\ profile = "default"
    /\ browserLock = "free" /\ controlLock = "free" /\ user = [u \in Users |-> "idle"] /\ closer = "none"
    /\ tube = "none" /\ rounds = 0 /\ viewonly = FALSE /\ held = "none" /\ resumed = "yes"
    /\ link = "down" /\ call = NoCall /\ sequence = 0 /\ wire = <<>> /\ replies = {}
    /\ page = "blank" /\ tabs = 0

To(u, pc) == user' = [user EXCEPT ![u] = pc]

-----------------------------------------------------------------------------
\* An attempt that pauses the preview's input is cancelled: a command under way is killed, and
\* may have paused it; the finally clause resumes it.
\* Mutant: it is resumed only after the keys were delivered.
InterruptedUnguarded == held' = "none" /\ viewonly' = viewonly
Interrupted ==
    /\ held' = "resume"
    /\ viewonly' \in IF held = "pause" THEN {viewonly, viewonly \/ running} ELSE {viewonly}

\* cancel_youtube: the task ends where it waits, its pending call is given up; a fullscreen
\* resumes the preview's input first, which a cancellation does not interrupt.
CancelTube ==
    /\ tube' = IF tube = "full" THEN "full" ELSE "none"
    /\ IF tube = "full" THEN Interrupted ELSE UNCHANGED <<held, viewonly>>
    /\ controlLock' = IF tube = "prepare" THEN "free" ELSE controlLock
    /\ call' = IF tube = "prepare" THEN NoCall ELSE call
    /\ UNCHANGED <<rounds, resumed>>

\* Companion.call: the command is written, or the companion is not connected.
Send(op, u, new) ==
    /\ sequence' = sequence + 1
    /\ call' = [id |-> sequence', st |-> IF link = "up" THEN "sent" ELSE "failed"]
    /\ wire' = IF link = "up"
               THEN Append(wire, [id |-> sequence', op |-> op, u |-> u, new |-> new, live |-> TRUE])
               ELSE wire
    /\ UNCHANGED <<link, replies>>

Stale(cs) == [i \in DOMAIN cs |-> [cs[i] EXCEPT !.live = FALSE]]

\* The reply does not come in time: the connection is given up, the command is not repeated.
TimesOut ==
    /\ call.st = "sent"
    /\ call' = [call EXCEPT !.st = "failed"]
    /\ link' = IF link = "up" THEN "closing" ELSE link
    /\ UNCHANGED <<state, locks, user, closer, sequence, wire, replies, chrome, youtube>>

\* accept(): the connection ends.  What Chrome has read of it is still executed.
Disconnects ==
    /\ link # "down" /\ link' = "down"
    /\ call' = IF call.st = "sent" THEN [call EXCEPT !.st = "failed"] ELSE call
    /\ wire' \in {Stale(wire), <<>>} /\ replies' = {}
    /\ UNCHANGED <<state, locks, user, closer, sequence, chrome, youtube>>

Connects ==
    /\ running /\ link = "down" /\ link' = "up"
    /\ UNCHANGED <<state, locks, user, closer, call, sequence, wire, replies, chrome, youtube>>

\* A reply is read: it is that of the call that waits, or nobody's.
\* Mutant: the call that waits takes any reply.
AnswersAnyone(r) == call.st = "sent"
Answers(r) == call.st = "sent" /\ call.id = r.id
Reply(r) ==
    /\ link # "down" /\ r \in replies
    /\ replies' = replies \ {r}
    /\ call' = IF Answers(r) THEN [call EXCEPT !.st = IF r.ok THEN "ok" ELSE "failed"] ELSE call
    /\ UNCHANGED <<state, locks, user, closer, link, sequence, wire, chrome, youtube>>

\* Chrome executes the next command; an error is told after or instead of it.
Executes ==
    /\ wire # <<>> /\ wire' = Tail(wire)
    /\ LET c == Head(wire) IN
       \E done \in BOOLEAN, ok \in BOOLEAN :
           /\ ok => done
           /\ page' = IF ~done THEN page ELSE
                      CASE c.op = "navigate" -> c.u [] c.op = "back" -> "other" [] OTHER -> page
           /\ tabs' = IF done /\ c.op = "navigate" /\ c.new THEN tabs + 1 ELSE tabs
           /\ replies' = IF c.live THEN replies \cup {[id |-> c.id, ok |-> ok]} ELSE replies
    /\ UNCHANGED <<state, locks, user, closer, link, call, sequence, youtube>>

-----------------------------------------------------------------------------
\* _close, its last step: Chrome and the display are gone.  Its companion call is left out:
\* what becomes of it is ignored.
Gone ==
    /\ running' = FALSE /\ url' = "none" /\ initial' = "new"
    /\ link' = "down" /\ call' = NoCall /\ wire' = <<>> /\ replies' = {}
    /\ page' = "blank" /\ tabs' = 0 /\ viewonly' = FALSE /\ resumed' = "yes"

Free(u) == user[u] = "idle" /\ \A v \in Users : user[v] \in {"idle", "done"}
Navigate(u) ==
    /\ Free(u) /\ To(u, "start")
    /\ UNCHANGED <<state, locks, closer, channel, chrome, youtube>>

\* start(): it has the lock.  A change of profile waits for control_lock.
Starts(u) ==
    /\ user[u] = "start" /\ browserLock = "free"
    /\ \/ /\ profile # Profile(u)
          /\ browserLock' = u /\ To(u, "switch") /\ CancelTube /\ UNCHANGED <<link, sequence, wire, replies>>
       \/ /\ profile = Profile(u) /\ running
          /\ To(u, "control") /\ CancelTube /\ UNCHANGED <<browserLock, link, sequence, wire, replies>>
       \/ /\ profile = Profile(u) /\ ~running
          /\ browserLock' = u /\ To(u, "starting") /\ UNCHANGED <<controlLock, channel, youtube>>
    /\ UNCHANGED <<state, closer, chrome>>

Switches(u) ==
    /\ user[u] = "switch" /\ controlLock = "free"
    /\ controlLock' = u /\ To(u, "switching")
    /\ UNCHANGED <<state, browserLock, closer, channel, chrome, youtube>>

Switched(u) ==
    /\ user[u] = "switching" /\ controlLock' = "free"
    /\ \/ To(u, "starting") /\ profile' = Profile(u) /\ UNCHANGED browserLock
       \/ To(u, "done") /\ browserLock' = "free" /\ UNCHANGED profile      \* it was cancelled
    /\ Gone /\ UNCHANGED <<closer, sequence, tube, rounds, held>>

\* _start_once ends, and navigate() goes on; or it fails, and closes what it has started.
Started(u) ==
    /\ user[u] = "starting" /\ To(u, "control") /\ browserLock' = "free"
    /\ running' = TRUE /\ url' = "none" /\ initial' = "new" /\ link' = "up"
    /\ CancelTube
    /\ UNCHANGED <<profile, closer, sequence, wire, replies, chrome>>

StartFails(u) ==
    /\ user[u] = "starting" /\ To(u, "done") /\ browserLock' = "free"
    /\ Gone /\ UNCHANGED <<profile, controlLock, closer, sequence, tube, rounds, held>>

\* navigate(): it has control_lock.
\* Mutant: the first navigation counts only when it was acknowledged.
FirstAcknowledged == initial
FirstSent == IF initial = "new" THEN "uncertain" ELSE initial
Goes(u) ==
    /\ user[u] = "control" /\ controlLock = "free"
    /\ \/ /\ running /\ initial # "uncertain"
          /\ controlLock' = u /\ To(u, "navigate") /\ url' = "none" /\ initial' = FirstSent
          /\ Send("navigate", u, initial = "new")
       \/ /\ ~running \/ initial = "uncertain"
          /\ To(u, "done") /\ UNCHANGED <<controlLock, url, initial, channel>>
    /\ UNCHANGED <<running, profile, browserLock, closer, chrome, youtube>>

Went(u) ==
    /\ user[u] = "navigate" /\ call.st = "ok"
    /\ To(u, "done") /\ controlLock' = "free" /\ call' = NoCall
    /\ initial' = "ready" /\ url' = u
    /\ \/ tube' = "wait" /\ rounds' = 0            \* a YouTube page
       \/ UNCHANGED <<tube, rounds>>
    /\ UNCHANGED <<running, profile, browserLock, closer, link, sequence, wire, replies, chrome, preview>>

WentNot(u) ==
    /\ user[u] \in {"navigate", "going"} /\ call.st = "failed"
    /\ To(u, "done") /\ controlLock' = "free" /\ call' = NoCall
    /\ UNCHANGED <<state, browserLock, closer, link, sequence, wire, replies, chrome, youtube>>

\* control("back"): the page changes to one that is not known.
Back(u) ==
    /\ Free(u) /\ running /\ To(u, "back") /\ CancelTube
    /\ UNCHANGED <<state, browserLock, closer, link, sequence, wire, replies, chrome>>
\* The address is forgotten at once.
Forget == "none"
GoesBack(u) ==
    /\ user[u] = "back" /\ controlLock = "free"
    /\ IF running THEN controlLock' = u /\ To(u, "going") /\ url' = Forget /\ Send("back", u, FALSE)
       ELSE To(u, "done") /\ UNCHANGED <<controlLock, url, channel>>
    /\ UNCHANGED <<running, initial, profile, browserLock, closer, chrome, youtube>>
WentBack(u) ==
    /\ user[u] = "going" /\ call.st = "ok"
    /\ To(u, "done") /\ controlLock' = "free" /\ call' = NoCall
    /\ UNCHANGED <<state, browserLock, closer, link, sequence, wire, replies, chrome, youtube>>

\* The request is cancelled: a pending call is given up, its command may still be executed.
\* A start or a change of profile that has begun closes what it has first.
CancelUser(u) ==
    /\ user[u] \in {"start", "switch", "control", "back", "navigate", "going", "fullscreen", "paste"}
    /\ To(u, "done")
    /\ browserLock' = IF browserLock = u THEN "free" ELSE browserLock
    /\ controlLock' = IF controlLock = u THEN "free" ELSE controlLock
    /\ call' = IF controlLock = u THEN NoCall ELSE call
    /\ UNCHANGED <<state, closer, link, sequence, wire, replies, chrome, youtube>>

-----------------------------------------------------------------------------
\* prepare_youtube: the page is asked until it is ready, and made fullscreen then.
TubeAsks ==
    /\ tube = "wait" /\ controlLock = "free" /\ rounds < Rounds
    /\ tube' = "prepare" /\ controlLock' = "tube" /\ rounds' = rounds + 1
    /\ Send("prepare", "tube", FALSE)
    /\ UNCHANGED <<state, browserLock, user, closer, chrome, preview>>

TubeAnswered ==
    /\ tube = "prepare" /\ call.st \in {"ok", "failed"} /\ call' = NoCall
    /\ \/ tube' = "none" /\ controlLock' = "free"                       \* failed, or interaction
       \/ call.st = "ok" /\ tube' = "wait" /\ controlLock' = "free"     \* not ready
       \/ call.st = "ok" /\ tube' = "full" /\ UNCHANGED controlLock
    /\ held' = IF tube' = "full" THEN "pause" ELSE held
    /\ UNCHANGED <<state, browserLock, user, closer, link, sequence, wire, replies, chrome, rounds, viewonly, resumed>>

TubeEnds ==
    /\ tube = "wait" /\ rounds = Rounds /\ tube' = "none"
    /\ UNCHANGED <<state, locks, user, closer, channel, chrome, rounds, preview>>

\* control("fullscreen") and control("paste").
Asks(u) ==
    /\ Free(u) /\ running
    /\ \/ To(u, "fullscreen") /\ CancelTube
       \/ To(u, "paste") /\ UNCHANGED <<controlLock, call, youtube>>
    /\ UNCHANGED <<state, browserLock, closer, link, sequence, wire, replies, chrome>>
Takes(u) ==
    /\ user[u] \in {"fullscreen", "paste"} /\ controlLock = "free"
    /\ To(u, IF user[u] = "paste" THEN "pasting" ELSE "full")
    /\ controlLock' = u /\ held' = "pause"
    /\ UNCHANGED <<state, browserLock, closer, channel, chrome, tube, rounds, viewonly, resumed>>

\* youtube_fullscreen and paste: the preview's input is paused, or that fails; the keys are
\* delivered, or that fails or takes too long; the input is resumed whatever happened, and a
\* failure of that is not told.
Pauses ==
    /\ held = "pause"
    /\ \/ running /\ viewonly' = TRUE /\ held' = "keys" /\ resumed' = "yes"
       \/ Interrupted /\ UNCHANGED resumed
    /\ UNCHANGED <<state, locks, user, closer, channel, chrome, tube, rounds>>
Delivers ==
    /\ held = "keys" /\ held' = "resume"
    /\ UNCHANGED <<state, locks, user, closer, channel, chrome, tube, rounds, viewonly, resumed>>

\* The attempt ends, and with it the task or the user's request.
Ends ==
    /\ held' = "none" /\ controlLock' = "free"
    /\ \/ controlLock = "tube" /\ tube' = "none" /\ UNCHANGED user
       \/ \E u \in Users : controlLock = u /\ To(u, "done") /\ UNCHANGED tube
Resumes ==
    /\ held = "resume" /\ Ends
    /\ \/ viewonly' = FALSE /\ resumed' = "yes"
       \/ viewonly /\ UNCHANGED viewonly /\ resumed' = "failed"
    /\ UNCHANGED <<state, browserLock, closer, channel, chrome, rounds>>

\* A fullscreen or a paste is cancelled.  The command that resumes the input is shielded in a
\* fullscreen; in a paste it is killed, and may have been executed.
CancelAttempt(u) ==
    /\ \/ user[u] \in {"full", "pasting"} /\ held \in {"pause", "keys"}
          /\ Interrupted /\ UNCHANGED <<user, controlLock, tube, resumed>>
       \/ user[u] = "pasting" /\ held = "resume" /\ Ends
          /\ \/ viewonly' = FALSE /\ resumed' = "yes"
             \/ viewonly /\ UNCHANGED viewonly /\ resumed' = "cut"
    /\ UNCHANGED <<state, browserLock, closer, channel, chrome, rounds>>

-----------------------------------------------------------------------------
\* close()
Close ==
    /\ closer = "none" /\ closer' = "tube" /\ CancelTube
    /\ UNCHANGED <<state, browserLock, user, link, sequence, wire, replies, chrome>>

CloseWaits ==
    /\ \/ closer = "tube" /\ tube = "none" /\ closer' = "lock" /\ UNCHANGED <<browserLock, controlLock>>
       \/ closer = "lock" /\ browserLock = "free" /\ browserLock' = "close" /\ closer' = "control" /\ UNCHANGED controlLock
       \/ closer = "control" /\ controlLock = "free" /\ controlLock' = "close" /\ closer' = "closing" /\ UNCHANGED browserLock
    /\ UNCHANGED <<state, user, channel, chrome, youtube>>

Closes ==
    /\ closer = "closing" /\ closer' = "done"
    /\ browserLock' = "free" /\ controlLock' = "free"
    /\ tube' = IF tube = "wait" THEN "none" ELSE tube
    /\ Gone /\ UNCHANGED <<profile, user, sequence, rounds, held>>

DesktopOwn ==
    \/ \E u \in Users : \/ Starts(u) \/ Switches(u) \/ Switched(u) \/ Started(u) \/ StartFails(u)
                        \/ Goes(u) \/ Went(u) \/ WentNot(u) \/ GoesBack(u) \/ WentBack(u) \/ Takes(u)
    \/ TubeAsks \/ TubeAnswered \/ TubeEnds \/ Pauses \/ Delivers \/ Resumes
    \/ CloseWaits \/ Closes \/ TimesOut
DesktopNext ==
    \/ DesktopOwn \/ Disconnects \/ Connects \/ Executes \/ Close
    \/ \E r \in replies : Reply(r)
    \/ \E u \in Users : Navigate(u) \/ Back(u) \/ Asks(u) \/ CancelUser(u) \/ CancelAttempt(u)

DesktopSpec == DInit /\ [][DesktopNext]_dvars

\* asyncio runs what is ready and its timers fire.
DesktopFairness == WF_dvars(DesktopOwn)

-----------------------------------------------------------------------------
\* The page whose address is remembered, by which a later Play decides that the browser need
\* not navigate, is the page shown: whatever was cancelled, timed out, lost or answered late.
PageIsRequested == running /\ url # "none" => page = url

\* Only one navigation of a started Chrome creates a tab, however its reply was lost.
OneTab == tabs <= 1

\* The preview's input is paused only while an attempt that is going to resume it holds
\* control_lock, or after the command that resumes it failed or was interrupted: no failure,
\* time limit, cancellation or close on the way leaves it paused untried.
InputResumed == viewonly /\ resumed = "yes" => held \in {"keys", "resume"} /\ controlLock # "free"

\* Unless the command itself failed, the input is paused only during an attempt.
PausedDuringAttempt == viewonly /\ resumed # "failed" => controlLock # "free"

\* The browser's tabs and its input are what they are taken for.
DesktopTrue == DTypeOK /\ OneTab /\ InputResumed

\* Every request, and every close, ends.
DesktopSettled ==
    /\ closer \in {"none", "done"}
    /\ \A u \in Users : user[u] \in {"idle", "done"}
DesktopEnds == []<>DesktopSettled
=============================================================================
