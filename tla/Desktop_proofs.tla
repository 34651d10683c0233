---------------------------- MODULE Desktop_proofs ----------------------------
(***************************************************************************)
(* The browser's page is the one that is remembered, one navigation of a   *)
(* Chrome makes its tab and whoever pauses the preview's input resumes it  *)
(* or fails to: for every set of users, any number of preparations of      *)
(* YouTube and of commands that time out, are lost or are answered late.   *)
(***************************************************************************)
EXTENDS Desktop, TLAPS

Resting == {"idle", "done"}
OneUser == \A u, v \in Users : user[u] \notin Resting /\ user[v] \notin Resting => u = v

\* Who holds the locks, where it waits.
Locked ==
    /\ \A u \in Users :
          /\ user[u] \in {"switching", "navigate", "going", "full", "pasting"} => controlLock = u
          /\ user[u] \in {"switch", "switching", "starting"} => browserLock = u
          /\ user[u] = "starting" => ~running
          /\ user[u] = "navigate" => running
    /\ tube \in {"prepare", "full"} => controlLock = "tube"
    /\ closer \in {"control", "closing"} => browserLock = "close"
    /\ closer = "closing" => controlLock = "close"

\* Commands are executed in the order of their numbers, and answered when they were.
InOrder ==
    /\ \A i \in 1..Len(wire) :
          wire[i].id <= sequence /\ (wire[i].op = "navigate" => wire[i].u \in Users)
    /\ \A i, j \in 1..Len(wire) : i < j => wire[i].id < wire[j].id
    /\ \A r \in replies : r.id <= sequence /\ \A i \in 1..Len(wire) : r.id < wire[i].id

\* Nothing is under way that would change a page that is remembered.
Known ==
    url # "none" => page = url /\ \A i \in 1..Len(wire) : wire[i].op = "prepare"

\* The user who waits for a navigation waits for the last command that was sent, and an
\* acknowledgement of it means that the page is shown and that nothing else is under way.
Asking(v) ==
    /\ call.st = "sent" =>
         /\ call.id = sequence
         /\ \A i \in 1..Len(wire) : wire[i].id = sequence => wire[i].op = "navigate" /\ wire[i].u = v
         /\ \A r \in replies : r.id = sequence /\ r.ok => page = v
    /\ call.st = "ok" => page = v /\ Len(wire) = 0
Asked == \A u \in Users : user[u] = "navigate" => Asking(u)

\* A Chrome that does not run has nothing; one that runs was asked for one tab at most.
Tabs ==
    /\ tabs <= 1
    /\ initial = "new" \/ tabs = 1 => \A i \in 1..Len(wire) : ~wire[i].new
    /\ initial = "new" => tabs = 0
    /\ \A i, j \in 1..Len(wire) : wire[i].new /\ wire[j].new => i = j
    /\ ~running => link = "down" /\ Len(wire) = 0 /\ tabs = 0 /\ initial = "new" /\ url = "none"

\* Whoever attempts to deliver keys holds control_lock, and a paused input is resumed in the
\* end, or that was tried.
Attempted ==
    held # "none" => \/ controlLock = "tube" /\ tube = "full"
                     \/ controlLock \in Users /\ user[controlLock] \in {"full", "pasting"}
Paused == viewonly /\ resumed = "yes" => held \in {"keys", "resume"}

DInv == OneUser /\ Locked /\ InOrder /\ Known /\ Asked /\ Tabs /\ Attempted /\ Paused

-----------------------------------------------------------------------------
\* The commands of a connection that has ended are the same, and nobody reads their replies.
LEMMA StaleOnes ==
  ASSUME NEW cs \in Seq(Commands)
  PROVE  /\ Stale(cs) \in Seq(Commands) /\ Len(Stale(cs)) = Len(cs)
         /\ \A i \in 1..Len(cs) : /\ Stale(cs)[i].id = cs[i].id /\ Stale(cs)[i].op = cs[i].op
                                  /\ Stale(cs)[i].u = cs[i].u /\ Stale(cs)[i].new = cs[i].new
  <1>1. \A i \in 1..Len(cs) : cs[i] \in Commands OBVIOUS
  <1>2. Stale(cs) = [i \in 1..Len(cs) |-> [cs[i] EXCEPT !.live = FALSE]] BY DEF Stale
  <1>3. \A i \in 1..Len(cs) : [cs[i] EXCEPT !.live = FALSE] \in Commands BY <1>1 DEF Commands
  <1>4. Stale(cs) \in Seq(Commands) /\ Len(Stale(cs)) = Len(cs) BY <1>2, <1>3
  <1> QED BY <1>1, <1>2, <1>4 DEF Commands

\* The types of what the companion has, and of the rest.
ChannelType ==
    /\ call \in [id : Nat, st : {"none", "sent", "ok", "failed"}] /\ sequence \in Nat
    /\ wire \in Seq(Commands) /\ replies \subseteq [id : Nat, ok : BOOLEAN]
StateType ==
    /\ running \in BOOLEAN /\ viewonly \in BOOLEAN
    /\ held \in {"none", "pause", "keys", "resume"} /\ resumed \in {"yes", "failed", "cut"}
    /\ url \in Users \cup {"none"} /\ page \in Users \cup {"blank", "other"}
    /\ initial \in {"new", "uncertain", "ready"}
    /\ profile \in {"default", "sportsnet"}
    /\ rounds \in 0..Rounds /\ tabs \in Nat /\ link \in {"up", "closing", "down"}
TaskType ==
    /\ browserLock \in Users \cup {"free", "close"}
    /\ controlLock \in Users \cup {"free", "close", "tube"}
    /\ user \in [Users -> {"idle", "start", "switch", "switching", "starting", "control", "back",
                           "navigate", "going", "fullscreen", "full", "paste", "pasting", "done"}]
    /\ closer \in {"none", "tube", "lock", "control", "closing", "done"}
    /\ tube \in {"none", "wait", "prepare", "full"}

\* The type invariant in three parts.
LEMMA TypeParts == DTypeOK <=> ChannelType /\ StateType /\ TaskType
  BY DEF DTypeOK, ChannelType, StateType, TaskType

\* Sending keeps the types, whether the companion is connected or not.
LEMMA SendTyped ==
  ASSUME ChannelType, NEW op \in {"navigate", "back", "prepare"}, NEW u \in Users \cup {"tube"},
         NEW new \in BOOLEAN, Send(op, u, new)
  PROVE  ChannelType'
  <1> USE DEF ChannelType, Send
  <1>1. sequence' \in Nat /\ replies' = replies OBVIOUS
  <1>2. call' \in [id : Nat, st : {"none", "sent", "ok", "failed"}] BY <1>1
  <1>3. [id |-> sequence', op |-> op, u |-> u, new |-> new, live |-> TRUE] \in Commands
    BY <1>1 DEF Commands
  <1>4. wire' \in Seq(Commands) BY <1>3
  <1> QED BY <1>1, <1>2, <1>4

\* What the companion has keeps its type.
LEMMA ChannelKept ==
  ASSUME ChannelType, DTypeOK, [DesktopNext]_dvars
  PROVE  ChannelType'
  <1>0. /\ wire \in Seq(Commands)
        /\ Stale(wire) \in Seq(Commands) /\ Len(Stale(wire)) = Len(wire)
        /\ \A i \in 1..Len(wire) : /\ Stale(wire)[i].id = wire[i].id /\ Stale(wire)[i].op = wire[i].op
                                    /\ Stale(wire)[i].u = wire[i].u /\ Stale(wire)[i].new = wire[i].new
    BY StaleOnes DEF DTypeOK
  <1> USE DEF ChannelType, To, NoCall, state, locks,
            channel, chrome, preview, youtube
  <1>1. CASE UNCHANGED dvars BY <1>1 DEF dvars
  <1>2. ASSUME NEW u \in Users, \/ Starts(u) \/ Switches(u) \/ Switched(u) \/ Started(u) \/ StartFails(u)
                               \/ Goes(u) \/ Went(u) \/ WentNot(u) \/ GoesBack(u) \/ WentBack(u)
                               \/ Takes(u)
        PROVE  ChannelType'
    <2>1. CASE Starts(u) BY <2>1 DEF Starts, CancelTube, Interrupted
    <2>2. CASE Switches(u) BY <2>2 DEF Switches
    <2>3. CASE Switched(u) BY <2>3 DEF Switched, Gone
    <2>4. CASE Started(u) BY <2>4 DEF Started, CancelTube, Interrupted
    <2>5. CASE StartFails(u) BY <2>5 DEF StartFails, Gone
    <2>6. CASE Goes(u)
    <3>1. CASE UNCHANGED channel BY <3>1
    <3>2. CASE Send("navigate", u, initial = "new") BY <3>2, SendTyped
    <3> QED BY <2>6, <3>1, <3>2 DEF Goes
    <2>7. CASE Went(u) BY <2>7 DEF Went
    <2>8. CASE WentNot(u) BY <2>8 DEF WentNot
    <2>9. CASE GoesBack(u)
    <3>1. CASE UNCHANGED channel BY <3>1
    <3>2. CASE Send("back", u, FALSE) BY <3>2, SendTyped
    <3> QED BY <2>9, <3>1, <3>2 DEF GoesBack
    <2>10. CASE WentBack(u) BY <2>10 DEF WentBack
    <2>11. CASE Takes(u) BY <2>11 DEF Takes
    <2> QED BY <1>2, <2>1, <2>2, <2>3, <2>4, <2>5, <2>6, <2>7, <2>8, <2>9, <2>10, <2>11
  <1>3. CASE TubeAsks
    BY <1>3, SendTyped DEF TubeAsks
  <1>4. CASE TubeAnswered BY <1>4 DEF TubeAnswered
  <1>5. CASE TubeEnds BY <1>5 DEF TubeEnds
  <1>6. CASE Pauses \/ Delivers BY <1>6 DEF Pauses, Delivers, Interrupted
  <1>7. CASE Resumes BY <1>7 DEF Resumes, Ends
  <1>8. CASE CloseWaits BY <1>8 DEF CloseWaits
  <1>9. CASE Closes BY <1>9 DEF Closes, Gone
  <1>10. CASE TimesOut BY <1>10 DEF TimesOut
  <1>11. CASE Disconnects
    <2>4. wire' = Stale(wire) \/ wire' = <<>> BY <1>11 DEF Disconnects
    <2>1. wire' \in Seq(Commands)
      <3>1. CASE wire' = Stale(wire) BY <3>1, <1>0
      <3>2. CASE wire' = <<>> BY <3>2
      <3> QED BY <2>4, <3>1, <3>2
    <2>2. call' \in [id : Nat, st : {"none", "sent", "ok", "failed"}]
      BY <1>11 DEF Disconnects
    <2> QED BY <1>11, <2>1, <2>2 DEF Disconnects
  <1>12. CASE Connects BY <1>12 DEF Connects
  <1>13. CASE Executes
    <2>1. Head(wire) \in Commands /\ Tail(wire) \in Seq(Commands) BY <1>13 DEF Executes
    <2> QED BY <1>13, <2>1 DEF Executes, Commands
  <1>14. CASE Close BY <1>14 DEF Close, CancelTube, Interrupted
  <1>15. ASSUME NEW r \in replies, Reply(r) PROVE ChannelType' BY <1>15 DEF Reply, Answers
  <1>16. ASSUME NEW u \in Users, \/ Navigate(u) \/ Back(u) \/ CancelUser(u)
                                \/ Asks(u) \/ CancelAttempt(u)
         PROVE  ChannelType'
    <2>1. CASE Navigate(u) BY <2>1 DEF Navigate, Free
    <2>2. CASE Back(u) BY <2>2 DEF Back, Free, CancelTube, Interrupted
    <2>3. CASE CancelUser(u) BY <2>3 DEF CancelUser
    <2>4. CASE Asks(u) BY <2>4 DEF Asks, Free, CancelTube, Interrupted
    <2>5. CASE CancelAttempt(u) BY <2>5 DEF CancelAttempt, Interrupted, Ends
    <2> QED BY <1>16, <2>1, <2>2, <2>3, <2>4, <2>5
  <1> QED
    BY <1>1, <1>2, <1>3, <1>4, <1>5, <1>6, <1>7, <1>8, <1>9,
       <1>10, <1>11, <1>12, <1>13, <1>14, <1>15, <1>16
    DEF DesktopNext, DesktopOwn

\* So does the end of Chrome.
LEMMA GoneTyped ==
  ASSUME Gone
  PROVE  /\ running' \in BOOLEAN /\ viewonly' \in BOOLEAN /\ resumed' = "yes" /\ url' \in Users \cup {"none"}
         /\ page' \in Users \cup {"blank", "other"} /\ initial' \in {"new", "uncertain", "ready"}
         /\ tabs' \in Nat /\ link' \in {"up", "closing", "down"}
  BY DEF Gone

\* Cancelling prepare_youtube touches the preview only.
LEMMA CancelTyped ==
  ASSUME StateType, CancelTube
  PROVE  /\ held' \in {held, "resume"} /\ viewonly' \in BOOLEAN
         /\ resumed' = resumed /\ rounds' = rounds
  BY DEF StateType, CancelTube, Interrupted

\* The browser's state keeps its type.
LEMMA StateKept ==
  ASSUME StateType, DTypeOK, InOrder, [DesktopNext]_dvars
  PROVE  StateType'
  <1> USE DesktopAssumption DEF StateType, To, NoCall, state, locks,
            channel, chrome, preview, youtube
  <1>1. CASE UNCHANGED dvars BY <1>1 DEF dvars
  <1>2. ASSUME NEW u \in Users, \/ Starts(u) \/ Switches(u) \/ Switched(u) \/ Started(u) \/ StartFails(u)
                               \/ Goes(u) \/ Went(u) \/ WentNot(u) \/ GoesBack(u) \/ WentBack(u)
                               \/ Takes(u)
        PROVE  StateType'
    <2>1. CASE Starts(u) BY <2>1, CancelTyped DEF Starts
    <2>2. CASE Switches(u) BY <2>2 DEF Switches
    <2>3. CASE Switched(u)
    BY <2>3, GoneTyped DEF Switched, Profile
    <2>4. CASE Started(u) BY <2>4, CancelTyped DEF Started
    <2>5. CASE StartFails(u)
    BY <2>5, GoneTyped DEF StartFails
    <2>6. CASE Goes(u) BY <2>6 DEF Goes, Send, FirstSent
    <2>7. CASE Went(u) BY <2>7 DEF Went
    <2>8. CASE WentNot(u) BY <2>8 DEF WentNot
    <2>9. CASE GoesBack(u) BY <2>9 DEF GoesBack, Send, Forget
    <2>10. CASE WentBack(u) BY <2>10 DEF WentBack
    <2>11. CASE Takes(u) BY <2>11 DEF Takes
    <2> QED BY <1>2, <2>1, <2>2, <2>3, <2>4, <2>5, <2>6, <2>7, <2>8, <2>9, <2>10, <2>11
  <1>3. CASE TubeAsks BY <1>3 DEF TubeAsks, Send
  <1>4. CASE TubeAnswered BY <1>4 DEF TubeAnswered
  <1>5. CASE TubeEnds BY <1>5 DEF TubeEnds
  <1>6. CASE Pauses \/ Delivers BY <1>6 DEF Pauses, Delivers, Interrupted
  <1>7. CASE Resumes BY <1>7 DEF Resumes, Ends
  <1>8. CASE CloseWaits BY <1>8 DEF CloseWaits
  <1>9. CASE Closes
    BY <1>9, GoneTyped DEF Closes
  <1>10. CASE TimesOut BY <1>10 DEF TimesOut
  <1>11. CASE Disconnects BY <1>11 DEF Disconnects
  <1>12. CASE Connects BY <1>12 DEF Connects
  <1>13. CASE Executes
    <2>1. wire \in Seq(Commands) BY DEF DTypeOK
    <2>2. Head(wire) \in Commands BY <1>13, <2>1 DEF Executes
    <2>3. 1 \in 1..Len(wire) /\ Head(wire) = wire[1] BY <1>13, <2>1 DEF Executes
    <2>4. Head(wire).op = "navigate" => Head(wire).u \in Users BY <2>3 DEF InOrder
    <2>5. page' \in Users \cup {"blank", "other"} BY <1>13, <2>4 DEF Executes
    <2>6. tabs' \in Nat BY <1>13 DEF Executes
    <2> QED BY <1>13, <2>5, <2>6 DEF Executes
  <1>14. CASE Close BY <1>14, CancelTyped DEF Close
  <1>15. ASSUME NEW r \in replies, Reply(r) PROVE StateType' BY <1>15 DEF Reply, Answers
  <1>16. ASSUME NEW u \in Users, \/ Navigate(u) \/ Back(u) \/ CancelUser(u)
                                \/ Asks(u) \/ CancelAttempt(u)
         PROVE  StateType'
    <2>1. CASE Navigate(u) BY <2>1 DEF Navigate, Free
    <2>2. CASE Back(u) BY <2>2, CancelTyped DEF Back
    <2>3. CASE CancelUser(u) BY <2>3 DEF CancelUser
    <2>4. CASE Asks(u) BY <2>4, CancelTyped DEF Asks
    <2>5. CASE CancelAttempt(u)
      <3>1. UNCHANGED <<running, url, initial, profile, page, tabs, rounds, link>>
      BY <2>5 DEF CancelAttempt
      <3>2. held' \in {"none", "resume"} BY <2>5 DEF CancelAttempt, Interrupted, Ends
      <3>3. viewonly' \in BOOLEAN BY <2>5 DEF CancelAttempt, Interrupted
      <3>4. resumed' \in {"yes", resumed, "cut"} BY <2>5 DEF CancelAttempt
      <3> QED BY <3>1, <3>2, <3>3, <3>4
    <2> QED BY <1>16, <2>1, <2>2, <2>3, <2>4, <2>5
  <1> QED
    BY <1>1, <1>2, <1>3, <1>4, <1>5, <1>6, <1>7, <1>8, <1>9,
       <1>10, <1>11, <1>12, <1>13, <1>14, <1>15, <1>16
    DEF DesktopNext, DesktopOwn

\* The tasks keep their types.
LEMMA TaskKept ==
  ASSUME TaskType, DTypeOK, [DesktopNext]_dvars
  PROVE  TaskType'
  <1> USE DesktopAssumption DEF TaskType, To, NoCall, state, locks,
            channel, chrome, preview, youtube
  <1>1. CASE UNCHANGED dvars BY <1>1 DEF dvars
  <1>2. ASSUME NEW u \in Users, \/ Starts(u) \/ Switches(u) \/ Switched(u) \/ Started(u) \/ StartFails(u)
                               \/ Goes(u) \/ Went(u) \/ WentNot(u) \/ GoesBack(u) \/ WentBack(u)
                               \/ Takes(u)
        PROVE  TaskType'
    <2>1. CASE Starts(u) BY <2>1 DEF Starts, CancelTube, Interrupted
    <2>2. CASE Switches(u) BY <2>2 DEF Switches
    <2>3. CASE Switched(u) BY <2>3 DEF Switched, Gone
    <2>4. CASE Started(u) BY <2>4 DEF Started, CancelTube, Interrupted
    <2>5. CASE StartFails(u) BY <2>5 DEF StartFails, Gone
    <2>6. CASE Goes(u) BY <2>6 DEF Goes, Send, FirstSent
    <2>7. CASE Went(u) BY <2>7 DEF Went
    <2>8. CASE WentNot(u) BY <2>8 DEF WentNot
    <2>9. CASE GoesBack(u) BY <2>9 DEF GoesBack, Send, Forget
    <2>10. CASE WentBack(u) BY <2>10 DEF WentBack
    <2>11. CASE Takes(u) BY <2>11 DEF Takes
    <2> QED BY <1>2, <2>1, <2>2, <2>3, <2>4, <2>5, <2>6, <2>7, <2>8, <2>9, <2>10, <2>11
  <1>3. CASE TubeAsks BY <1>3 DEF TubeAsks, Send
  <1>4. CASE TubeAnswered BY <1>4 DEF TubeAnswered
  <1>5. CASE TubeEnds BY <1>5 DEF TubeEnds
  <1>6. CASE Pauses \/ Delivers BY <1>6 DEF Pauses, Delivers, Interrupted
  <1>7. CASE Resumes BY <1>7 DEF Resumes, Ends
  <1>8. CASE CloseWaits BY <1>8 DEF CloseWaits
  <1>9. CASE Closes BY <1>9 DEF Closes, Gone
  <1>10. CASE TimesOut BY <1>10 DEF TimesOut
  <1>11. CASE Disconnects BY <1>11 DEF Disconnects
  <1>12. CASE Connects BY <1>12 DEF Connects
  <1>13. CASE Executes BY <1>13 DEF Executes
  <1>14. CASE Close BY <1>14 DEF Close, CancelTube, Interrupted
  <1>15. ASSUME NEW r \in replies, Reply(r) PROVE TaskType' BY <1>15 DEF Reply, Answers
  <1>16. ASSUME NEW u \in Users, \/ Navigate(u) \/ Back(u) \/ CancelUser(u)
                                \/ Asks(u) \/ CancelAttempt(u)
         PROVE  TaskType'
    <2>1. CASE Navigate(u) BY <2>1 DEF Navigate, Free
    <2>2. CASE Back(u) BY <2>2 DEF Back, Free, CancelTube, Interrupted
    <2>3. CASE CancelUser(u) BY <2>3 DEF CancelUser
    <2>4. CASE Asks(u) BY <2>4 DEF Asks, Free, CancelTube, Interrupted
    <2>5. CASE CancelAttempt(u) BY <2>5 DEF CancelAttempt, Interrupted, Ends
    <2> QED BY <1>16, <2>1, <2>2, <2>3, <2>4, <2>5
  <1> QED
    BY <1>1, <1>2, <1>3, <1>4, <1>5, <1>6, <1>7, <1>8, <1>9,
       <1>10, <1>11, <1>12, <1>13, <1>14, <1>15, <1>16
    DEF DesktopNext, DesktopOwn

\* Every variable keeps its type.
LEMMA TypeKept ==
  ASSUME DTypeOK, InOrder, [DesktopNext]_dvars
  PROVE  DTypeOK'
  <1>1. ChannelType /\ StateType /\ TaskType BY TypeParts
  <1>2. ChannelType' /\ StateType' /\ TaskType' BY <1>1, ChannelKept, StateKept, TaskKept
  <1> QED BY <1>2 DEF DTypeOK, ChannelType, StateType, TaskType

\* One request is under way at a time.
LEMMA OneUserKept ==
  ASSUME DTypeOK, OneUser, [DesktopNext]_dvars
  PROVE  OneUser'
  <1> USE DEF DTypeOK, OneUser, Resting, To, NoCall, state, locks,
            channel, chrome, preview, youtube
  <1>1. CASE UNCHANGED dvars BY <1>1 DEF dvars
  <1>2. ASSUME NEW u \in Users, \/ Starts(u) \/ Switches(u) \/ Switched(u) \/ Started(u) \/ StartFails(u)
                               \/ Goes(u) \/ Went(u) \/ WentNot(u) \/ GoesBack(u) \/ WentBack(u)
                               \/ Takes(u)
        PROVE  OneUser'
    <2>1. CASE Starts(u) BY <2>1 DEF Starts, CancelTube, Interrupted
    <2>2. CASE Switches(u) BY <2>2 DEF Switches
    <2>3. CASE Switched(u) BY <2>3 DEF Switched, Gone
    <2>4. CASE Started(u) BY <2>4 DEF Started, CancelTube, Interrupted
    <2>5. CASE StartFails(u) BY <2>5 DEF StartFails, Gone
    <2>6. CASE Goes(u) BY <2>6 DEF Goes, Send, FirstSent
    <2>7. CASE Went(u) BY <2>7 DEF Went
    <2>8. CASE WentNot(u) BY <2>8 DEF WentNot
    <2>9. CASE GoesBack(u) BY <2>9 DEF GoesBack, Send, Forget
    <2>10. CASE WentBack(u) BY <2>10 DEF WentBack
    <2>11. CASE Takes(u) BY <2>11 DEF Takes
    <2> QED BY <1>2, <2>1, <2>2, <2>3, <2>4, <2>5, <2>6, <2>7, <2>8, <2>9, <2>10, <2>11
  <1>3. CASE TubeAsks BY <1>3 DEF TubeAsks, Send
  <1>4. CASE TubeAnswered BY <1>4 DEF TubeAnswered
  <1>5. CASE TubeEnds BY <1>5 DEF TubeEnds
  <1>6. CASE Pauses \/ Delivers BY <1>6 DEF Pauses, Delivers, Interrupted
  <1>7. CASE Resumes BY <1>7 DEF Resumes, Ends
  <1>8. CASE CloseWaits BY <1>8 DEF CloseWaits
  <1>9. CASE Closes BY <1>9 DEF Closes, Gone
  <1>10. CASE TimesOut BY <1>10 DEF TimesOut
  <1>11. CASE Disconnects BY <1>11 DEF Disconnects
  <1>12. CASE Connects BY <1>12 DEF Connects
  <1>13. CASE Executes BY <1>13 DEF Executes
  <1>14. CASE Close BY <1>14 DEF Close, CancelTube, Interrupted
  <1>15. ASSUME NEW r \in replies, Reply(r) PROVE OneUser' BY <1>15 DEF Reply, Answers
  <1>16. ASSUME NEW u \in Users, \/ Navigate(u) \/ Back(u) \/ CancelUser(u)
                                \/ Asks(u) \/ CancelAttempt(u)
         PROVE  OneUser'
    <2>1. CASE Navigate(u) BY <2>1 DEF Navigate, Free
    <2>2. CASE Back(u) BY <2>2 DEF Back, Free, CancelTube, Interrupted
    <2>3. CASE CancelUser(u) BY <2>3 DEF CancelUser
    <2>4. CASE Asks(u) BY <2>4 DEF Asks, Free, CancelTube, Interrupted
    <2>5. CASE CancelAttempt(u) BY <2>5 DEF CancelAttempt, Interrupted, Ends
    <2> QED BY <1>16, <2>1, <2>2, <2>3, <2>4, <2>5
  <1> QED
    BY <1>1, <1>2, <1>3, <1>4, <1>5, <1>6, <1>7, <1>8, <1>9,
       <1>10, <1>11, <1>12, <1>13, <1>14, <1>15, <1>16
    DEF DesktopNext, DesktopOwn

\* Nobody gives a lock away that somebody else holds.
LEMMA LockedKept ==
  ASSUME DTypeOK, OneUser, Locked, [DesktopNext]_dvars
  PROVE  Locked'
  <1> USE DesktopAssumption DEF DTypeOK, OneUser, Locked, Resting, To, NoCall, state, locks,
            channel, chrome, preview, youtube
  <1>1. CASE UNCHANGED dvars BY <1>1 DEF dvars
  <1>2. ASSUME NEW u \in Users, \/ Starts(u) \/ Switches(u) \/ Switched(u) \/ Started(u) \/ StartFails(u)
                               \/ Goes(u) \/ Went(u) \/ WentNot(u) \/ GoesBack(u) \/ WentBack(u)
                               \/ Takes(u)
        PROVE  Locked'
    <2>1. CASE Starts(u) BY <2>1 DEF Starts, CancelTube, Interrupted
    <2>2. CASE Switches(u) BY <2>2 DEF Switches
    <2>3. CASE Switched(u) BY <2>3 DEF Switched, Gone
    <2>4. CASE Started(u) BY <2>4 DEF Started, CancelTube, Interrupted
    <2>5. CASE StartFails(u) BY <2>5 DEF StartFails, Gone
    <2>6. CASE Goes(u) BY <2>6 DEF Goes, Send, FirstSent
    <2>7. CASE Went(u) BY <2>7 DEF Went
    <2>8. CASE WentNot(u) BY <2>8 DEF WentNot
    <2>9. CASE GoesBack(u) BY <2>9 DEF GoesBack, Send, Forget
    <2>10. CASE WentBack(u) BY <2>10 DEF WentBack
    <2>11. CASE Takes(u) BY <2>11 DEF Takes
    <2> QED BY <1>2, <2>1, <2>2, <2>3, <2>4, <2>5, <2>6, <2>7, <2>8, <2>9, <2>10, <2>11
  <1>3. CASE TubeAsks BY <1>3 DEF TubeAsks, Send
  <1>4. CASE TubeAnswered BY <1>4 DEF TubeAnswered
  <1>5. CASE TubeEnds BY <1>5 DEF TubeEnds
  <1>6. CASE Pauses \/ Delivers BY <1>6 DEF Pauses, Delivers, Interrupted
  <1>7. CASE Resumes BY <1>7 DEF Resumes, Ends
  <1>8. CASE CloseWaits BY <1>8 DEF CloseWaits
  <1>9. CASE Closes BY <1>9 DEF Closes, Gone
  <1>10. CASE TimesOut BY <1>10 DEF TimesOut
  <1>11. CASE Disconnects BY <1>11 DEF Disconnects
  <1>12. CASE Connects BY <1>12 DEF Connects
  <1>13. CASE Executes BY <1>13 DEF Executes
  <1>14. CASE Close BY <1>14 DEF Close, CancelTube, Interrupted
  <1>15. ASSUME NEW r \in replies, Reply(r) PROVE Locked' BY <1>15 DEF Reply, Answers
  <1>16. ASSUME NEW u \in Users, \/ Navigate(u) \/ Back(u) \/ CancelUser(u)
                                \/ Asks(u) \/ CancelAttempt(u)
         PROVE  Locked'
    <2>1. CASE Navigate(u) BY <2>1 DEF Navigate, Free
    <2>2. CASE Back(u) BY <2>2 DEF Back, Free, CancelTube, Interrupted
    <2>3. CASE CancelUser(u) BY <2>3 DEF CancelUser
    <2>4. CASE Asks(u) BY <2>4 DEF Asks, Free, CancelTube, Interrupted
    <2>5. CASE CancelAttempt(u)
      <3>1. UNCHANGED <<running, browserLock, closer>> BY <2>5 DEF CancelAttempt
      <3>2. CASE UNCHANGED <<user, controlLock, tube>> BY <3>1, <3>2
      <3>3. CASE user[u] = "pasting" /\ Ends BY <3>1, <3>3 DEF Ends
      <3> QED BY <2>5, <3>2, <3>3 DEF CancelAttempt
    <2> QED BY <1>16, <2>1, <2>2, <2>3, <2>4, <2>5
  <1> QED
    BY <1>1, <1>2, <1>3, <1>4, <1>5, <1>6, <1>7, <1>8, <1>9,
       <1>10, <1>11, <1>12, <1>13, <1>14, <1>15, <1>16
    DEF DesktopNext, DesktopOwn

\* What Send appends.
LEMMA SendAppends ==
  ASSUME DTypeOK, NEW op \in {"navigate", "back", "prepare"}, NEW u \in Users \cup {"tube"},
         NEW new \in BOOLEAN, Send(op, u, new)
  PROVE  /\ sequence' = sequence + 1 /\ replies' = replies /\ link' = link /\ call'.id = sequence'
         /\ call'.st = IF link = "up" THEN "sent" ELSE "failed"
         /\ link # "up" => wire' = wire
         /\ link = "up" => /\ Len(wire') = Len(wire) + 1
                           /\ \A i \in 1..Len(wire) : wire'[i] = wire[i]
                           /\ wire'[Len(wire) + 1].id = sequence' /\ wire'[Len(wire) + 1].op = op
                           /\ wire'[Len(wire) + 1].u = u /\ wire'[Len(wire) + 1].new = new
  <1> USE DEF Send
  <1>1. wire \in Seq(Commands) /\ sequence \in Nat BY DEF DTypeOK
  <1>2. CASE link = "up"
    <2> DEFINE c == [id |-> sequence', op |-> op, u |-> u, new |-> new, live |-> TRUE]
    <2>1. wire' = Append(wire, c) BY <1>2
    <2>2. c \in Commands BY <1>1 DEF Commands
    <2> HIDE DEF c
    <2>3. Len(wire') = Len(wire) + 1 /\ wire'[Len(wire) + 1] = c
          /\ \A i \in 1..Len(wire) : wire'[i] = wire[i]
      BY <1>1, <2>1, <2>2
    <2>4. c.id = sequence' /\ c.op = op /\ c.u = u /\ c.new = new BY DEF c
    <2> QED BY <1>2, <2>3, <2>4
  <1> QED BY <1>2

\* What Chrome leaves after it has executed one command.
LEMMA TailLeaves ==
  ASSUME DTypeOK, Executes
  PROVE  /\ Len(wire) > 0 /\ wire[1] = Head(wire) /\ Len(wire') = Len(wire) - 1
         /\ \A i \in 1..Len(wire') : i + 1 \in 1..Len(wire) /\ wire'[i] = wire[i + 1]
         /\ sequence' = sequence /\ call' = call /\ user' = user /\ url' = url /\ initial' = initial
         /\ running' = running /\ link' = link
         /\ page' # page => Head(wire).op \in {"navigate", "back"}
         /\ tabs' # tabs => Head(wire).new /\ tabs' = tabs + 1
         /\ \A r \in replies' : \/ r \in replies
                                \/ /\ r.id = Head(wire).id
                                   /\ r.ok /\ Head(wire).op = "navigate" => page' = Head(wire).u
  <1>1. wire \in Seq(Commands) /\ wire # <<>> /\ wire' = Tail(wire) BY DEF DTypeOK, Executes
  <1>2. /\ Len(wire) > 0 /\ wire[1] = Head(wire) /\ Len(wire') = Len(wire) - 1
        /\ \A i \in 1..Len(wire') : i + 1 \in 1..Len(wire) /\ wire'[i] = wire[i + 1]
    BY <1>1
  <1> HIDE <1>1
  <1>3. PICK done \in BOOLEAN, ok \in BOOLEAN :
          /\ ok => done
          /\ page' = IF ~done THEN page ELSE
                     CASE Head(wire).op = "navigate" -> Head(wire).u [] Head(wire).op = "back" -> "other"
                       [] OTHER -> page
          /\ tabs' = IF done /\ Head(wire).op = "navigate" /\ Head(wire).new THEN tabs + 1 ELSE tabs
          /\ replies' = IF Head(wire).live THEN replies \cup {[id |-> Head(wire).id, ok |-> ok]} ELSE replies
    BY DEF Executes
  <1>4. /\ page' # page => Head(wire).op \in {"navigate", "back"}
        /\ tabs' # tabs => Head(wire).new /\ tabs' = tabs + 1
        /\ ok /\ Head(wire).op = "navigate" => page' = Head(wire).u
    BY <1>3
  <1>5. \A r \in replies' : r \in replies \/ r = [id |-> Head(wire).id, ok |-> ok] BY <1>3
  <1>6. \A r \in replies' : \/ r \in replies
                            \/ /\ r.id = Head(wire).id
                               /\ r.ok /\ Head(wire).op = "navigate" => page' = Head(wire).u
    BY <1>4, <1>5
  <1>7. /\ sequence' = sequence /\ call' = call /\ user' = user /\ url' = url /\ initial' = initial
        /\ running' = running /\ link' = link
    BY DEF Executes, state
  <1> QED BY <1>2, <1>4, <1>6, <1>7

\* A command that is sent has the highest number.
LEMMA SendInOrder ==
  ASSUME DTypeOK, InOrder, NEW op \in {"navigate", "back", "prepare"}, NEW u \in Users \cup {"tube"},
         NEW new \in BOOLEAN, Send(op, u, new), op = "navigate" => u \in Users
  PROVE  InOrder'
  <1>1. /\ sequence' = sequence + 1 /\ replies' = replies
        /\ link # "up" => wire' = wire
        /\ link = "up" => /\ Len(wire') = Len(wire) + 1
                          /\ \A i \in 1..Len(wire) : wire'[i] = wire[i]
                          /\ wire'[Len(wire) + 1].id = sequence' /\ wire'[Len(wire) + 1].op = op
                          /\ wire'[Len(wire) + 1].u = u
    BY SendAppends
  <1>2. sequence \in Nat /\ Len(wire) \in Nat BY DEF DTypeOK
  <1>3. /\ \A i \in 1..Len(wire) : wire[i] \in Commands
        /\ \A r \in replies : r.id \in Nat
    BY DEF DTypeOK
  <1>4. CASE link # "up" BY <1>1, <1>2, <1>3, <1>4 DEF InOrder, Commands
  <1>5. CASE link = "up"
    <2>1. \A i \in 1..Len(wire') : i \in 1..Len(wire) \/ i = Len(wire) + 1 BY <1>1, <1>2, <1>5
    <2>2. \A i \in 1..Len(wire') :
             wire'[i].id <= sequence' /\ (wire'[i].op = "navigate" => wire'[i].u \in Users)
      BY <1>1, <1>2, <1>3, <1>5, <2>1 DEF InOrder, Commands
    <2>3. ASSUME NEW i \in 1..Len(wire'), NEW j \in 1..Len(wire'), i < j PROVE wire'[i].id < wire'[j].id
      <3>1. i \in 1..Len(wire) BY <1>2, <2>1, <2>3
      <3> QED BY <1>1, <1>2, <1>3, <1>5, <2>1, <2>3, <3>1 DEF InOrder, Commands
    <2>4. \A r \in replies' : r.id <= sequence' /\ \A i \in 1..Len(wire') : r.id < wire'[i].id
      BY <1>1, <1>2, <1>3, <1>5, <2>1 DEF InOrder, Commands
    <2> QED BY <2>2, <2>3, <2>4 DEF InOrder
  <1> QED BY <1>4, <1>5

\* Commands stay in the order of their numbers.
LEMMA InOrderKept ==
  ASSUME DTypeOK, InOrder, [DesktopNext]_dvars
  PROVE  InOrder'
  <1>0. /\ wire \in Seq(Commands)
        /\ Stale(wire) \in Seq(Commands) /\ Len(Stale(wire)) = Len(wire)
        /\ \A i \in 1..Len(wire) : /\ Stale(wire)[i].id = wire[i].id /\ Stale(wire)[i].op = wire[i].op
                                    /\ Stale(wire)[i].u = wire[i].u /\ Stale(wire)[i].new = wire[i].new
    BY StaleOnes DEF DTypeOK
  <1>len. Len(wire) \in Nat /\ sequence \in Nat BY <1>0 DEF DTypeOK
  <1> USE DEF InOrder, To, NoCall, state, locks,
            channel, chrome, preview, youtube
  <1>1. CASE UNCHANGED dvars BY <1>1 DEF dvars
  <1>2. ASSUME NEW u \in Users, \/ Starts(u) \/ Switches(u) \/ Switched(u) \/ Started(u) \/ StartFails(u)
                               \/ Goes(u) \/ Went(u) \/ WentNot(u) \/ GoesBack(u) \/ WentBack(u)
                               \/ Takes(u)
        PROVE  InOrder'
    <2>1. CASE Starts(u) BY <2>1 DEF Starts, CancelTube, Interrupted
    <2>2. CASE Switches(u) BY <2>2 DEF Switches
    <2>3. CASE Switched(u) BY <2>3 DEF Switched, Gone
    <2>4. CASE Started(u) BY <2>4 DEF Started, CancelTube, Interrupted
    <2>5. CASE StartFails(u) BY <2>5 DEF StartFails, Gone
    <2>6. CASE Goes(u)
    <3>1. CASE UNCHANGED channel BY <3>1
    <3>2. CASE Send("navigate", u, initial = "new") BY <3>2, SendInOrder
    <3> QED BY <2>6, <3>1, <3>2 DEF Goes
    <2>7. CASE Went(u) BY <2>7 DEF Went
    <2>8. CASE WentNot(u) BY <2>8 DEF WentNot
    <2>9. CASE GoesBack(u)
    <3>1. CASE UNCHANGED channel BY <3>1
    <3>2. CASE Send("back", u, FALSE) BY <3>2, SendInOrder
    <3> QED BY <2>9, <3>1, <3>2 DEF GoesBack
    <2>10. CASE WentBack(u) BY <2>10 DEF WentBack
    <2>11. CASE Takes(u) BY <2>11 DEF Takes
    <2> QED BY <1>2, <2>1, <2>2, <2>3, <2>4, <2>5, <2>6, <2>7, <2>8, <2>9, <2>10, <2>11
  <1>3. CASE TubeAsks
    BY <1>3, SendInOrder DEF TubeAsks
  <1>4. CASE TubeAnswered BY <1>4 DEF TubeAnswered
  <1>5. CASE TubeEnds BY <1>5 DEF TubeEnds
  <1>6. CASE Pauses \/ Delivers BY <1>6 DEF Pauses, Delivers, Interrupted
  <1>7. CASE Resumes BY <1>7 DEF Resumes, Ends
  <1>8. CASE CloseWaits BY <1>8 DEF CloseWaits
  <1>9. CASE Closes BY <1>9 DEF Closes, Gone
  <1>10. CASE TimesOut BY <1>10 DEF TimesOut
  <1>11. CASE Disconnects
    <2>1. wire' = Stale(wire) \/ wire' = <<>> BY <1>11 DEF Disconnects
    <2>2. Len(wire') = Len(wire) \/ Len(wire') = 0 BY <2>1, <1>0
    <2> QED BY <1>11, <1>0, <2>1, <2>2 DEF Disconnects
  <1>12. CASE Connects BY <1>12 DEF Connects
  <1>13. CASE Executes
    <2>1. \A i \in 1..Len(wire) : wire[i] \in Commands BY <1>0
    <2>2. \A r \in replies : r.id \in Nat BY DEF DTypeOK
    <2>3. 1 \in 1..Len(wire) BY <1>13, <1>len, TailLeaves
    <2>4. \A i, j \in 1..Len(wire') : i < j => wire'[i].id < wire'[j].id BY <1>13, <1>len, TailLeaves
    <2>5. \A i \in 1..Len(wire') :
             wire'[i].id <= sequence' /\ (wire'[i].op = "navigate" => wire'[i].u \in Users)
      BY <1>13, <1>len, TailLeaves
    <2>6. ASSUME NEW r \in replies' PROVE r.id <= sequence' /\ \A i \in 1..Len(wire') : r.id < wire'[i].id
      <3>1. CASE r \in replies BY <1>13, <1>len, <3>1, TailLeaves
      <3>2. CASE r.id = wire[1].id
        <4>1. \A i \in 1..Len(wire') : i + 1 \in 1..Len(wire) /\ 1 < i + 1 BY <1>13, <1>len, TailLeaves
        <4> QED BY <1>13, <1>len, <2>3, <3>2, <4>1, TailLeaves
      <3> QED BY <1>13, <2>6, <3>1, <3>2, TailLeaves
    <2> QED BY <2>4, <2>5, <2>6
  <1>14. CASE Close BY <1>14 DEF Close, CancelTube, Interrupted
  <1>15. ASSUME NEW r \in replies, Reply(r) PROVE InOrder' BY <1>15 DEF Reply, Answers
  <1>16. ASSUME NEW u \in Users, \/ Navigate(u) \/ Back(u) \/ CancelUser(u)
                                \/ Asks(u) \/ CancelAttempt(u)
         PROVE  InOrder'
    <2>1. CASE Navigate(u) BY <2>1 DEF Navigate, Free
    <2>2. CASE Back(u) BY <2>2 DEF Back, Free, CancelTube, Interrupted
    <2>3. CASE CancelUser(u) BY <2>3 DEF CancelUser
    <2>4. CASE Asks(u) BY <2>4 DEF Asks, Free, CancelTube, Interrupted
    <2>5. CASE CancelAttempt(u) BY <2>5 DEF CancelAttempt, Interrupted, Ends
    <2> QED BY <1>16, <2>1, <2>2, <2>3, <2>4, <2>5
  <1> QED
    BY <1>1, <1>2, <1>3, <1>4, <1>5, <1>6, <1>7, <1>8, <1>9,
       <1>10, <1>11, <1>12, <1>13, <1>14, <1>15, <1>16
    DEF DesktopNext, DesktopOwn

\* A page is remembered when it is shown, and forgotten before it may change.
LEMMA KnownKept ==
  ASSUME DTypeOK, Asked, Known, [DesktopNext]_dvars
  PROVE  Known'
  <1>0. /\ wire \in Seq(Commands)
        /\ Stale(wire) \in Seq(Commands) /\ Len(Stale(wire)) = Len(wire)
        /\ \A i \in 1..Len(wire) : /\ Stale(wire)[i].id = wire[i].id /\ Stale(wire)[i].op = wire[i].op
                                    /\ Stale(wire)[i].u = wire[i].u /\ Stale(wire)[i].new = wire[i].new
    BY StaleOnes DEF DTypeOK
  <1>len. Len(wire) \in Nat /\ sequence \in Nat BY <1>0 DEF DTypeOK
  <1> USE DEF Known, To, NoCall, state, locks,
            channel, chrome, preview, youtube
  <1>1. CASE UNCHANGED dvars BY <1>1 DEF dvars
  <1>2. ASSUME NEW u \in Users, \/ Starts(u) \/ Switches(u) \/ Switched(u) \/ Started(u) \/ StartFails(u)
                               \/ Goes(u) \/ Went(u) \/ WentNot(u) \/ GoesBack(u) \/ WentBack(u)
                               \/ Takes(u)
        PROVE  Known'
    <2>1. CASE Starts(u) BY <2>1 DEF Starts, CancelTube, Interrupted
    <2>2. CASE Switches(u) BY <2>2 DEF Switches
    <2>3. CASE Switched(u) BY <2>3 DEF Switched, Gone
    <2>4. CASE Started(u) BY <2>4 DEF Started, CancelTube, Interrupted
    <2>5. CASE StartFails(u) BY <2>5 DEF StartFails, Gone
    <2>6. CASE Goes(u)
    <3>1. CASE UNCHANGED <<channel, url>> BY <2>6, <3>1 DEF Goes
    <3>2. CASE url' = "none" BY <3>2
    <3> QED BY <2>6, <3>1, <3>2 DEF Goes
    <2>7. CASE Went(u)
    BY <2>7 DEF Went, Asked, Asking
    <2>8. CASE WentNot(u) BY <2>8 DEF WentNot
    <2>9. CASE GoesBack(u)
    <3>1. CASE UNCHANGED <<channel, url>> BY <2>9, <3>1 DEF GoesBack
    <3>2. CASE url' = "none" BY <3>2
    <3> QED BY <2>9, <3>1, <3>2 DEF GoesBack, Forget
    <2>10. CASE WentBack(u) BY <2>10 DEF WentBack
    <2>11. CASE Takes(u) BY <2>11 DEF Takes
    <2> QED BY <1>2, <2>1, <2>2, <2>3, <2>4, <2>5, <2>6, <2>7, <2>8, <2>9, <2>10, <2>11
  <1>3. CASE TubeAsks
    <2>1. url' = url /\ page' = page /\ Send("prepare", "tube", FALSE) BY <1>3 DEF TubeAsks
    <2>2. CASE link # "up" BY <2>1, <2>2, SendAppends
    <2>3. CASE link = "up"
      <3>1. /\ Len(wire') = Len(wire) + 1 /\ wire'[Len(wire) + 1].op = "prepare"
            /\ \A i \in 1..Len(wire) : wire'[i] = wire[i]
        BY <2>1, <2>3, SendAppends
      <3> QED BY <1>len, <2>1, <3>1
    <2> QED BY <2>2, <2>3
  <1>4. CASE TubeAnswered BY <1>4 DEF TubeAnswered
  <1>5. CASE TubeEnds BY <1>5 DEF TubeEnds
  <1>6. CASE Pauses \/ Delivers BY <1>6 DEF Pauses, Delivers, Interrupted
  <1>7. CASE Resumes BY <1>7 DEF Resumes, Ends
  <1>8. CASE CloseWaits BY <1>8 DEF CloseWaits
  <1>9. CASE Closes BY <1>9 DEF Closes, Gone
  <1>10. CASE TimesOut BY <1>10 DEF TimesOut
  <1>11. CASE Disconnects
    <2>1. wire' = Stale(wire) \/ wire' = <<>> BY <1>11 DEF Disconnects
    <2>2. Len(wire') = Len(wire) \/ Len(wire') = 0 BY <2>1, <1>0
    <2> QED BY <1>11, <1>0, <2>1, <2>2 DEF Disconnects
  <1>12. CASE Connects BY <1>12 DEF Connects
  <1>13. CASE Executes
    <2>1. 1 \in 1..Len(wire) BY <1>13, <1>len, TailLeaves
    <2> QED BY <1>13, <1>len, <2>1, TailLeaves
  <1>14. CASE Close BY <1>14 DEF Close, CancelTube, Interrupted
  <1>15. ASSUME NEW r \in replies, Reply(r) PROVE Known' BY <1>15 DEF Reply, Answers
  <1>16. ASSUME NEW u \in Users, \/ Navigate(u) \/ Back(u) \/ CancelUser(u)
                                \/ Asks(u) \/ CancelAttempt(u)
         PROVE  Known'
    <2>1. CASE Navigate(u) BY <2>1 DEF Navigate, Free
    <2>2. CASE Back(u) BY <2>2 DEF Back, Free, CancelTube, Interrupted
    <2>3. CASE CancelUser(u) BY <2>3 DEF CancelUser
    <2>4. CASE Asks(u) BY <2>4 DEF Asks, Free, CancelTube, Interrupted
    <2>5. CASE CancelAttempt(u) BY <2>5 DEF CancelAttempt, Interrupted, Ends
    <2> QED BY <1>16, <2>1, <2>2, <2>3, <2>4, <2>5
  <1> QED
    BY <1>1, <1>2, <1>3, <1>4, <1>5, <1>6, <1>7, <1>8, <1>9,
       <1>10, <1>11, <1>12, <1>13, <1>14, <1>15, <1>16
    DEF DesktopNext, DesktopOwn

\* What the user waits for is the last command, and its acknowledgement is the truth.
LEMMA AskedKept ==
  ASSUME DTypeOK, OneUser, Locked, InOrder, Asked, [DesktopNext]_dvars
  PROVE  Asked'
  <1>0. /\ wire \in Seq(Commands)
        /\ Stale(wire) \in Seq(Commands) /\ Len(Stale(wire)) = Len(wire)
        /\ \A i \in 1..Len(wire) : /\ Stale(wire)[i].id = wire[i].id /\ Stale(wire)[i].op = wire[i].op
                                    /\ Stale(wire)[i].u = wire[i].u /\ Stale(wire)[i].new = wire[i].new
    BY StaleOnes DEF DTypeOK
  <1>len. Len(wire) \in Nat /\ sequence \in Nat BY <1>0 DEF DTypeOK
  <1> USE DesktopAssumption DEF Asked, Asking, To, NoCall, state, locks,
            channel, chrome, preview, youtube
  <1>1. CASE UNCHANGED dvars BY <1>1 DEF dvars
  <1>2. ASSUME NEW u \in Users, \/ Starts(u) \/ Switches(u) \/ Switched(u) \/ Started(u) \/ StartFails(u)
                               \/ Goes(u) \/ Went(u) \/ WentNot(u) \/ GoesBack(u) \/ WentBack(u)
                               \/ Takes(u)
        PROVE  Asked'
    <2>1. CASE Starts(u)
    BY <2>1 DEF Starts, CancelTube, DTypeOK
    <2>2. CASE Switches(u) BY <2>2 DEF Switches
    <2>3. CASE Switched(u) BY <2>3 DEF Switched, Gone
    <2>4. CASE Started(u) BY <2>4 DEF Started, CancelTube, Interrupted
    <2>5. CASE StartFails(u) BY <2>5 DEF StartFails, Gone
    <2>6. CASE Goes(u)
    <3> SUFFICES ASSUME NEW v \in Users, user'[v] = "navigate" PROVE Asking(v)'
      BY DEF Asking
    <3>1. user[u] = "control" /\ (user'[v] = user[v] \/ v = u) BY <2>6 DEF Goes, DTypeOK
    <3>2. v = u BY <3>1 DEF OneUser, Resting
    <3>3. Send("navigate", u, initial = "new") BY <2>6, <3>1, <3>2 DEF Goes, DTypeOK
    <3>4. \A i \in 1..Len(wire) : wire[i].id # sequence + 1
      BY <1>0, <1>len DEF InOrder, Commands
    <3>5. \A r \in replies : r.id # sequence + 1 BY <1>len DEF InOrder, DTypeOK
    <3>6. call'.st # "ok" BY <3>3, SendAppends
    <3>7. CASE link = "up"
      <4>1. /\ sequence' = sequence + 1 /\ replies' = replies /\ call'.id = sequence'
            /\ Len(wire') = Len(wire) + 1
            /\ wire'[Len(wire) + 1].op = "navigate" /\ wire'[Len(wire) + 1].u = u
            /\ \A i \in 1..Len(wire) : wire'[i] = wire[i]
        BY <3>3, <3>7, SendAppends
      <4>2. \A i \in 1..Len(wire') : i \in 1..Len(wire) \/ i = Len(wire) + 1 BY <1>len, <4>1
      <4> QED BY <3>2, <3>4, <3>5, <3>6, <4>1, <4>2 DEF Asking
    <3>8. CASE link # "up" BY <3>3, <3>8, SendAppends DEF Asking
    <3> QED BY <3>7, <3>8
    <2>7. CASE Went(u) BY <2>7 DEF Went
    <2>8. CASE WentNot(u) BY <2>8 DEF WentNot
    <2>9. CASE GoesBack(u)
    <3>1. /\ user[u] = "back"
          /\ user' = [user EXCEPT ![u] = "going"] \/ user' = [user EXCEPT ![u] = "done"]
      BY <2>9 DEF GoesBack
    <3>2. \A v \in Users : v # u => user[v] # "navigate" BY <3>1 DEF OneUser, Resting
    <3>3. \A v \in Users : user'[v] # "navigate" BY <3>1, <3>2 DEF DTypeOK
    <3> QED BY <3>3
    <2>10. CASE WentBack(u) BY <2>10 DEF WentBack
    <2>11. CASE Takes(u) BY <2>11 DEF Takes
    <2> QED BY <1>2, <2>1, <2>2, <2>3, <2>4, <2>5, <2>6, <2>7, <2>8, <2>9, <2>10, <2>11
  <1>3. CASE TubeAsks
    BY <1>3 DEF TubeAsks, Locked
  <1>4. CASE TubeAnswered BY <1>4 DEF TubeAnswered
  <1>5. CASE TubeEnds BY <1>5 DEF TubeEnds
  <1>6. CASE Pauses \/ Delivers BY <1>6 DEF Pauses, Delivers, Interrupted
  <1>7. CASE Resumes
    <2>1. \A v \in Users : user'[v] = "navigate" => user[v] = "navigate"
      BY <1>7 DEF Resumes, Ends, DTypeOK
    <2> QED BY <1>7, <2>1 DEF Resumes, Asking
  <1>8. CASE CloseWaits BY <1>8 DEF CloseWaits
  <1>9. CASE Closes BY <1>9 DEF Closes, Gone
  <1>10. CASE TimesOut BY <1>10 DEF TimesOut
  <1>11. CASE Disconnects
    <2>1. wire' = Stale(wire) \/ wire' = <<>> BY <1>11 DEF Disconnects
    <2>2. Len(wire') = Len(wire) \/ Len(wire') = 0 BY <2>1, <1>0
    <2>3. call' = call \/ call'.st = "failed" BY <1>11 DEF Disconnects, DTypeOK
    <2>4. user' = user /\ sequence' = sequence /\ page' = page /\ replies' = {} BY <1>11 DEF Disconnects
    <2>5. call.st = "sent" => call'.st = "failed" BY <1>11 DEF Disconnects, DTypeOK
    <2> QED BY <1>len, <2>2, <2>3, <2>4, <2>5
  <1>12. CASE Connects BY <1>12 DEF Connects
  <1>13. CASE Executes
    <2> SUFFICES ASSUME NEW v \in Users, user'[v] = "navigate" PROVE Asking(v)'
      BY DEF Asking
    <2>1. /\ user[v] = "navigate" /\ 1 \in 1..Len(wire) /\ call' = call /\ sequence' = sequence
          /\ Head(wire) = wire[1] /\ Len(wire') = Len(wire) - 1 /\ call.st # "ok"
          /\ \A i \in 1..Len(wire') : i + 1 \in 1..Len(wire) /\ wire'[i] = wire[i + 1]
      BY <1>13, <1>len, TailLeaves
    <2>2. CASE call.st = "sent"
      <3>1. ASSUME NEW r \in replies', r.id = sequence, r.ok PROVE page' = v
        <4>1. r \notin replies
          <5>1. wire[1].id <= sequence /\ wire[1] \in Commands /\ (r \in replies => r.id < wire[1].id)
            BY <1>0, <2>1 DEF InOrder
          <5> QED BY <1>len, <3>1, <5>1 DEF Commands
        <4>2. wire[1].id = sequence /\ (wire[1].op = "navigate" => page' = wire[1].u)
          BY <1>13, <2>1, <3>1, <4>1, TailLeaves
        <4> QED BY <2>1, <2>2, <4>2
      <3>2. \A i \in 1..Len(wire') : wire'[i].id = sequence' => wire'[i].op = "navigate" /\ wire'[i].u = v
        BY <2>1, <2>2
      <3> QED BY <2>1, <2>2, <3>1, <3>2 DEF Asking
    <2> QED BY <2>1, <2>2 DEF Asking
  <1>14. CASE Close BY <1>14 DEF Close, CancelTube, Interrupted
  <1>15. ASSUME NEW r \in replies, Reply(r) PROVE Asked'
    <2> SUFFICES ASSUME NEW v \in Users, user'[v] = "navigate" PROVE Asking(v)'
      BY DEF Asking
    <2>1. user[v] = "navigate" /\ sequence' = sequence /\ wire' = wire /\ page' = page /\ replies' \subseteq replies
      BY <1>15 DEF Reply
    <2>2. CASE call' = call BY <2>1, <2>2 DEF Asking
    <2>3. CASE call.st = "sent" /\ call.id = r.id /\ call' = [call EXCEPT !.st = IF r.ok THEN "ok" ELSE "failed"]
      <3>1. call \in [id : Nat, st : {"none", "sent", "ok", "failed"}] BY DEF DTypeOK
      <3>2. call'.st = "ok" => r.ok BY <2>3, <3>1
      <3>3. call'.st # "sent" BY <2>3, <3>1
      <3>4. r.id = sequence BY <2>1, <2>3
      <3>5. Len(wire) = 0
        <4>1. \A i \in 1..Len(wire) : wire[i] \in Commands /\ r.id < wire[i].id /\ wire[i].id <= sequence
          BY <1>0 DEF InOrder
        <4>2. \A i \in 1..Len(wire) : FALSE BY <1>len, <3>4, <4>1 DEF Commands
        <4> QED BY <1>len, <4>2
      <3>6. r.ok => page = v BY <2>1, <2>3, <3>4
      <3> QED BY <2>1, <3>2, <3>3, <3>5, <3>6 DEF Asking
    <2> QED BY <1>15, <2>2, <2>3 DEF Reply, Answers
  <1>16. ASSUME NEW u \in Users, \/ Navigate(u) \/ Back(u) \/ CancelUser(u)
                                \/ Asks(u) \/ CancelAttempt(u)
         PROVE  Asked'
    <2>1. CASE Navigate(u) BY <2>1 DEF Navigate, Free
    <2>2. CASE Back(u) BY <2>2 DEF Back, Free, CancelTube, Interrupted
    <2>3. CASE CancelUser(u) BY <2>3 DEF CancelUser
    <2>4. CASE Asks(u)
      <3>1. \A v \in Users : user'[v] # "navigate" BY <2>4 DEF Asks, Free, DTypeOK
      <3> QED BY <3>1
    <2>5. CASE CancelAttempt(u)
      <3>1. \A v \in Users : user'[v] = "navigate" => user[v] = "navigate"
        BY <2>5 DEF CancelAttempt, Ends, DTypeOK
      <3> QED BY <2>5, <3>1 DEF CancelAttempt, Asking
    <2> QED BY <1>16, <2>1, <2>2, <2>3, <2>4, <2>5
  <1> QED
    BY <1>1, <1>2, <1>3, <1>4, <1>5, <1>6, <1>7, <1>8, <1>9,
       <1>10, <1>11, <1>12, <1>13, <1>14, <1>15, <1>16
    DEF DesktopNext, DesktopOwn

\* One navigation of a Chrome makes its tab.
LEMMA TabsKept ==
  ASSUME DTypeOK, Locked, Tabs, [DesktopNext]_dvars
  PROVE  Tabs'
  <1>0. /\ wire \in Seq(Commands)
        /\ Stale(wire) \in Seq(Commands) /\ Len(Stale(wire)) = Len(wire)
        /\ \A i \in 1..Len(wire) : /\ Stale(wire)[i].id = wire[i].id /\ Stale(wire)[i].op = wire[i].op
                                    /\ Stale(wire)[i].u = wire[i].u /\ Stale(wire)[i].new = wire[i].new
    BY StaleOnes DEF DTypeOK
  <1>len. Len(wire) \in Nat /\ sequence \in Nat BY <1>0 DEF DTypeOK
  <1> USE DEF Tabs, To, NoCall, state, locks,
            channel, chrome, preview, youtube
  <1>1. CASE UNCHANGED dvars BY <1>1 DEF dvars
  <1>2. ASSUME NEW u \in Users, \/ Starts(u) \/ Switches(u) \/ Switched(u) \/ Started(u) \/ StartFails(u)
                               \/ Goes(u) \/ Went(u) \/ WentNot(u) \/ GoesBack(u) \/ WentBack(u)
                               \/ Takes(u)
        PROVE  Tabs'
    <2>1. CASE Starts(u) BY <2>1 DEF Starts, CancelTube, Interrupted
    <2>2. CASE Switches(u) BY <2>2 DEF Switches
    <2>3. CASE Switched(u) BY <2>3 DEF Switched, Gone
    <2>4. CASE Started(u)
    BY <2>4, <1>len DEF Started, CancelTube, Interrupted, Locked
    <2>5. CASE StartFails(u) BY <2>5 DEF StartFails, Gone
    <2>6. CASE Goes(u)
    <3>1. CASE ~Send("navigate", u, initial = "new") BY <2>6, <3>1 DEF Goes
    <3>2. CASE Send("navigate", u, initial = "new")
      <4>1. CASE link # "up" BY <2>6, <3>2, <4>1, <1>len, SendAppends DEF Goes, FirstSent
      <4>2. CASE link = "up"
        <5>1. /\ Len(wire') = Len(wire) + 1 /\ wire'[Len(wire) + 1].new = (initial = "new")
              /\ \A i \in 1..Len(wire) : wire'[i] = wire[i]
          BY <3>2, <4>2, SendAppends
        <5>2. \A i \in 1..Len(wire') : i \in 1..Len(wire) \/ i = Len(wire) + 1 BY <1>len, <5>1
        <5>3. running /\ running' = running /\ tabs' = tabs BY <2>6, <4>2 DEF Goes
        <5>4. CASE initial = "new"
          <6>1. sequence' # sequence BY <1>len, <3>2 DEF Send
          <6>2. initial' # "new" BY <2>6, <5>4, <6>1 DEF Goes, FirstSent
          <6> QED BY <1>len, <5>1, <5>2, <5>3, <5>4, <6>2
        <5>5. CASE initial # "new"
          <6>1. initial' # "new" BY <2>6, <5>5 DEF Goes, FirstSent
          <6> QED BY <1>len, <5>1, <5>2, <5>3, <5>5, <6>1
        <5> QED BY <5>4, <5>5
      <4> QED BY <4>1, <4>2
    <3> QED BY <3>1, <3>2
    <2>7. CASE Went(u)
    BY <2>7 DEF Went, Locked
    <2>8. CASE WentNot(u) BY <2>8 DEF WentNot
    <2>9. CASE GoesBack(u)
    <3>0. CASE ~Send("back", u, FALSE) BY <2>9, <3>0 DEF GoesBack, Forget
    <3>9. CASE Send("back", u, FALSE) /\ running
      <4>1. CASE link # "up" BY <2>9, <3>9, <4>1, <1>len, SendAppends DEF GoesBack, Forget
      <4>2. CASE link = "up"
        <5>1. /\ Len(wire') = Len(wire) + 1 /\ wire'[Len(wire) + 1].new = FALSE
            /\ \A i \in 1..Len(wire) : wire'[i] = wire[i]
        BY <2>9, <3>9, <4>2, SendAppends DEF GoesBack, Forget
        <5>2. \A i \in 1..Len(wire') : i \in 1..Len(wire) \/ i = Len(wire) + 1 BY <1>len, <5>1
        <5>3. running BY <4>2
        <5> QED BY <2>9, <3>9, <1>len, <5>1, <5>2, <5>3 DEF GoesBack, Forget
      <4> QED BY <4>1, <4>2
    <3> QED BY <2>9, <3>0, <3>9 DEF GoesBack
    <2>10. CASE WentBack(u) BY <2>10 DEF WentBack
    <2>11. CASE Takes(u) BY <2>11 DEF Takes
    <2> QED BY <1>2, <2>1, <2>2, <2>3, <2>4, <2>5, <2>6, <2>7, <2>8, <2>9, <2>10, <2>11
  <1>3. CASE TubeAsks
    <2>1. CASE link # "up" BY <1>3, <2>1, <1>len, SendAppends DEF TubeAsks
    <2>2. CASE link = "up"
      <3>1. /\ Len(wire') = Len(wire) + 1 /\ wire'[Len(wire) + 1].new = FALSE
            /\ \A i \in 1..Len(wire) : wire'[i] = wire[i]
        BY <1>3, <2>2, SendAppends DEF TubeAsks
      <3>2. \A i \in 1..Len(wire') : i \in 1..Len(wire) \/ i = Len(wire) + 1 BY <1>len, <3>1
      <3>3. running BY <2>2
      <3> QED BY <1>3, <1>len, <3>1, <3>2, <3>3 DEF TubeAsks
    <2> QED BY <2>1, <2>2
  <1>4. CASE TubeAnswered BY <1>4 DEF TubeAnswered
  <1>5. CASE TubeEnds BY <1>5 DEF TubeEnds
  <1>6. CASE Pauses \/ Delivers BY <1>6 DEF Pauses, Delivers, Interrupted
  <1>7. CASE Resumes BY <1>7 DEF Resumes, Ends
  <1>8. CASE CloseWaits BY <1>8 DEF CloseWaits
  <1>9. CASE Closes BY <1>9 DEF Closes, Gone
  <1>10. CASE TimesOut BY <1>10 DEF TimesOut
  <1>11. CASE Disconnects
    <2>1. wire' = Stale(wire) \/ wire' = <<>> BY <1>11 DEF Disconnects
    <2>2. Len(wire') = Len(wire) \/ Len(wire') = 0 BY <2>1, <1>0
    <2>3. /\ tabs' = tabs /\ initial' = initial /\ running' = running /\ url' = url /\ link' = "down"
          /\ \A i \in 1..Len(wire') : i \in 1..Len(wire) /\ wire'[i].new = wire[i].new
      BY <1>11, <1>0, <1>len, <2>1, <2>2 DEF Disconnects
    <2> QED BY <1>len, <2>2, <2>3
  <1>12. CASE Connects BY <1>12 DEF Connects
  <1>13. CASE Executes
    <2>1. 1 \in 1..Len(wire) /\ Head(wire) = wire[1] BY <1>13, <1>len, TailLeaves
    <2>2. /\ tabs' # tabs => wire[1].new /\ tabs' = tabs + 1
          /\ \A i \in 1..Len(wire') : i + 1 \in 1..Len(wire) /\ i + 1 # 1 /\ wire'[i] = wire[i + 1]
          /\ running' = running /\ initial' = initial /\ url' = url /\ link' = link
          /\ Len(wire') = Len(wire) - 1
      BY <1>13, <1>len, <2>1, TailLeaves
    <2>3. tabs \in Nat BY DEF DTypeOK
    <2>4. ASSUME NEW i \in 1..Len(wire'), NEW j \in 1..Len(wire'), wire'[i].new, wire'[j].new
          PROVE  i = j
      <3>1. i + 1 \in 1..Len(wire) /\ j + 1 \in 1..Len(wire) BY <2>2
      <3>2. wire[i + 1].new /\ wire[j + 1].new BY <2>2, <2>4
      <3>3. i + 1 = j + 1 BY <3>1, <3>2
      <3> QED BY <3>3, <1>len, <2>2
    <2>5. running /\ running' BY <1>len, <2>1, <2>2
    <2>6. CASE tabs' = tabs BY <2>2, <2>4, <2>5, <2>6
    <2>7. CASE tabs' # tabs
      <3>1. initial # "new" /\ tabs # 1 /\ tabs' = 1 BY <2>1, <2>2, <2>3, <2>7
      <3>2. \A i \in 1..Len(wire') : ~wire'[i].new BY <2>1, <2>2, <2>7
      <3> QED BY <2>2, <2>4, <2>5, <3>1, <3>2
    <2> QED BY <2>6, <2>7
  <1>14. CASE Close BY <1>14 DEF Close, CancelTube, Interrupted
  <1>15. ASSUME NEW r \in replies, Reply(r) PROVE Tabs' BY <1>15 DEF Reply, Answers
  <1>16. ASSUME NEW u \in Users, \/ Navigate(u) \/ Back(u) \/ CancelUser(u)
                                \/ Asks(u) \/ CancelAttempt(u)
         PROVE  Tabs'
    <2>1. CASE Navigate(u) BY <2>1 DEF Navigate, Free
    <2>2. CASE Back(u) BY <2>2 DEF Back, Free, CancelTube, Interrupted
    <2>3. CASE CancelUser(u) BY <2>3 DEF CancelUser
    <2>4. CASE Asks(u) BY <2>4 DEF Asks, Free, CancelTube, Interrupted
    <2>5. CASE CancelAttempt(u) BY <2>5 DEF CancelAttempt, Interrupted, Ends
    <2> QED BY <1>16, <2>1, <2>2, <2>3, <2>4, <2>5
  <1> QED
    BY <1>1, <1>2, <1>3, <1>4, <1>5, <1>6, <1>7, <1>8, <1>9,
       <1>10, <1>11, <1>12, <1>13, <1>14, <1>15, <1>16
    DEF DesktopNext, DesktopOwn

\* Only the holder of control_lock attempts to deliver keys.
LEMMA AttemptedKept ==
  ASSUME DTypeOK, Locked, Attempted, [DesktopNext]_dvars
  PROVE  Attempted'
  <1> USE DesktopAssumption DEF Attempted, Locked, DTypeOK, To, NoCall, state, locks,
            channel, chrome, preview, youtube
  <1>1. CASE UNCHANGED dvars BY <1>1 DEF dvars
  <1>2. ASSUME NEW u \in Users, \/ Starts(u) \/ Switches(u) \/ Switched(u) \/ Started(u) \/ StartFails(u)
                               \/ Goes(u) \/ Went(u) \/ WentNot(u) \/ GoesBack(u) \/ WentBack(u)
                               \/ Takes(u)
        PROVE  Attempted'
    <2>1. CASE Starts(u) BY <2>1 DEF Starts, CancelTube, Interrupted
    <2>2. CASE Switches(u) BY <2>2 DEF Switches
    <2>3. CASE Switched(u) BY <2>3 DEF Switched, Gone
    <2>4. CASE Started(u) BY <2>4 DEF Started, CancelTube, Interrupted
    <2>5. CASE StartFails(u) BY <2>5 DEF StartFails, Gone
    <2>6. CASE Goes(u) BY <2>6 DEF Goes, Send, FirstSent
    <2>7. CASE Went(u)
    BY <2>7 DEF Went, Locked
    <2>8. CASE WentNot(u) BY <2>8 DEF WentNot
    <2>9. CASE GoesBack(u) BY <2>9 DEF GoesBack, Send, Forget
    <2>10. CASE WentBack(u) BY <2>10 DEF WentBack
    <2>11. CASE Takes(u) BY <2>11 DEF Takes
    <2> QED BY <1>2, <2>1, <2>2, <2>3, <2>4, <2>5, <2>6, <2>7, <2>8, <2>9, <2>10, <2>11
  <1>3. CASE TubeAsks BY <1>3 DEF TubeAsks, Send
  <1>4. CASE TubeAnswered BY <1>4 DEF TubeAnswered
  <1>5. CASE TubeEnds BY <1>5 DEF TubeEnds
  <1>6. CASE Pauses \/ Delivers BY <1>6 DEF Pauses, Delivers, Interrupted
  <1>7. CASE Resumes BY <1>7 DEF Resumes, Ends
  <1>8. CASE CloseWaits BY <1>8 DEF CloseWaits
  <1>9. CASE Closes BY <1>9 DEF Closes, Gone
  <1>10. CASE TimesOut BY <1>10 DEF TimesOut
  <1>11. CASE Disconnects BY <1>11 DEF Disconnects
  <1>12. CASE Connects BY <1>12 DEF Connects
  <1>13. CASE Executes BY <1>13 DEF Executes
  <1>14. CASE Close BY <1>14 DEF Close, CancelTube, Interrupted
  <1>15. ASSUME NEW r \in replies, Reply(r) PROVE Attempted' BY <1>15 DEF Reply, Answers
  <1>16. ASSUME NEW u \in Users, \/ Navigate(u) \/ Back(u) \/ CancelUser(u)
                                \/ Asks(u) \/ CancelAttempt(u)
         PROVE  Attempted'
    <2>1. CASE Navigate(u) BY <2>1 DEF Navigate, Free
    <2>2. CASE Back(u) BY <2>2 DEF Back, Free, CancelTube, Interrupted
    <2>3. CASE CancelUser(u) BY <2>3 DEF CancelUser
    <2>4. CASE Asks(u) BY <2>4 DEF Asks, Free, CancelTube, Interrupted
    <2>5. CASE CancelAttempt(u) BY <2>5 DEF CancelAttempt, Interrupted, Ends
    <2> QED BY <1>16, <2>1, <2>2, <2>3, <2>4, <2>5
  <1> QED
    BY <1>1, <1>2, <1>3, <1>4, <1>5, <1>6, <1>7, <1>8, <1>9,
       <1>10, <1>11, <1>12, <1>13, <1>14, <1>15, <1>16
    DEF DesktopNext, DesktopOwn

\* A paused input is resumed by the attempt that has paused it.
LEMMA PausedKept ==
  ASSUME DTypeOK, Locked, Attempted, Paused, [DesktopNext]_dvars
  PROVE  Paused'
  <1> USE DesktopAssumption DEF Paused, To, NoCall, state, locks,
            channel, chrome, preview, youtube
  <1>1. CASE UNCHANGED dvars BY <1>1 DEF dvars
  <1>2. ASSUME NEW u \in Users, \/ Starts(u) \/ Switches(u) \/ Switched(u) \/ Started(u) \/ StartFails(u)
                               \/ Goes(u) \/ Went(u) \/ WentNot(u) \/ GoesBack(u) \/ WentBack(u)
                               \/ Takes(u)
        PROVE  Paused'
    <2>1. CASE Starts(u) BY <2>1 DEF Starts, CancelTube, Interrupted
    <2>2. CASE Switches(u) BY <2>2 DEF Switches
    <2>3. CASE Switched(u) BY <2>3 DEF Switched, Gone
    <2>4. CASE Started(u) BY <2>4 DEF Started, CancelTube, Interrupted
    <2>5. CASE StartFails(u) BY <2>5 DEF StartFails, Gone
    <2>6. CASE Goes(u) BY <2>6 DEF Goes, Send, FirstSent
    <2>7. CASE Went(u)
    BY <2>7 DEF Went, Locked
    <2>8. CASE WentNot(u) BY <2>8 DEF WentNot
    <2>9. CASE GoesBack(u) BY <2>9 DEF GoesBack, Send, Forget
    <2>10. CASE WentBack(u) BY <2>10 DEF WentBack
    <2>11. CASE Takes(u) BY <2>11 DEF Takes, Attempted, DTypeOK
    <2> QED BY <1>2, <2>1, <2>2, <2>3, <2>4, <2>5, <2>6, <2>7, <2>8, <2>9, <2>10, <2>11
  <1>3. CASE TubeAsks BY <1>3 DEF TubeAsks, Send
  <1>4. CASE TubeAnswered BY <1>4 DEF TubeAnswered, Attempted, Locked, DTypeOK
  <1>5. CASE TubeEnds BY <1>5 DEF TubeEnds
  <1>6. CASE Pauses \/ Delivers BY <1>6 DEF Pauses, Delivers, Interrupted
  <1>7. CASE Resumes BY <1>7 DEF Resumes, Ends
  <1>8. CASE CloseWaits BY <1>8 DEF CloseWaits
  <1>9. CASE Closes BY <1>9 DEF Closes, Gone
  <1>10. CASE TimesOut BY <1>10 DEF TimesOut
  <1>11. CASE Disconnects BY <1>11 DEF Disconnects
  <1>12. CASE Connects BY <1>12 DEF Connects
  <1>13. CASE Executes BY <1>13 DEF Executes
  <1>14. CASE Close BY <1>14 DEF Close, CancelTube, Interrupted
  <1>15. ASSUME NEW r \in replies, Reply(r) PROVE Paused' BY <1>15 DEF Reply, Answers
  <1>16. ASSUME NEW u \in Users, \/ Navigate(u) \/ Back(u) \/ CancelUser(u)
                                \/ Asks(u) \/ CancelAttempt(u)
         PROVE  Paused'
    <2>1. CASE Navigate(u) BY <2>1 DEF Navigate, Free
    <2>2. CASE Back(u) BY <2>2 DEF Back, Free, CancelTube, Interrupted
    <2>3. CASE CancelUser(u) BY <2>3 DEF CancelUser
    <2>4. CASE Asks(u) BY <2>4 DEF Asks, Free, CancelTube, Interrupted
    <2>5. CASE CancelAttempt(u) BY <2>5 DEF CancelAttempt, Interrupted, Ends
    <2> QED BY <1>16, <2>1, <2>2, <2>3, <2>4, <2>5
  <1> QED
    BY <1>1, <1>2, <1>3, <1>4, <1>5, <1>6, <1>7, <1>8, <1>9,
       <1>10, <1>11, <1>12, <1>13, <1>14, <1>15, <1>16
    DEF DesktopNext, DesktopOwn

-----------------------------------------------------------------------------
\* The invariant holds in the beginning ...
LEMMA DesktopInit ==
  ASSUME DInit
  PROVE  DTypeOK /\ DInv
  <1> USE DEF DInit, NoCall
  <1>1. ChannelType /\ TaskType BY DEF ChannelType, TaskType
  <1>2. StateType
    <2>1. rounds \in 0..Rounds /\ tabs \in Nat /\ profile \in {"default", "sportsnet"} BY DesktopAssumption
    <2> QED BY <2>1 DEF StateType
  <1>3. DTypeOK BY <1>1, <1>2, TypeParts
  <1>4. OneUser /\ Locked BY DEF OneUser, Locked, Resting
  <1>5. InOrder /\ Known /\ Asked /\ Tabs /\ Attempted /\ Paused
    BY DEF InOrder, Known, Asked, Tabs, Attempted, Paused
  <1> QED BY <1>3, <1>4, <1>5 DEF DInv

\* ... and every step keeps it.
LEMMA DesktopStep ==
  ASSUME DTypeOK, DInv, [DesktopNext]_dvars
  PROVE  DTypeOK' /\ DInv'
  BY TypeKept, OneUserKept, LockedKept, InOrderKept, KnownKept, AskedKept, TabsKept, AttemptedKept, PausedKept DEF DInv

\* The invariant on which the two theorems below rest.
THEOREM DesktopInvariant == DesktopSpec => [](DTypeOK /\ DInv)
  <1>1. DInit => DTypeOK /\ DInv BY DesktopInit
  <1>2. DTypeOK /\ DInv /\ [DesktopNext]_dvars => DTypeOK' /\ DInv' BY DesktopStep
  <1> QED BY <1>1, <1>2, PTL DEF DesktopSpec

\* The page whose address the browser remembers, by which a later Play decides not to navigate,
\* is the page shown: for every history of cancelled, lost, late and repeated commands.
THEOREM PageIsRequestedProved == DesktopSpec => []PageIsRequested
  <1>1. DInv => PageIsRequested BY DEF DInv, Known, PageIsRequested
  <1> QED BY <1>1, DesktopInvariant, PTL

\* A started Chrome gets one tab from its navigations, and the preview's input is paused only
\* during a fullscreen or paste that holds control_lock and has yet to resume it, unless the
\* command that resumes it failed or was interrupted.
THEOREM DesktopTrueProved == DesktopSpec => []DesktopTrue
  <1>1. DTypeOK /\ DInv => DesktopTrue
    BY DesktopAssumption DEF DInv, Tabs, Paused, DesktopTrue, OneTab, InputResumed, Attempted
  <1> QED BY <1>1, DesktopInvariant, PTL

=============================================================================
