-------------------------- MODULE ShellTasks_proofs -------------------------
(***************************************************************************)
(* Proofs about ShellTasks, for any number of commands and of restarts.    *)
(*                                                                         *)
(* Three inductive invariants, each on top of the one before.  Marks ties  *)
(* the place of a command's thread to the two structures Stop reads under  *)
(* _fg_lock (the foreground map and the rows) and follows the marks that a *)
(* Stop leaves from the moment it sets them.  Groups and Told follow the   *)
(* command's processes and its end event.  FirstLife is what a server that *)
(* was not restarted knows of every command.                               *)
(***************************************************************************)
EXTENDS ShellTasks, TLAPS

(* Between _track and _untrack, outside a hand-off. *)
Tracked == {"waiting", "expired", "claimed", "linger", "leftover", "untrack"}

(* A command in the foreground map has its thread between _track and the   *)
(* end of a hand-off.                                                      *)
FgPlaced == \A c \in fg : at[c] \in Tracked \cup Handing

(* It has no row before its hand-off begins. *)
RowlessBefore ==
    \A c \in Cmd : at[c] \in {"none", "spawned"} \cup Tracked => status[c] = "none"

(* A hand-off of a foreground command holds _fg_lock. *)
LockedHandOff == \A c \in fg : at[c] \in Handing => fgLock = c

(* It is not of a command that a Stop claimed. *)
HandsUnclaimed == \A c \in fgStopped : at[c] \notin Handing

(* A claimed group keeps its mark until its tool call is over. *)
ClaimMarked ==
    \A c \in Cmd : claim[c] = "group" =>
        status[c] = "none" /\ (at[c] = "done" \/ c \in fgStopped)

Marks ==
    /\ FgPlaced /\ RowlessBefore /\ LockedHandOff /\ HandsUnclaimed
    /\ NoStaleMarks /\ ClaimMarked

-----------------------------------------------------------------------------
(* Every variable of the shell-task model keeps its type. *)
THEOREM TypeCorrect == Spec => []TypeOK
<1>1. Init => TypeOK
  BY CrashesFinite DEF Init, TypeOK, Where, Handing, Terminal
<1>2. TypeOK /\ [Next]_vars => TypeOK'
  <2> SUFFICES ASSUME TypeOK, [Next]_vars PROVE TypeOK'
    OBVIOUS
  <2> USE DEF TypeOK, Where, Handing, Terminal, threadVars, rowVars, waitVars, stopVars,
              serverVars, Go, TellEnd, CreateTask, FinishTask, Finished, Thread
  <2>1. CASE UNCHANGED vars
    BY <2>1 DEF vars
  <2>2. ASSUME NEW c \in Cmd, ToolStep(c) PROVE TypeOK'
    <3>1. CASE Track(c)
      BY <3>1 DEF Track
    <3>2. CASE LeaderSeen(c)
      BY <3>2 DEF LeaderSeen
    <3>3. CASE BudgetOut(c)
      BY <3>3 DEF BudgetOut
    <3>4. CASE LingerEnds(c)
      BY <3>4 DEF LingerEnds
    <3>5. CASE HandOff(c)
      BY <3>5 DEF HandOff
    <3>6. CASE Untrack(c)
      BY <3>6 DEF Untrack
    <3>7. CASE Spawn(c)
      BY <3>7 DEF Spawn
    <3>8. CASE SpawnFails(c)
      BY <3>8 DEF SpawnFails
    <3>9. CASE AttachPid(c)
      BY <3>9 DEF AttachPid
    <3>10. CASE Announce(c)
      BY <3>10 DEF Announce
    <3>11. CASE Adopt(c)
      BY <3>11 DEF Adopt
    <3>12. CASE OpenFails(c)
      BY <3>12 DEF OpenFails
    <3> QED
      BY <2>2, <3>1, <3>2, <3>3, <3>4, <3>5, <3>6, <3>7, <3>8, <3>9, <3>10, <3>11, <3>12
      DEF ToolStep
  <2>3. ASSUME NEW c \in Cmd, WaiterStep(c) PROVE TypeOK'
    BY <2>3 DEF WaiterStep, WaitLeader, WaitGroup, Cap, Forget, Close, ReportBack, AdoptedEnds
  <2>4. ASSUME NEW c \in Cmd, StopStep(c) PROVE TypeOK'
    BY <2>4 DEF StopStep, StopTask, Kill, CloseTermed
  <2>5. ASSUME NEW c \in Cmd, LeaderExits(c) \/ GroupExits(c) PROVE TypeOK'
    BY <2>5 DEF LeaderExits, GroupExits
  <2>6. ASSUME NEW c \in Cmd, RunForeground(c) \/ StartBackground(c) \/ StopRow(c) PROVE TypeOK'
    BY <2>6 DEF RunForeground, StartBackground, StopRow
  <2>7. CASE StopTurn
    <3> DEFINE claimed == {c \in fg \cap Mine : GroupRunning(c)}
               listed == {c \in Mine : status[c] = "running"}
    <3>1. claimed \subseteq Cmd /\ listed \subseteq Cmd
      BY Matched
    <3>2. claim' \in [Cmd -> {"no", "group", "handle", "pid"}]
      BY <2>7 DEF StopTurn
    <3>3. fgStopped' \subseteq Cmd /\ kills' \subseteq Cmd /\ calls' \subseteq Cmd
      BY <2>7, <3>1 DEF StopTurn
    <3> QED
      BY <2>7, <3>2, <3>3 DEF StopTurn
  <2>8. CASE Crash
    <3>1. crashes' \in 0..MaxCrashes
      BY <2>8, CrashesFinite DEF Crash
    <3>2. at' \in [Cmd -> Where] /\ fgLock' \in Cmd \cup {NoCmd}
      BY <2>8 DEF Crash
    <3> QED
      BY <2>8, <3>1, <3>2 DEF Crash
  <2>9. CASE Boot
    BY <2>9 DEF Boot, Reconciled
  <2> QED
    BY <2>1, <2>2, <2>3, <2>4, <2>5, <2>6, <2>7, <2>8, <2>9 DEF Next
<1> QED
  BY <1>1, <1>2, PTL DEF Spec
-----------------------------------------------------------------------------
(* Every step of the system keeps the invariant. *)
LEMMA MarksKept == TypeOK /\ Marks /\ [Next]_vars => Marks'
<1> SUFFICES ASSUME TypeOK, Marks, [Next]_vars PROVE Marks'
  OBVIOUS
<1> USE NoCmdIsNoCmd
<1> USE DEF TypeOK, Marks, FgPlaced, RowlessBefore, LockedHandOff, HandsUnclaimed,
            NoStaleMarks, ClaimMarked, Tracked, Handing, threadVars, rowVars, waitVars,
            stopVars, serverVars, Go, TellEnd, CreateTask, FinishTask, Finished, Thread,
            ClaimedByStop
<1>1. CASE UNCHANGED vars
  BY <1>1 DEF vars
<1>2. ASSUME NEW c \in Cmd, LeaderExits(c) \/ GroupExits(c) PROVE Marks'
  <2>1. CASE LeaderExits(c)
    BY <2>1 DEF LeaderExits
  <2>2. CASE GroupExits(c)
    BY <2>2 DEF GroupExits
  <2> QED
    BY <1>2, <2>1, <2>2
<1>3. ASSUME NEW c \in Cmd, RunForeground(c) \/ StartBackground(c) \/ StopRow(c) PROVE Marks'
  <2>1. CASE RunForeground(c)
    BY <2>1 DEF RunForeground
  <2>2. CASE StartBackground(c)
    BY <2>2 DEF StartBackground
  <2>3. CASE StopRow(c)
    BY <2>3 DEF StopRow
  <2> QED
    BY <1>3, <2>1, <2>2, <2>3
<1>4. ASSUME NEW c \in Cmd, ToolStep(c) PROVE Marks'
  <2>1. CASE Track(c)
    BY <2>1 DEF Track
  <2>2. CASE LeaderSeen(c)
    BY <2>2 DEF LeaderSeen
  <2>3. CASE BudgetOut(c)
    BY <2>3 DEF BudgetOut
  <2>4. CASE LingerEnds(c)
    BY <2>4 DEF LingerEnds
  <2>5. CASE HandOff(c)
    BY <2>5 DEF HandOff
  <2>6. CASE Untrack(c)
    BY <2>6 DEF Untrack
  <2>7. CASE Spawn(c)
    BY <2>7 DEF Spawn
  <2>8. CASE SpawnFails(c)
    BY <2>8 DEF SpawnFails
  <2>9. CASE AttachPid(c)
    BY <2>9 DEF AttachPid
  <2>10. CASE Announce(c)
    BY <2>10 DEF Announce
  <2>11. CASE Adopt(c)
    BY <2>11 DEF Adopt
  <2>12. CASE OpenFails(c)
    BY <2>12 DEF OpenFails
  <2> QED
    BY <1>4, <2>1, <2>2, <2>3, <2>4, <2>5, <2>6, <2>7, <2>8, <2>9, <2>10, <2>11, <2>12
    DEF ToolStep
<1>5. ASSUME NEW c \in Cmd, WaiterStep(c) PROVE Marks'
  <2>1. CASE WaitLeader(c)
    BY <2>1 DEF WaitLeader
  <2>2. CASE WaitGroup(c)
    BY <2>2 DEF WaitGroup
  <2>3. CASE Cap(c)
    BY <2>3 DEF Cap
  <2>4. CASE Forget(c)
    BY <2>4 DEF Forget
  <2>5. CASE Close(c)
    BY <2>5 DEF Close
  <2>6. CASE ReportBack(c)
    BY <2>6 DEF ReportBack
  <2>7. CASE AdoptedEnds(c)
    BY <2>7 DEF AdoptedEnds
  <2> QED
    BY <1>5, <2>1, <2>2, <2>3, <2>4, <2>5, <2>6, <2>7 DEF WaiterStep
<1>6. ASSUME NEW c \in Cmd, StopStep(c) PROVE Marks'
  <2>1. CASE StopTask(c)
    BY <2>1 DEF StopTask
  <2>2. CASE Kill(c)
    BY <2>2 DEF Kill
  <2>3. CASE CloseTermed(c)
    BY <2>3 DEF CloseTermed
  <2> QED
    BY <1>6, <2>1, <2>2, <2>3 DEF StopStep
<1>7. CASE StopTurn
  BY <1>7 DEF StopTurn
<1>8. CASE Crash
  BY <1>8 DEF Crash
<1>9. CASE Boot
  BY <1>9 DEF Boot, Reconciled
<1> QED
  BY <1>1, <1>2, <1>3, <1>4, <1>5, <1>6, <1>7, <1>8, <1>9 DEF Next

(* So the marks are right throughout. *)
LEMMA MarksHold == Spec => []Marks
<1>1. Init => Marks
  BY DEF Init, Marks, FgPlaced, RowlessBefore, LockedHandOff, HandsUnclaimed, NoStaleMarks,
         ClaimMarked
<1> QED
  BY <1>1, TypeCorrect, MarksKept, PTL DEF Spec

(* Stop marks die with what they mark, so a later command is never taken   *)
(* for a stopped one.                                                      *)
THEOREM MarksFresh == Spec => []NoStaleMarks
<1>1. Marks => NoStaleMarks
  BY DEF Marks
<1> QED
  BY <1>1, MarksHold, PTL

(* A command claimed by a Stop in the foreground is never handed off. *)
THEOREM NeverAdopted == Spec => []ClaimedStaysInline
<1>1. Marks => ClaimedStaysInline
  BY DEF Marks, ClaimMarked, ClaimedStaysInline
<1> QED
  BY <1>1, MarksHold, PTL
-----------------------------------------------------------------------------
(* A row that was closed keeps the status it was closed with: every write  *)
(* of a status goes to a row that runs, or to a command without one.       *)
LEMMA VerdictKept ==
    TypeOK /\ RowlessBefore /\ [Next]_vars =>
        \A d \in Cmd : status[d] \in Terminal => status'[d] = status[d]
<1> SUFFICES ASSUME TypeOK, RowlessBefore, [Next]_vars,
                    NEW d \in Cmd, status[d] \in Terminal
             PROVE  status'[d] = status[d]
  OBVIOUS
<1> USE DEF TypeOK, RowlessBefore, Tracked, Handing, Terminal, threadVars, rowVars, waitVars,
            stopVars, serverVars, Go, TellEnd, CreateTask, FinishTask, Finished, Thread
<1>1. CASE UNCHANGED vars
  BY <1>1 DEF vars
<1>2. ASSUME NEW c \in Cmd, LeaderExits(c) \/ GroupExits(c) PROVE status'[d] = status[d]
  <2>1. CASE LeaderExits(c)
    BY <2>1 DEF LeaderExits
  <2>2. CASE GroupExits(c)
    BY <2>2 DEF GroupExits
  <2> QED
    BY <1>2, <2>1, <2>2
<1>3. ASSUME NEW c \in Cmd, RunForeground(c) \/ StartBackground(c) \/ StopRow(c) PROVE status'[d] = status[d]
  <2>1. CASE RunForeground(c)
    BY <2>1 DEF RunForeground
  <2>2. CASE StartBackground(c)
    BY <2>2 DEF StartBackground
  <2>3. CASE StopRow(c)
    BY <2>3 DEF StopRow
  <2> QED
    BY <1>3, <2>1, <2>2, <2>3
<1>4. ASSUME NEW c \in Cmd, ToolStep(c) PROVE status'[d] = status[d]
  <2>1. CASE Track(c)
    BY <2>1 DEF Track
  <2>2. CASE LeaderSeen(c)
    BY <2>2 DEF LeaderSeen
  <2>3. CASE BudgetOut(c)
    BY <2>3 DEF BudgetOut
  <2>4. CASE LingerEnds(c)
    BY <2>4 DEF LingerEnds
  <2>5. CASE HandOff(c)
    BY <2>5 DEF HandOff
  <2>6. CASE Untrack(c)
    BY <2>6 DEF Untrack
  <2>7. CASE Spawn(c)
    BY <2>7 DEF Spawn
  <2>8. CASE SpawnFails(c)
    BY <2>8 DEF SpawnFails
  <2>9. CASE AttachPid(c)
    BY <2>9 DEF AttachPid
  <2>10. CASE Announce(c)
    BY <2>10 DEF Announce
  <2>11. CASE Adopt(c)
    BY <2>11 DEF Adopt
  <2>12. CASE OpenFails(c)
    BY <2>12 DEF OpenFails
  <2> QED
    BY <1>4, <2>1, <2>2, <2>3, <2>4, <2>5, <2>6, <2>7, <2>8, <2>9, <2>10, <2>11, <2>12
    DEF ToolStep
<1>5. ASSUME NEW c \in Cmd, WaiterStep(c) PROVE status'[d] = status[d]
  <2>1. CASE WaitLeader(c)
    BY <2>1 DEF WaitLeader
  <2>2. CASE WaitGroup(c)
    BY <2>2 DEF WaitGroup
  <2>3. CASE Cap(c)
    BY <2>3 DEF Cap
  <2>4. CASE Forget(c)
    BY <2>4 DEF Forget
  <2>5. CASE Close(c)
    BY <2>5 DEF Close
  <2>6. CASE ReportBack(c)
    BY <2>6 DEF ReportBack
  <2>7. CASE AdoptedEnds(c)
    BY <2>7 DEF AdoptedEnds
  <2> QED
    BY <1>5, <2>1, <2>2, <2>3, <2>4, <2>5, <2>6, <2>7 DEF WaiterStep
<1>6. ASSUME NEW c \in Cmd, StopStep(c) PROVE status'[d] = status[d]
  <2>1. CASE StopTask(c)
    BY <2>1 DEF StopTask
  <2>2. CASE Kill(c)
    BY <2>2 DEF Kill
  <2>3. CASE CloseTermed(c)
    BY <2>3 DEF CloseTermed
  <2> QED
    BY <1>6, <2>1, <2>2, <2>3 DEF StopStep
<1>7. CASE StopTurn
  BY <1>7 DEF StopTurn
<1>8. CASE Crash
  BY <1>8 DEF Crash
<1>9. CASE Boot
  BY <1>9 DEF Boot, Reconciled
<1> QED
  BY <1>1, <1>2, <1>3, <1>4, <1>5, <1>6, <1>7, <1>8, <1>9 DEF Next

(* A stop racing a natural exit never changes a row's terminal status. *)
THEOREM VerdictStands == Spec => OneVerdict
<1>1. TypeOK /\ Marks /\ [Next]_vars =>
        [\A c \in Cmd : status[c] \in Terminal => status'[c] = status[c]]_vars
  BY VerdictKept DEF Marks
<1> QED
  BY <1>1, TypeCorrect, MarksHold, PTL DEF Spec, OneVerdict

-----------------------------------------------------------------------------
(* A waiter that reports has closed its row. *)
ReportsClosed == \A c \in Cmd : waiter[c] = "reporting" => status[c] \in Terminal

Watched == RowHasWatcher /\ ReportsClosed

(* Every step leaves each running row with the thread that closes it. *)
LEMMA WatchedKept == TypeOK /\ RowlessBefore /\ Watched /\ [Next]_vars => Watched'
<1> SUFFICES ASSUME TypeOK, RowlessBefore, Watched, [Next]_vars PROVE Watched'
  OBVIOUS
<1> USE DEF TypeOK, RowlessBefore, Watched, RowHasWatcher, ReportsClosed, Tracked, Handing,
            Terminal, threadVars, rowVars, waitVars, stopVars, serverVars, Go, TellEnd,
            CreateTask, FinishTask, Finished, Thread
<1>1. CASE UNCHANGED vars
  BY <1>1 DEF vars
<1>2. ASSUME NEW c \in Cmd, LeaderExits(c) \/ GroupExits(c) PROVE Watched'
  <2>1. CASE LeaderExits(c)
    BY <2>1 DEF LeaderExits
  <2>2. CASE GroupExits(c)
    BY <2>2 DEF GroupExits
  <2> QED
    BY <1>2, <2>1, <2>2
<1>3. ASSUME NEW c \in Cmd, RunForeground(c) \/ StartBackground(c) \/ StopRow(c) PROVE Watched'
  <2>1. CASE RunForeground(c)
    BY <2>1 DEF RunForeground
  <2>2. CASE StartBackground(c)
    BY <2>2 DEF StartBackground
  <2>3. CASE StopRow(c)
    BY <2>3 DEF StopRow
  <2> QED
    BY <1>3, <2>1, <2>2, <2>3
<1>4. ASSUME NEW c \in Cmd, ToolStep(c) PROVE Watched'
  <2>1. CASE Track(c)
    BY <2>1 DEF Track
  <2>2. CASE LeaderSeen(c)
    BY <2>2 DEF LeaderSeen
  <2>3. CASE BudgetOut(c)
    BY <2>3 DEF BudgetOut
  <2>4. CASE LingerEnds(c)
    BY <2>4 DEF LingerEnds
  <2>5. CASE HandOff(c)
    BY <2>5 DEF HandOff
  <2>6. CASE Untrack(c)
    BY <2>6 DEF Untrack
  <2>7. CASE Spawn(c)
    BY <2>7 DEF Spawn
  <2>8. CASE SpawnFails(c)
    BY <2>8 DEF SpawnFails
  <2>9. CASE AttachPid(c)
    BY <2>9 DEF AttachPid
  <2>10. CASE Announce(c)
    BY <2>10 DEF Announce
  <2>11. CASE Adopt(c)
    BY <2>11 DEF Adopt
  <2>12. CASE OpenFails(c)
    BY <2>12 DEF OpenFails
  <2> QED
    BY <1>4, <2>1, <2>2, <2>3, <2>4, <2>5, <2>6, <2>7, <2>8, <2>9, <2>10, <2>11, <2>12
    DEF ToolStep
<1>5. ASSUME NEW c \in Cmd, WaiterStep(c) PROVE Watched'
  <2>1. CASE WaitLeader(c)
    BY <2>1 DEF WaitLeader
  <2>2. CASE WaitGroup(c)
    BY <2>2 DEF WaitGroup
  <2>3. CASE Cap(c)
    BY <2>3 DEF Cap
  <2>4. CASE Forget(c)
    BY <2>4 DEF Forget
  <2>5. CASE Close(c)
    BY <2>5 DEF Close
  <2>6. CASE ReportBack(c)
    BY <2>6 DEF ReportBack
  <2>7. CASE AdoptedEnds(c)
    BY <2>7 DEF AdoptedEnds
  <2> QED
    BY <1>5, <2>1, <2>2, <2>3, <2>4, <2>5, <2>6, <2>7 DEF WaiterStep
<1>6. ASSUME NEW c \in Cmd, StopStep(c) PROVE Watched'
  <2>1. CASE StopTask(c)
    BY <2>1 DEF StopTask
  <2>2. CASE Kill(c)
    BY <2>2 DEF Kill
  <2>3. CASE CloseTermed(c)
    BY <2>3 DEF CloseTermed
  <2> QED
    BY <1>6, <2>1, <2>2, <2>3 DEF StopStep
<1>7. CASE StopTurn
  BY <1>7 DEF StopTurn
<1>8. CASE Crash
  BY <1>8 DEF Crash
<1>9. CASE Boot
  BY <1>9 DEF Boot, Reconciled
<1> QED
  BY <1>1, <1>2, <1>3, <1>4, <1>5, <1>6, <1>7, <1>8, <1>9 DEF Next

(* So it does throughout. *)
LEMMA WatchedHolds == Spec => []Watched
<1>1. Init => Watched
  BY DEF Init, Watched, RowHasWatcher, ReportsClosed
<1>2. Marks => RowlessBefore
  BY DEF Marks
<1> QED
  BY <1>1, <1>2, TypeCorrect, MarksHold, WatchedKept, PTL DEF Spec

(* While the server runs, a running row has a thread that will close it,   *)
(* however often the server died before.                                   *)
THEOREM NoStrandedRow == Spec => []RowHasWatcher
<1>1. Watched => RowHasWatcher
  BY DEF Watched
<1> QED
  BY <1>1, WatchedHolds, PTL

-----------------------------------------------------------------------------
(***************************************************************************)
(* What the threads know of a command's processes.  Groups holds across    *)
(* restarts; FirstLife is about the server's first life, since a restart   *)
(* leaves commands that nothing in memory knows of.                        *)
(***************************************************************************)

(* Before its process is started a command has no group, no pid, no waiter *)
(* and nobody that kills it.                                               *)
Unborn ==
    \A c \in Cmd : at[c] \in {"none", "launch", "unopened"} =>
        /\ group[c] = "none" /\ ~hasPid[c] /\ waiter[c] = "none"
        /\ c \notin kills \cup terms \cup procs /\ claim[c] \notin {"group", "handle"}

(* Whatever waits for a command's group, or knows its pid, waits for one   *)
(* that was started.                                                       *)
Born ==
    \A c \in Cmd :
        at[c] \notin {"none", "launch", "unopened", "done"} \/ hasPid[c] \/ waiter[c] # "none" =>
            group[c] # "none"

(* A background start and a hand-off have made the row, and so has         *)
(* whatever knows the pid.                                                 *)
RowMade ==
    \A c \in Cmd :
        at[c] \in {"launch", "unopened", "born"} \cup Handing \/ hasPid[c] => status[c] # "none"

(* A waiter gets past its waits when the group is gone. *)
OverGone ==
    \A c \in Cmd : waiter[c] \in {"over", "closing", "reporting"} => group[c] = "gone"

(* A kill of c's group is running, or nothing of c runs. *)
Killed(c) == c \in kills \/ ~Alive(c)

(* What a Stop got hold of by its group or its handle is being killed. *)
ClaimKills == \A c \in Cmd : claim[c] \in {"group", "handle"} => Killed(c)

Groups == Unborn /\ Born /\ RowMade /\ OverGone /\ ClaimKills

(* An end event was sent by whoever closed the row, and the waiter that    *)
(* has closed it and not sent its event yet is the only one to send one.   *)
Told ==
    \A c \in Cmd :
        /\ endings[c] \in {0, 1}
        /\ endings[c] = 1 => status[c] \in Terminal /\ waiter[c] # "reporting"

(* Every step keeps both. *)
LEMMA GroupsKept ==
    TypeOK /\ Marks /\ Watched /\ Groups /\ Told /\ [Next]_vars => (Groups /\ Told)'
<1> SUFFICES ASSUME TypeOK, Marks, Watched, Groups, Told, [Next]_vars PROVE (Groups /\ Told)'
  OBVIOUS
<1> USE NoCmdIsNoCmd
<1> USE DEF TypeOK, Marks, FgPlaced, RowlessBefore, Watched, ReportsClosed, Groups, Unborn, Born,
            RowMade, OverGone, ClaimKills, Killed, Told, Tracked,
            Handing, Terminal, Alive, GroupRunning, threadVars, rowVars, waitVars, stopVars,
            serverVars, Go, TellEnd, CreateTask, FinishTask, Finished, Thread
<1>1. CASE UNCHANGED vars
  BY <1>1 DEF vars
<1>2. ASSUME NEW c \in Cmd, LeaderExits(c) \/ GroupExits(c) PROVE (Groups /\ Told)'
  <2>1. CASE LeaderExits(c)
    BY <2>1 DEF LeaderExits
  <2>2. CASE GroupExits(c)
    BY <2>2 DEF GroupExits
  <2> QED
    BY <1>2, <2>1, <2>2
<1>3. ASSUME NEW c \in Cmd, RunForeground(c) \/ StartBackground(c) \/ StopRow(c) PROVE (Groups /\ Told)'
  <2>1. CASE RunForeground(c)
    BY <2>1 DEF RunForeground
  <2>2. CASE StartBackground(c)
    BY <2>2 DEF StartBackground
  <2>3. CASE StopRow(c)
    BY <2>3 DEF StopRow
  <2> QED
    BY <1>3, <2>1, <2>2, <2>3
<1>4. ASSUME NEW c \in Cmd, ToolStep(c) PROVE (Groups /\ Told)'
  <2>1. CASE Track(c)
    BY <2>1 DEF Track
  <2>2. CASE LeaderSeen(c)
    BY <2>2 DEF LeaderSeen
  <2>3. CASE BudgetOut(c)
    BY <2>3 DEF BudgetOut
  <2>4. CASE LingerEnds(c)
    BY <2>4 DEF LingerEnds
  <2>5. CASE HandOff(c)
    BY <2>5 DEF HandOff
  <2>6. CASE Untrack(c)
    BY <2>6 DEF Untrack
  <2>7. CASE Spawn(c)
    BY <2>7 DEF Spawn
  <2>8. CASE SpawnFails(c)
    BY <2>8 DEF SpawnFails
  <2>9. CASE AttachPid(c)
    BY <2>9 DEF AttachPid
  <2>10. CASE Announce(c)
    BY <2>10 DEF Announce
  <2>11. CASE Adopt(c)
    BY <2>11 DEF Adopt
  <2>12. CASE OpenFails(c)
    BY <2>12 DEF OpenFails
  <2> QED
    BY <1>4, <2>1, <2>2, <2>3, <2>4, <2>5, <2>6, <2>7, <2>8, <2>9, <2>10, <2>11, <2>12
    DEF ToolStep
<1>5. ASSUME NEW c \in Cmd, WaiterStep(c) PROVE (Groups /\ Told)'
  <2>1. CASE WaitLeader(c)
    BY <2>1 DEF WaitLeader
  <2>2. CASE WaitGroup(c)
    BY <2>2 DEF WaitGroup
  <2>3. CASE Cap(c)
    BY <2>3 DEF Cap
  <2>4. CASE Forget(c)
    BY <2>4 DEF Forget
  <2>5. CASE Close(c)
    BY <2>5 DEF Close
  <2>6. CASE ReportBack(c)
    BY <2>6 DEF ReportBack
  <2>7. CASE AdoptedEnds(c)
    BY <2>7 DEF AdoptedEnds
  <2> QED
    BY <1>5, <2>1, <2>2, <2>3, <2>4, <2>5, <2>6, <2>7 DEF WaiterStep
<1>6. ASSUME NEW c \in Cmd, StopStep(c) PROVE (Groups /\ Told)'
  <2>1. CASE StopTask(c)
    BY <2>1 DEF StopTask
  <2>2. CASE Kill(c)
    BY <2>2 DEF Kill
  <2>3. CASE CloseTermed(c)
    BY <2>3 DEF CloseTermed
  <2> QED
    BY <1>6, <2>1, <2>2, <2>3 DEF StopStep
<1>7. CASE StopTurn
  BY <1>7 DEF StopTurn
<1>8. CASE Crash
  BY <1>8 DEF Crash
<1>9. CASE Boot
  BY <1>9 DEF Boot, Reconciled, Adoptable
<1> QED
  BY <1>1, <1>2, <1>3, <1>4, <1>5, <1>6, <1>7, <1>8, <1>9 DEF Next

(* They hold throughout. *)
LEMMA GroupsHold == Spec => [](Groups /\ Told)
<1>1. Init => Groups /\ Told
  BY DEF Init, Groups, Unborn, Born, RowMade, OverGone, ClaimKills, Killed, Told, Alive,
         Handing
<1> QED
  BY <1>1, TypeCorrect, MarksHold, WatchedHolds, GroupsKept, PTL DEF Spec

(* The end of a command is announced at most once, whoever closes its row  *)
(* and however often the server dies in between.                           *)
THEOREM EndsOnce == Spec => []OneEnding
<1>1. ASSUME Told PROVE OneEnding
  <2>1. \A c \in Cmd : endings[c] = 0 \/ endings[c] = 1
    BY <1>1 DEF Told
  <2>2. 0 <= 1 /\ 1 <= 1
    OBVIOUS
  <2> QED
    BY <2>1, <2>2 DEF OneEnding
<1> QED
  BY <1>1, GroupsHold, PTL

(* Nothing runs of a command that a Stop got hold of by its group or its   *)
(* handle and is done with, whether its processes obey SIGTERM or not and  *)
(* however often the server died before.  The SIGTERM by a row's pid is    *)
(* not such a hold.                                                        *)
THEOREM StopEndsThem == Spec => []StopReaches
<1>1. Groups => StopReaches
  BY DEF Groups, ClaimKills, Killed, StopReaches
<1> QED
  BY <1>1, GroupsHold, PTL
-----------------------------------------------------------------------------
(* The server has not died, and so has adopted nothing. *)
NeverDied == up /\ \A c \in Cmd : waiter[c] # "adopted"

(* A tracked command is in the foreground map, and one that is about to be *)
(* started in the background has a running row.                            *)
Seen ==
    \A c \in Cmd :
        /\ at[c] \in Tracked => c \in fg
        /\ at[c] = "launch" => status[c] = "running"

(* Nothing runs of a command whose row is closed, unless it was closed as  *)
(* stopped on a SIGTERM that its processes outlive.                        *)
ClosedGone == \A c \in Cmd : status[c] \in Terminal /\ Alive(c) => status[c] = "stopped"

(* A command that left the foreground without a row is over, or a Stop is  *)
(* killing it.                                                             *)
LeftFg ==
    /\ \A c \in fgStopped : Killed(c)
    /\ \A c \in Cmd : at[c] = "untrack" \/ (at[c] = "done" /\ status[c] = "none") => Killed(c)

(* A row has its waiter once the tool call has returned. *)
WaitsAfter == \A c \in Cmd : waiter[c] # "none" => at[c] = "done"

(* What was reported back is what the waiter found. *)
Reports ==
    /\ \A c \in Cmd : waiter[c] = "reporting" /\ status[c] = "stopped" => why[c] # "exit"
    /\ \A c \in woke : status[c] \in Terminal /\ waiter[c] = "none" /\ at[c] = "done"
    /\ StoppedWakesNobody

FirstLife ==
    crashes = 0 =>
        /\ NeverDied /\ Seen /\ ClosedGone /\ LeftFg /\ WaitsAfter /\ Reports

(* Every step of the first life keeps it. *)
LEMMA FirstLifeKept ==
    TypeOK /\ Marks /\ Watched /\ Groups /\ FirstLife /\ [Next]_vars => FirstLife'
<1> SUFFICES ASSUME TypeOK, Marks, Watched, Groups, FirstLife, [Next]_vars PROVE FirstLife'
  OBVIOUS
<1> USE NoCmdIsNoCmd, CrashesFinite
<1> USE DEF TypeOK, Marks, FgPlaced, RowlessBefore, HandsUnclaimed, NoStaleMarks, ClaimMarked,
            Watched, ReportsClosed, Groups, Unborn, Born, RowMade, OverGone, FirstLife,
            NeverDied, Seen, ClosedGone, LeftFg, WaitsAfter, Reports,
            StoppedWakesNobody, Killed, ClaimedByStop, Wakes, Tracked,
            Handing, Terminal, Alive, GroupRunning, threadVars, rowVars, waitVars, stopVars,
            serverVars, Go, TellEnd, CreateTask, FinishTask, Finished, Thread
<1>1. CASE UNCHANGED vars
  BY <1>1 DEF vars
<1>2. ASSUME NEW c \in Cmd, LeaderExits(c) \/ GroupExits(c) PROVE FirstLife'
  <2>1. CASE LeaderExits(c)
    BY <2>1 DEF LeaderExits
  <2>2. CASE GroupExits(c)
    BY <2>2 DEF GroupExits
  <2> QED
    BY <1>2, <2>1, <2>2
<1>3. ASSUME NEW c \in Cmd, RunForeground(c) \/ StartBackground(c) \/ StopRow(c) PROVE FirstLife'
  <2>1. CASE RunForeground(c)
    BY <2>1 DEF RunForeground
  <2>2. CASE StartBackground(c)
    BY <2>2 DEF StartBackground
  <2>3. CASE StopRow(c)
    BY <2>3 DEF StopRow
  <2> QED
    BY <1>3, <2>1, <2>2, <2>3
<1>4. ASSUME NEW c \in Cmd, ToolStep(c) PROVE FirstLife'
  <2>1. CASE Track(c)
    BY <2>1 DEF Track
  <2>2. CASE LeaderSeen(c)
    BY <2>2 DEF LeaderSeen
  <2>3. CASE BudgetOut(c)
    BY <2>3 DEF BudgetOut
  <2>4. CASE LingerEnds(c)
    BY <2>4 DEF LingerEnds
  <2>5. CASE HandOff(c)
    BY <2>5 DEF HandOff
  <2>6. CASE Untrack(c)
    BY <2>6 DEF Untrack
  <2>7. CASE Spawn(c)
    BY <2>7 DEF Spawn
  <2>8. CASE SpawnFails(c)
    BY <2>8 DEF SpawnFails
  <2>9. CASE AttachPid(c)
    BY <2>9 DEF AttachPid
  <2>10. CASE Announce(c)
    BY <2>10 DEF Announce
  <2>11. CASE Adopt(c)
    BY <2>11 DEF Adopt
  <2>12. CASE OpenFails(c)
    BY <2>12 DEF OpenFails
  <2> QED
    BY <1>4, <2>1, <2>2, <2>3, <2>4, <2>5, <2>6, <2>7, <2>8, <2>9, <2>10, <2>11, <2>12
    DEF ToolStep
<1>5. ASSUME NEW c \in Cmd, WaiterStep(c) PROVE FirstLife'
  <2>1. CASE WaitLeader(c)
    BY <2>1 DEF WaitLeader
  <2>2. CASE WaitGroup(c)
    BY <2>2 DEF WaitGroup
  <2>3. CASE Cap(c)
    BY <2>3 DEF Cap
  <2>4. CASE Forget(c)
    BY <2>4 DEF Forget
  <2>5. CASE Close(c)
    BY <2>5 DEF Close
  <2>6. CASE ReportBack(c)
    BY <2>6 DEF ReportBack
  <2>7. CASE AdoptedEnds(c)
    BY <2>7 DEF AdoptedEnds
  <2> QED
    BY <1>5, <2>1, <2>2, <2>3, <2>4, <2>5, <2>6, <2>7 DEF WaiterStep
<1>6. ASSUME NEW c \in Cmd, StopStep(c) PROVE FirstLife'
  <2>1. CASE StopTask(c)
    BY <2>1 DEF StopTask
  <2>2. CASE Kill(c)
    BY <2>2 DEF Kill
  <2>3. CASE CloseTermed(c)
    BY <2>3 DEF CloseTermed
  <2> QED
    BY <1>6, <2>1, <2>2, <2>3 DEF StopStep
<1>7. CASE StopTurn
  BY <1>7 DEF StopTurn
<1>8. CASE Crash
  BY <1>8 DEF Crash
<1>9. CASE Boot
  BY <1>9 DEF Boot, Reconciled, Adoptable
<1> QED
  BY <1>1, <1>2, <1>3, <1>4, <1>5, <1>6, <1>7, <1>8, <1>9 DEF Next

(* So the first life is as it should be. *)
LEMMA FirstLifeHolds == Spec => []FirstLife
<1>1. Init => FirstLife
  BY DEF Init, FirstLife, NeverDied, Seen, ClosedGone, LeftFg, WaitsAfter, Reports,
         StoppedWakesNobody, Killed, Alive, Terminal, Tracked
<1> QED
  BY <1>1, TypeCorrect, MarksHold, WatchedHolds, GroupsHold, FirstLifeKept, PTL DEF Spec

(* Until the server dies, a command that runs is visible to Stop as        *)
(* exactly one of a foreground command and a running row, unless a Stop is *)
(* killing it or has closed its row on a SIGTERM.                          *)
THEOREM HeldOnce == Spec => [](crashes = 0 => OneHolder)
<1>1. TypeOK /\ Marks /\ Groups /\ FirstLife => (crashes = 0 => OneHolder)
  <2> SUFFICES ASSUME TypeOK, Marks, Groups, FirstLife, crashes = 0, fgLock = NoCmd,
                      NEW c \in Cmd, Alive(c), at[c] # "spawned", c \notin kills, status[c] # "stopped"
               PROVE  (c \in fg) # (status[c] = "running")
    BY DEF OneHolder
  <2>1. at[c] \notin {"none", "launch", "unopened"}
    BY DEF Groups, Unborn, Alive
  <2>2. at[c] \in Tracked => c \in fg /\ status[c] = "none"
    BY DEF FirstLife, Seen, Marks, RowlessBefore
  <2>3. status[c] \notin Terminal
    BY DEF FirstLife, ClosedGone
  <2>4. at[c] \in {"born"} \cup Handing => c \notin fg /\ status[c] = "running"
    BY <2>3, NoCmdIsNoCmd DEF Marks, FgPlaced, LockedHandOff, Groups, RowMade, TypeOK, Tracked,
                              Handing
  <2>5. at[c] = "done" => c \notin fg /\ status[c] = "running"
    BY <2>3 DEF FirstLife, LeftFg, Killed, Marks, FgPlaced, TypeOK, Tracked, Handing
  <2> QED
    BY <2>1, <2>2, <2>4, <2>5 DEF TypeOK, Where, Tracked
<1> QED
  BY <1>1, TypeCorrect, MarksHold, GroupsHold, FirstLifeHolds, PTL

(* Until the server dies, a command that the user stopped wakes nobody. *)
THEOREM StoppedIsSilent == Spec => [](crashes = 0 => StoppedWakesNobody)
<1>1. FirstLife => (crashes = 0 => StoppedWakesNobody)
  BY DEF FirstLife, Reports
<1> QED
  BY <1>1, FirstLifeHolds, PTL
-----------------------------------------------------------------------------
(* A row that holds its command's pid is closed on a group that is gone,   *)
(* unless the server has died before or a Stop sent SIGTERM to that pid.   *)
LEMMA ClosedOnGone ==
    TypeOK /\ Marks /\ Groups /\ FirstLife /\ [Next]_vars =>
        \A d \in Cmd \ terms :
            crashes' = 0 /\ hasPid[d] /\ status[d] = "running" /\ status'[d] \in Terminal =>
                group'[d] = "gone"
<1> SUFFICES ASSUME TypeOK, Marks, Groups, FirstLife, [Next]_vars,
                    NEW d \in Cmd \ terms, crashes' = 0, hasPid[d], status[d] = "running",
                    status'[d] \in Terminal
             PROVE  group'[d] = "gone"
  OBVIOUS
<1> USE NoCmdIsNoCmd, CrashesFinite
<1> USE DEF TypeOK, Marks, RowlessBefore, Groups, Unborn, Born, OverGone, FirstLife,
            NeverDied, Tracked,
            Handing, Terminal, Alive, GroupRunning, threadVars, rowVars, waitVars, stopVars,
            serverVars, Go, TellEnd, CreateTask, FinishTask, Finished, Thread
<1>1. CASE UNCHANGED vars
  BY <1>1 DEF vars
<1>2. ASSUME NEW c \in Cmd, LeaderExits(c) \/ GroupExits(c) PROVE group'[d] = "gone"
  <2>1. CASE LeaderExits(c)
    BY <2>1 DEF LeaderExits
  <2>2. CASE GroupExits(c)
    BY <2>2 DEF GroupExits
  <2> QED
    BY <1>2, <2>1, <2>2
<1>3. ASSUME NEW c \in Cmd, RunForeground(c) \/ StartBackground(c) \/ StopRow(c) PROVE group'[d] = "gone"
  <2>1. CASE RunForeground(c)
    BY <2>1 DEF RunForeground
  <2>2. CASE StartBackground(c)
    BY <2>2 DEF StartBackground
  <2>3. CASE StopRow(c)
    BY <2>3 DEF StopRow
  <2> QED
    BY <1>3, <2>1, <2>2, <2>3
<1>4. ASSUME NEW c \in Cmd, ToolStep(c) PROVE group'[d] = "gone"
  <2>1. CASE Track(c)
    BY <2>1 DEF Track
  <2>2. CASE LeaderSeen(c)
    BY <2>2 DEF LeaderSeen
  <2>3. CASE BudgetOut(c)
    BY <2>3 DEF BudgetOut
  <2>4. CASE LingerEnds(c)
    BY <2>4 DEF LingerEnds
  <2>5. CASE HandOff(c)
    BY <2>5 DEF HandOff
  <2>6. CASE Untrack(c)
    BY <2>6 DEF Untrack
  <2>7. CASE Spawn(c)
    BY <2>7 DEF Spawn
  <2>8. CASE SpawnFails(c)
    BY <2>8 DEF SpawnFails
  <2>9. CASE AttachPid(c)
    BY <2>9 DEF AttachPid
  <2>10. CASE Announce(c)
    BY <2>10 DEF Announce
  <2>11. CASE Adopt(c)
    BY <2>11 DEF Adopt
  <2>12. CASE OpenFails(c)
    BY <2>12 DEF OpenFails
  <2> QED
    BY <1>4, <2>1, <2>2, <2>3, <2>4, <2>5, <2>6, <2>7, <2>8, <2>9, <2>10, <2>11, <2>12
    DEF ToolStep
<1>5. ASSUME NEW c \in Cmd, WaiterStep(c) PROVE group'[d] = "gone"
  <2>1. CASE WaitLeader(c)
    BY <2>1 DEF WaitLeader
  <2>2. CASE WaitGroup(c)
    BY <2>2 DEF WaitGroup
  <2>3. CASE Cap(c)
    BY <2>3 DEF Cap
  <2>4. CASE Forget(c)
    BY <2>4 DEF Forget
  <2>5. CASE Close(c)
    BY <2>5 DEF Close
  <2>6. CASE ReportBack(c)
    BY <2>6 DEF ReportBack
  <2>7. CASE AdoptedEnds(c)
    BY <2>7 DEF AdoptedEnds
  <2> QED
    BY <1>5, <2>1, <2>2, <2>3, <2>4, <2>5, <2>6, <2>7 DEF WaiterStep
<1>6. ASSUME NEW c \in Cmd, StopStep(c) PROVE group'[d] = "gone"
  <2>1. CASE StopTask(c)
    BY <2>1 DEF StopTask
  <2>2. CASE Kill(c)
    BY <2>2 DEF Kill
  <2>3. CASE CloseTermed(c)
    BY <2>3 DEF CloseTermed
  <2> QED
    BY <1>6, <2>1, <2>2, <2>3 DEF StopStep
<1>7. CASE StopTurn
  BY <1>7 DEF StopTurn
<1>8. CASE Crash
  BY <1>8 DEF Crash
<1>9. CASE Boot
  BY <1>9 DEF Boot, Reconciled, Adoptable
<1> QED
  BY <1>1, <1>2, <1>3, <1>4, <1>5, <1>6, <1>7, <1>8, <1>9 DEF Next

(* In a server that is not restarted, the row of a command stays running   *)
(* until its whole group is gone, unless a Stop sent SIGTERM to its pid.   *)
THEOREM RowOutlivesGroup ==
    ASSUME MaxCrashes = 0
    PROVE  Spec => RunsUntilGroupGone
<1>1. TypeOK /\ TypeOK' /\ Marks /\ Groups /\ FirstLife /\ [Next]_vars =>
        [\A c \in Cmd : hasPid[c] /\ status[c] = "running" /\ status'[c] \in Terminal =>
             group'[c] = "gone" \/ c \in terms]_vars
  <2>1. TypeOK' => crashes' = 0
    BY DEF TypeOK
  <2> QED
    BY <2>1, ClosedOnGone
<1> QED
  BY <1>1, TypeCorrect, MarksHold, GroupsHold, FirstLifeHolds, PTL DEF Spec, RunsUntilGroupGone
=============================================================================
