----------------------------- MODULE ShellTasks -----------------------------
(***************************************************************************)
(* The shell commands of one session: run in the foreground with a budget  *)
(* and handed off to the background when they outlive it                   *)
(* (server/tasks/handoff.py), or started in the background                 *)
(* (server/tasks/shell.py); their rows in the task registry                *)
(* (server/tasks/registry.py); Stop of a turn and of one row; and a server *)
(* that dies and boots again while the commands run on.                    *)
(*                                                                         *)
(* Actors: one worker thread per command (its tool call), one waiter       *)
(* thread per row, the threads of a Stop, and the process group itself.    *)
(***************************************************************************)
EXTENDS Naturals

CONSTANTS Cmd,         \* commands, each run once
          NoCmd,
          Mine,        \* those a Stop of the turn matches: no owner, started
                       \* at or after the turn
          MaxCrashes   \* how often the server may die

ASSUME NoCmdIsNoCmd == NoCmd \notin Cmd
ASSUME Matched == Mine \subseteq Cmd
ASSUME CrashesFinite == MaxCrashes \in Nat

VARIABLES at,        \* where the worker thread of each command is
          group,     \* the command's process group
          fg,        \* _foreground[session]: tracked commands
          fgStopped, \* _fg_stopped
          fgLock,    \* who holds _fg_lock over a hand-off
          status,    \* the status of the command's row, "none" without a row
          hasPid,    \* the row holds the leader's pid
          left,      \* rows that track work a finished command left running
          procs,     \* _procs (and _profiles)
          stopped,   \* _stopped
          waiter,    \* where the row's waiter thread is
          why,       \* what the waiter found: "exit", "cap" or "request"
          calls,     \* commands whose stop_task is about to run
          kills,     \* commands whose kill_process_group is running
          terms,     \* rows stop_task sent SIGTERM by pid and has not closed
          up,        \* the server runs
          crashes,
          endings,   \* history variable: end events sent about the command
          woke,      \* history variable: its result went back to its chat
          claim      \* history variable: what the last Stop got hold of

threadVars == <<at, fg, fgStopped, fgLock>>
rowVars == <<status, hasPid, left>>
waitVars == <<procs, stopped, waiter, why>>
stopVars == <<calls, kills, terms, claim>>
serverVars == <<up, crashes>>
vars == <<threadVars, group, rowVars, waitVars, stopVars, serverVars, endings, woke>>

(***************************************************************************)
(* A foreground command's thread is "spawned", "waiting" on its budget,    *)
(* "expired" when the budget ran out, "linger"ing when the leader exited,  *)
(* "leftover" when its group did not empty in time.  A hand-off goes       *)
(* through "enrolled", "known" and "announced"; a background start through *)
(* "launch" and "born" to the same two, or ends "unopened".  A hand-off    *)
(* that found the command claimed by a Stop goes on "claimed".             *)
(***************************************************************************)
Handing == {"enrolled", "known", "announced"}
Where == {"none", "spawned", "waiting", "expired", "claimed", "linger", "leftover",
          "untrack", "launch", "unopened", "born", "done"} \cup Handing

Terminal == {"completed", "failed", "stopped", "interrupted"}

(* Something of the command runs. *)
Alive(c) == group[c] \in {"leader", "left"}

(* Slip: a leader that exited is taken for the whole group. *)
LeaderRunning(c) == group[c] = "leader"

(* process_utils.group_running. *)
GroupRunning(c) == Alive(c)

Go(c, place) == at' = [at EXCEPT ![c] = place]

TellEnd(c) == endings' = [endings EXCEPT ![c] = @ + 1]

Init ==
    /\ at = [c \in Cmd |-> "none"]
    /\ group = [c \in Cmd |-> "none"]
    /\ fg = {} /\ fgStopped = {} /\ fgLock = NoCmd
    /\ status = [c \in Cmd |-> "none"]
    /\ hasPid = [c \in Cmd |-> FALSE]
    /\ left = {}
    /\ procs = {} /\ stopped = {}
    /\ waiter = [c \in Cmd |-> "none"]
    /\ why = [c \in Cmd |-> "exit"]
    /\ calls = {} /\ kills = {} /\ terms = {}
    /\ up = TRUE /\ crashes = 0
    /\ endings = [c \in Cmd |-> 0]
    /\ woke = {}
    /\ claim = [c \in Cmd |-> "no"]

-----------------------------------------------------------------------------
(* The process group: the leader exits, with or without work left behind,  *)
(* when it likes.  A SIGTERM that it handles changes nothing here.         *)

LeaderExits(c) ==
    /\ group[c] = "leader"
    /\ \E rest \in {"left", "gone"} : group' = [group EXCEPT ![c] = rest]
    /\ UNCHANGED <<threadVars, rowVars, waitVars, stopVars, serverVars, endings, woke>>

GroupExits(c) ==
    /\ group[c] = "left"
    /\ group' = [group EXCEPT ![c] = "gone"]
    /\ UNCHANGED <<threadVars, rowVars, waitVars, stopVars, serverVars, endings, woke>>

-----------------------------------------------------------------------------
(* The registry (server/tasks/registry.py).                                *)

CreateTask(c) == status' = [status EXCEPT ![c] = "running"]

(* Slip: a row takes the last status it is given. *)
FinishAnyway(c, s) == status' = [status EXCEPT ![c] = s]

(* Slip: the reason is stored as the status. *)
FinishWithReason(c, s) ==
    status' = [status EXCEPT ![c] = IF @ = "running" THEN why[c] ELSE @]

(* finish_task: only a row still running takes a terminal status ... *)
FinishTask(c, s) ==
    status' = [status EXCEPT ![c] = IF @ = "running" THEN s ELSE @]

(* Slip: a row that was closed before is returned too. *)
FinishedAnyway(c) == TRUE

(* ... and only then is the row returned, for the event. *)
Finished(c) == status[c] = "running"

-----------------------------------------------------------------------------
(* run_with_handoff.                                                       *)

(* A move of c's thread that touches nothing else. *)
Thread(c, from, to) ==
    /\ at[c] = from /\ Go(c, to)
    /\ UNCHANGED <<group, fg, fgStopped, fgLock, rowVars, waitVars, stopVars, serverVars,
                   endings, woke>>

RunForeground(c) ==
    /\ up /\ at[c] = "none"
    /\ Go(c, "spawned")
    /\ group' = [group EXCEPT ![c] = "leader"]
    /\ UNCHANGED <<fg, fgStopped, fgLock, rowVars, waitVars, stopVars, serverVars, endings, woke>>

Track(c) ==
    /\ at[c] = "spawned" /\ fgLock = NoCmd
    /\ Go(c, "waiting")
    /\ fg' = fg \cup {c}
    /\ UNCHANGED <<group, fgStopped, fgLock, rowVars, waitVars, stopVars, serverVars, endings, woke>>

(* proc.wait returns, within the budget or after a Stop. *)
LeaderSeen(c) ==
    group[c] # "leader" /\ \E from \in {"waiting", "claimed"} : Thread(c, from, "linger")

(* Slip: the wait has no timeout. *)
NoBudget(c) == FALSE

BudgetOut(c) == group[c] = "leader" /\ Thread(c, "waiting", "expired")

(* Slip: a command that returned is over, whatever its group does. *)
LingerForgets(c) == Thread(c, "linger", "untrack")

LingerEnds(c) ==
    \/ group[c] = "gone" /\ Thread(c, "linger", "untrack")
    \/ group[c] = "left" /\ Thread(c, "linger", "leftover")

(* Slip: the marks of Stop are not read. *)
NeverClaimed(c) == FALSE

ClaimedByStop(c) == c \in fgStopped

(* _hand_off, under _fg_lock: refused when a Stop claimed the command,     *)
(* else the row is made.                                                   *)
HandOff(c) ==
    /\ at[c] \in {"expired", "leftover"} /\ fgLock = NoCmd
    /\ IF ClaimedByStop(c)
       THEN /\ Go(c, IF at[c] = "expired" THEN "claimed" ELSE "untrack")
            /\ UNCHANGED <<fgLock, rowVars>>
       ELSE /\ Go(c, "enrolled")
            /\ fgLock' = c
            /\ CreateTask(c)
            /\ left' = IF at[c] = "leftover" THEN left \cup {c} ELSE left
            /\ UNCHANGED hasPid
    /\ UNCHANGED <<group, fg, fgStopped, waitVars, stopVars, serverVars, endings, woke>>

(* The finally block: _untrack. *)
Untrack(c) ==
    /\ at[c] = "untrack" /\ fgLock = NoCmd
    /\ Go(c, "done")
    /\ fg' = fg \ {c}
    /\ fgStopped' = fgStopped \ {c}
    /\ UNCHANGED <<group, fgLock, rowVars, waitVars, stopVars, serverVars, endings, woke>>

-----------------------------------------------------------------------------
(* start_shell_task: the row first, then the process.                      *)

StartBackground(c) ==
    /\ up /\ at[c] = "none"
    /\ Go(c, "launch")
    /\ CreateTask(c)
    /\ UNCHANGED <<group, fg, fgStopped, fgLock, hasPid, left, waitVars, stopVars, serverVars,
                   endings, woke>>

(* open(out_path) raised, before the try: the row stays as it is. *)
OpenFails(c) == Thread(c, "launch", "unopened")

Spawn(c) ==
    /\ at[c] = "launch"
    /\ Go(c, "born")
    /\ group' = [group EXCEPT ![c] = "leader"]
    /\ UNCHANGED <<fg, fgStopped, fgLock, rowVars, waitVars, stopVars, serverVars, endings, woke>>

(* popen_sandboxed raised. *)
SpawnFails(c) ==
    /\ at[c] = "launch"
    /\ Go(c, "done")
    /\ FinishTask(c, "failed")
    /\ IF Finished(c) THEN TellEnd(c) ELSE UNCHANGED endings
    /\ UNCHANGED <<group, fg, fgStopped, fgLock, hasPid, left, waitVars, stopVars, serverVars,
                   woke>>

(* The tail of both: attach_pid, the started event, adopt_running_process. *)
AttachPid(c) ==
    /\ at[c] \in {"enrolled", "born"}
    /\ Go(c, "known")
    /\ hasPid' = [hasPid EXCEPT ![c] = TRUE]
    /\ UNCHANGED <<group, fg, fgStopped, fgLock, status, left, waitVars, stopVars, serverVars,
                   endings, woke>>

Announce(c) == Thread(c, "known", "announced")

(* A hand-off untracks the command before it lets go of _fg_lock. *)
Adopt(c) ==
    /\ at[c] = "announced"
    /\ Go(c, "done")
    /\ procs' = procs \cup {c}
    /\ waiter' = [waiter EXCEPT ![c] = "leader"]
    /\ fg' = fg \ {c}
    /\ fgLock' = IF fgLock = c THEN NoCmd ELSE fgLock
    /\ UNCHANGED <<group, fgStopped, rowVars, stopped, why, stopVars, serverVars, endings, woke>>

-----------------------------------------------------------------------------
(* _waiter, the thread of one row.                                         *)

WaitLeader(c) ==
    /\ waiter[c] = "leader" /\ group[c] # "leader"
    /\ waiter' = [waiter EXCEPT ![c] = "group"]
    /\ UNCHANGED <<threadVars, group, rowVars, procs, stopped, why, stopVars, serverVars,
                   endings, woke>>

(* Slip: the leader's exit ends the task. *)
WaitLeaderOnly(c) ==
    /\ waiter[c] = "group"
    /\ waiter' = [waiter EXCEPT ![c] = "over"]
    /\ UNCHANGED <<threadVars, group, rowVars, procs, stopped, why, stopVars, serverVars,
                   endings, woke>>

WaitGroup(c) ==
    /\ waiter[c] = "group" /\ ~GroupRunning(c)
    /\ waiter' = [waiter EXCEPT ![c] = "over"]
    /\ UNCHANGED <<threadVars, group, rowVars, procs, stopped, why, stopVars, serverVars,
                   endings, woke>>

(* Slip: a command may run for as long as it likes. *)
NoCap(c) == FALSE

(* The runtime cap: the group is killed. *)
Cap(c) ==
    /\ waiter[c] \in {"leader", "group"} /\ GroupRunning(c)
    /\ waiter' = [waiter EXCEPT ![c] = "over"]
    /\ why' = [why EXCEPT ![c] = "cap"]
    /\ group' = [group EXCEPT ![c] = "gone"]
    /\ UNCHANGED <<threadVars, rowVars, procs, stopped, stopVars, serverVars, endings, woke>>

(* Slip: the mark of a stop stays. *)
ForgetKeepsMark(c) ==
    /\ waiter[c] = "over"
    /\ waiter' = [waiter EXCEPT ![c] = "closing"]
    /\ why' = [why EXCEPT ![c] = IF @ = "exit" /\ c \in stopped THEN "request" ELSE @]
    /\ procs' = procs \ {c}
    /\ UNCHANGED <<threadVars, group, rowVars, stopped, stopVars, serverVars, endings, woke>>

(* Under _lock: was the row stopped, and forget it. *)
Forget(c) ==
    /\ waiter[c] = "over"
    /\ waiter' = [waiter EXCEPT ![c] = "closing"]
    /\ why' = [why EXCEPT ![c] = IF @ = "exit" /\ c \in stopped THEN "request" ELSE @]
    /\ stopped' = stopped \ {c}
    /\ procs' = procs \ {c}
    /\ UNCHANGED <<threadVars, group, rowVars, stopVars, serverVars, endings, woke>>

Close(c) ==
    /\ waiter[c] = "closing"
    /\ \E s \in IF why[c] = "exit" THEN {"completed", "failed"} ELSE {"stopped"} :
          FinishTask(c, s)
    /\ waiter' = [waiter EXCEPT ![c] = IF Finished(c) THEN "reporting" ELSE "none"]
    /\ UNCHANGED <<threadVars, group, hasPid, left, procs, stopped, why, stopVars, serverVars,
                   endings, woke>>

(* Slip: a command that was stopped reports like one that finished. *)
WakesAlways(c) == c \notin left

(* A command that was stopped on request wakes nobody, and neither does    *)
(* work that was left running.                                             *)
Wakes(c) == why[c] # "request" /\ c \notin left

(* The end event, and _report_back. *)
ReportBack(c) ==
    /\ waiter[c] = "reporting"
    /\ waiter' = [waiter EXCEPT ![c] = "none"]
    /\ TellEnd(c)
    /\ woke' = IF Wakes(c) THEN woke \cup {c} ELSE woke
    /\ UNCHANGED <<threadVars, group, rowVars, procs, stopped, why, stopVars, serverVars>>

-----------------------------------------------------------------------------
(* Stop.                                                                   *)

(* _stop_matching, under _fg_lock, for the turn's own commands: foreground *)
(* groups are claimed and killed, running rows go through stop_task.       *)
StopTurn ==
    /\ up /\ fgLock = NoCmd
    /\ LET claimed == {c \in fg \cap Mine : GroupRunning(c)}
           listed == {c \in Mine : status[c] = "running"}
       IN /\ claimed \cup listed # {}
          /\ fgStopped' = fgStopped \cup claimed
          /\ kills' = kills \cup claimed
          /\ calls' = calls \cup listed
          /\ claim' = [c \in Cmd |-> IF c \in claimed THEN "group" ELSE claim[c]]
    /\ UNCHANGED <<at, fg, fgLock, group, rowVars, waitVars, terms, serverVars, endings, woke>>

(* The task panel or task_cancel: one running row. *)
StopRow(c) ==
    /\ up /\ status[c] = "running"
    /\ calls' = calls \cup {c}
    /\ UNCHANGED <<threadVars, group, rowVars, waitVars, kills, terms, claim, serverVars,
                   endings, woke>>

(* stop_task: by the live handle under _lock, else one SIGTERM to the      *)
(* row's pid, which nobody waits for.                                      *)
StopTask(c) ==
    /\ c \in calls
    /\ calls' = calls \ {c}
    /\ IF c \in procs
       THEN /\ claim' = [claim EXCEPT ![c] = "handle"]
            /\ IF GroupRunning(c)
               THEN stopped' = stopped \cup {c} /\ kills' = kills \cup {c}
               ELSE UNCHANGED <<stopped, kills>>
            /\ UNCHANGED terms
       ELSE /\ IF status[c] = "running" /\ hasPid[c] /\ Alive(c)
               THEN claim' = [claim EXCEPT ![c] = "pid"] /\ terms' = terms \cup {c}
               ELSE UNCHANGED <<claim, terms>>
            /\ UNCHANGED <<stopped, kills>>
    /\ UNCHANGED <<threadVars, group, rowVars, procs, waiter, why, serverVars, endings, woke>>

(* kill_process_group: SIGTERM, then SIGKILL for what is left. *)
Kill(c) ==
    /\ c \in kills
    /\ kills' = kills \ {c}
    /\ group' = [group EXCEPT ![c] = "gone"]
    /\ UNCHANGED <<threadVars, rowVars, waitVars, calls, terms, claim, serverVars, endings, woke>>

(* The row of a group that was sent SIGTERM by its pid, gone or not. *)
CloseTermed(c) ==
    /\ c \in terms
    /\ terms' = terms \ {c}
    /\ FinishTask(c, "stopped")
    /\ IF Finished(c) THEN TellEnd(c) ELSE UNCHANGED endings
    /\ UNCHANGED <<threadVars, group, hasPid, left, waitVars, calls, kills, claim, serverVars,
                   woke>>

-----------------------------------------------------------------------------
(* A restart.  Everything in memory is lost; the process groups run on.    *)

Crash ==
    /\ up /\ crashes < MaxCrashes
    /\ up' = FALSE /\ crashes' = crashes + 1
    /\ at' = [c \in Cmd |-> IF at[c] = "none" THEN "none" ELSE "done"]
    /\ fg' = {} /\ fgStopped' = {} /\ fgLock' = NoCmd
    /\ procs' = {} /\ stopped' = {}
    /\ waiter' = [c \in Cmd |-> "none"]
    /\ why' = [c \in Cmd |-> "exit"]
    /\ calls' = {} /\ kills' = {} /\ terms' = {}
    /\ claim' = [c \in Cmd |-> "no"]
    /\ UNCHANGED <<group, rowVars, endings, woke>>

(* _adoptable: the leader's pid answers. *)
Adoptable(c) == hasPid[c] /\ group[c] = "leader"

(* Slip: a row without a pid is passed over. *)
ReconciledByPid(c) ==
    IF status[c] = "running" /\ hasPid[c] /\ ~Adoptable(c) THEN "interrupted" ELSE status[c]

Reconciled(c) ==
    IF status[c] = "running" /\ ~Adoptable(c) THEN "interrupted" ELSE status[c]

(* reconcile_on_boot. *)
Boot ==
    /\ ~up /\ up' = TRUE
    /\ waiter' = [c \in Cmd |-> IF status[c] = "running" /\ Adoptable(c)
                                THEN "adopted" ELSE waiter[c]]
    /\ status' = [c \in Cmd |-> Reconciled(c)]
    /\ UNCHANGED <<threadVars, group, hasPid, left, procs, stopped, why, stopVars, crashes,
                   endings, woke>>

(* _watch_adopted. *)
AdoptedEnds(c) ==
    /\ waiter[c] = "adopted" /\ group[c] # "leader"
    /\ waiter' = [waiter EXCEPT ![c] = "none"]
    /\ FinishTask(c, "completed")
    /\ IF Finished(c) THEN TellEnd(c) ELSE UNCHANGED endings
    /\ UNCHANGED <<threadVars, group, hasPid, left, procs, stopped, why, stopVars, serverVars,
                   woke>>

-----------------------------------------------------------------------------
ToolStep(c) ==
    \/ Track(c) \/ LeaderSeen(c) \/ BudgetOut(c) \/ LingerEnds(c) \/ HandOff(c) \/ Untrack(c)
    \/ OpenFails(c) \/ Spawn(c) \/ SpawnFails(c) \/ AttachPid(c) \/ Announce(c)
    \/ Adopt(c)

WaiterStep(c) ==
    \/ WaitLeader(c) \/ WaitGroup(c) \/ Cap(c) \/ Forget(c) \/ Close(c) \/ ReportBack(c)
    \/ AdoptedEnds(c)

StopStep(c) == StopTask(c) \/ Kill(c) \/ CloseTermed(c)

Next ==
    \/ \E c \in Cmd :
          \/ LeaderExits(c) \/ GroupExits(c)
          \/ RunForeground(c) \/ StartBackground(c) \/ StopRow(c)
          \/ ToolStep(c) \/ WaiterStep(c) \/ StopStep(c)
    \/ StopTurn
    \/ Crash \/ Boot

(* Every thread runs on, and a thread that waits for _fg_lock gets it.     *)
(* Processes need not exit: the budget and the runtime cap are timers of   *)
(* the threads.  The app is started again after it died.                   *)
Fairness ==
    /\ \A c \in Cmd : WF_vars(ToolStep(c)) /\ WF_vars(WaiterStep(c)) /\ WF_vars(StopStep(c))
    /\ WF_vars(Boot)

Spec == Init /\ [][Next]_vars /\ Fairness

-----------------------------------------------------------------------------
(* Properties.                                                             *)

(* Every variable holds a value of its kind. *)
TypeOK ==
    /\ at \in [Cmd -> Where]
    /\ group \in [Cmd -> {"none", "leader", "left", "gone"}]
    /\ fg \subseteq Cmd /\ fgStopped \subseteq Cmd /\ fgLock \in Cmd \cup {NoCmd}
    /\ status \in [Cmd -> {"none", "running"} \cup Terminal]
    /\ hasPid \in [Cmd -> BOOLEAN] /\ left \subseteq Cmd
    /\ procs \subseteq Cmd /\ stopped \subseteq Cmd
    /\ waiter \in [Cmd -> {"none", "leader", "group", "over", "closing", "reporting", "adopted"}]
    /\ why \in [Cmd -> {"exit", "cap", "request"}]
    /\ calls \subseteq Cmd /\ kills \subseteq Cmd /\ terms \subseteq Cmd
    /\ up \in BOOLEAN /\ crashes \in 0..MaxCrashes
    /\ endings \in [Cmd -> Nat]
    /\ woke \subseteq Cmd
    /\ claim \in [Cmd -> {"no", "group", "handle", "pid"}]

(* A command that runs is visible to Stop as exactly one of a foreground   *)
(* command and a running row (handoff.py, at _fg_lock), from when it is    *)
(* tracked until a Stop is killing it, or has closed its row on a SIGTERM  *)
(* that it may outlive.                                                    *)
OneHolder ==
    fgLock = NoCmd =>
        \A c \in Cmd :
            Alive(c) /\ at[c] # "spawned" /\ c \notin kills /\ status[c] # "stopped" =>
                (c \in fg) # (status[c] = "running")

(* A command that a Stop claimed in the foreground never becomes a row     *)
(* (handoff.py, at _fg_stopped).                                           *)
ClaimedStaysInline == \A c \in Cmd : claim[c] = "group" => status[c] = "none"

(* When a Stop is done with a command that it got hold of in the           *)
(* foreground or by the live handle of its row, nothing of the command     *)
(* runs any more.  A Stop by the pid of a row only asks (shell.py,         *)
(* stop_task), and one that finds no pid reaches nothing.                  *)
StopReaches ==
    \A c \in Cmd : claim[c] \in {"group", "handle"} /\ c \notin kills => ~Alive(c)

(* Stop marks die with what they mark: a mark that outlived its command    *)
(* would turn a later one's result into a stop.                            *)
NoStaleMarks == stopped \subseteq procs /\ fgStopped \subseteq fg

(* A row that runs has a thread that will close it, so that it is never    *)
(* stranded as running, but for one: a background start that cannot open   *)
(* its output file leaves its row to the next restart.                     *)
RowHasWatcher ==
    \A c \in Cmd : status[c] = "running" /\ up =>
        waiter[c] # "none" \/ at[c] \in {"launch", "unopened", "born"} \cup Handing

(* A command that the user stopped does not wake its chat: its row is not  *)
(* a finish that was reported back, unless the cap had killed it.          *)
StoppedWakesNobody ==
    \A c \in woke : status[c] = "stopped" => why[c] = "cap"

(* A row gets one terminal status, and a stop racing a natural exit does   *)
(* not change it.                                                          *)
OneVerdict ==
    [][\A c \in Cmd : status[c] \in Terminal => status'[c] = status[c]]_vars

(* The end of a command is announced once, whoever closes its row. *)
OneEnding == \A c \in Cmd : endings[c] <= 1

(* The row of a command stays running until its whole group is gone, so    *)
(* Stop, task_cancel and the cap reach what is left (shell.py, _waiter),   *)
(* unless a Stop has sent a SIGTERM to its pid.                            *)
RunsUntilGroupGone ==
    [][\A c \in Cmd : hasPid[c] /\ status[c] = "running" /\ status'[c] \in Terminal =>
          group'[c] = "gone" \/ c \in terms]_vars

(* The tool call of a command returns or raises, whatever the command does. *)
ToolReturns == \A c \in Cmd : at[c] # "none" ~> at[c] \in {"done", "unopened"}

(* A row is closed some day, unless a restart has left its command without *)
(* a handle and so without a cap, or the command never got its output file. *)
RowCloses ==
    \A c \in Cmd : status[c] = "running" ~>
        status[c] # "running" \/ waiter[c] = "adopted" \/ at[c] = "unopened"
=============================================================================
