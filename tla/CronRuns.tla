------------------------------ MODULE CronRuns ------------------------------
(***************************************************************************)
(* Scheduled jobs: the job file and its APScheduler triggers (server/      *)
(* cron_scheduler.py, cron_routes.py), a firing from its trigger to the    *)
(* end of its run (cron_run.py), the run history (cron_history.py), the    *)
(* registry of a Stop (cron_events.py) and the delete of the session that  *)
(* owns the jobs (infrastructure/sessions.py).                             *)
(*                                                                         *)
(* Most of it runs on the event loop, where only an await lets another     *)
(* step in.  The stamp of a firing, the delete of a session and the        *)
(* cron_delete tool run on threads: they step in between any two accesses  *)
(* to the file, the scheduler or the history.                              *)
(***************************************************************************)
EXTENDS Naturals, FiniteSets

CONSTANTS Job,
          MaxInstants, \* bound: due instants of a job
          MaxRuns,     \* bound: firings, and runs asked for by hand
          MaxCrashes,  \* bound: restarts of the server
          MaxChanges,  \* bound: toggles and updates
          NoJob

Run == 1..MaxRuns
NoRun == 0

(* A schedule: a wall clock, or the one instant of an "at" job.  An        *)
(* "interval" job is a wall clock job whose missed fires are never in the  *)
(* grace window: its trigger alone makes it fire after a restart.          *)
At == 1..MaxInstants
Wall == 0

(* A wall clock whose weekdays run backwards ("sat-mon"): every token is a *)
(* weekday, so it is accepted, but no trigger can be built of it.          *)
Backwards == MaxInstants + 1
Schedule == At \cup {Wall, Backwards}

ASSUME Bounds == /\ MaxInstants \in Nat /\ MaxRuns \in Nat
                 /\ MaxCrashes \in Nat /\ MaxChanges \in Nat
ASSUME Names == NoJob \notin Job
ASSUME JobsFinite == IsFiniteSet(Job)

VARIABLES up,      \* whether the server runs
          clock,   \* job -> how many of its instants have come
          job,     \* job -> its record in cron_jobs.json
          armed,   \* the jobs with a trigger in the scheduler
          run,     \* run -> its coroutine
          busy,    \* _in_progress and _running_tasks: job -> its run
          row,     \* run -> status of its lease in cron_runs
          cards,   \* the runs whose card is on its way to the session
          session, \* the session the jobs belong to
          op,      \* who -> the change of the jobs it is in the middle of
          behind,  \* history: job -> the change its trigger has to follow
          made,    \* how many runs there have been
          changes, crashes

vars == <<up, clock, job, armed, run, busy, row, cards, session, op, behind, made, changes,
          crashes>>

(***************************************************************************)
(* last is the number of instants that had come at last_run, 0 for none;   *)
(* here says that the job belongs to the session.                          *)
(***************************************************************************)
NewJob == [state |-> "new", sch |-> Wall, enabled |-> FALSE, fired |-> FALSE, last |-> 0,
           here |-> TRUE]

(***************************************************************************)
(* inst is the instant a run is for, 0 when it was asked for by hand;      *)
(* trig says that the trigger submitted it, which max_instances counts.    *)
(***************************************************************************)
Unused == [pc |-> "unused", job |-> NoJob, inst |-> 0, trig |-> FALSE,
           here |-> TRUE]

Idle == [step |-> "idle", jobs |-> {}]

(* A coroutine of the loop, the cron_delete tool, the delete of a session. *)
Who == {"loop", "tool", "cascade"}

Init ==
    /\ up = TRUE
    /\ clock = [j \in Job |-> 0]
    /\ job = [j \in Job |-> NewJob]
    /\ armed = {}
    /\ run = [r \in Run |-> Unused]
    /\ busy = [j \in Job |-> NoRun]
    /\ row = [r \in Run |-> "none"]
    /\ cards = {}
    /\ session = "open"
    /\ op = [w \in Who |-> Idle]
    /\ behind = [j \in Job |-> "none"]
    /\ made = 0
    /\ changes = 0
    /\ crashes = 0

NextRun == made + 1

Stored(j) == job[j].state = "stored"

(* No coroutine is between two awaits. *)
LoopFree == op["loop"] = Idle /\ \A r \in Run : run[r].pc # "begin"

(* The coroutine still has a step to take. *)
Live(r) == run[r].pc \notin {"unused", "over"}
InBody(r) == run[r].pc \in {"body", "cancel"}
Over(r) == [run[r] EXCEPT !.pc = "over", !.trig = FALSE, !.here = TRUE]

(* The instant of an "at" job is past. *)
Past(j) == job[j].sch \in At /\ job[j].sch <= clock[j]

(* A trigger of the schedule can be built and has still to fire. *)
Armable(j) == job[j].sch # Backwards /\ ~Past(j)

(* What follows a change of the file: _add_job_to_scheduler arms a job     *)
(* that is enabled, but no "at" job that has fired.                        *)
Then(j, record) ==
    [step |-> IF record.enabled /\ (record.sch \in At => ~record.fired) THEN "arm" ELSE "unarm",
     jobs |-> {j}]

-----------------------------------------------------------------------------
(* Changing the jobs: first the file, then the scheduler.  behind is "none" *)
(* when the last change of the job has set its trigger, and "crossed" when *)
(* an older one has set it once more after that.                           *)

(* _create_job, by the tool once it is approved, or by the route: whether  *)
(* the session is still there is not asked.                                *)
_create_job(j, sch) ==
    LET record == [NewJob EXCEPT !.state = "stored", !.sch = sch, !.enabled = TRUE] IN
    /\ up /\ LoopFree /\ job[j].state = "new"
    /\ sch \in At => clock[j] < sch
    /\ job' = [job EXCEPT ![j] = record]
    /\ op' = [op EXCEPT !["loop"] = Then(j, record)]
    /\ behind' = [behind EXCEPT ![j] = "loop"]
    /\ UNCHANGED <<up, clock, armed, run, busy, row, cards, session, made, changes, crashes>>

(* Slip: the trigger follows the record as it was read before the change. *)
changeStale(j, record) ==
    /\ up /\ LoopFree /\ Stored(j) /\ changes < MaxChanges
    /\ job' = [job EXCEPT ![j] = record]
    /\ op' = [op EXCEPT !["loop"] = Then(j, job[j])]
    /\ behind' = [behind EXCEPT ![j] = "loop"]
    /\ changes' = changes + 1
    /\ UNCHANGED <<up, clock, armed, run, busy, row, cards, session, made, crashes>>

(* A change by the panel: the record, and the trigger after it. *)
change(j, record) ==
    /\ up /\ LoopFree /\ Stored(j) /\ changes < MaxChanges
    /\ job' = [job EXCEPT ![j] = record]
    /\ op' = [op EXCEPT !["loop"] = Then(j, record)]
    /\ behind' = [behind EXCEPT ![j] = "loop"]
    /\ changes' = changes + 1
    /\ UNCHANGED <<up, clock, armed, run, busy, row, cards, session, made, crashes>>

(* toggle_cron_job: an "at" job that has fired is not switched on again. *)
toggle_cron_job(j) ==
    /\ \/ job[j].enabled
       \/ job[j].sch \notin At
       \/ ~job[j].fired /\ job[j].last = 0 /\ ~Past(j)
    /\ change(j, [job[j] EXCEPT !.enabled = ~@])

(* _apply_job_update: a change of schedule forgets when the job last ran;  *)
(* a new session takes the job over.                                       *)
_apply_job_update(j, sch, enabled, moved) ==
    LET kept == [job[j] EXCEPT !.enabled = enabled, !.here = @ /\ ~moved]
    IN /\ sch \in At \ {job[j].sch} => clock[j] < sch
       /\ change(j, IF sch = job[j].sch THEN kept
                    ELSE [kept EXCEPT !.sch = sch, !.last = 0, !.fired = FALSE])

(* _delete_jobs, by the route on the loop or by cron_delete on a thread. *)
_delete_jobs(w, j) ==
    /\ up /\ w \in {"loop", "tool"} /\ op[w] = Idle /\ (w = "loop" => LoopFree)
    /\ Stored(j)
    /\ job' = [job EXCEPT ![j] = [NewJob EXCEPT !.state = "deleted", !.sch = job[j].sch]]
    /\ op' = [op EXCEPT ![w] = [step |-> "drop", jobs |-> {j}]]
    /\ behind' = [behind EXCEPT ![j] = w]
    /\ UNCHANGED <<up, clock, armed, run, busy, row, cards, session, made, changes, crashes>>

(* _delete_session_sync: the row of the session goes first. *)
_delete_session_sync ==
    /\ up /\ session = "open"
    /\ session' = "deleted"
    /\ op' = [op EXCEPT !["cascade"] = [step |-> "orphan", jobs |-> {}]]
    /\ UNCHANGED <<up, clock, job, armed, run, busy, row, cards, behind, made, changes, crashes>>

(* on_session_deleted: in the file its jobs are switched off. *)
_orphan ==
    LET changed == {j \in Job : Stored(j) /\ job[j].here} IN
    /\ op["cascade"].step = "orphan"
    /\ job' = [j \in Job |-> IF j \in changed
                             THEN [job[j] EXCEPT !.enabled = FALSE]
                             ELSE job[j]]
    /\ op' = [op EXCEPT !["cascade"] =
                IF changed = {} THEN Idle ELSE [step |-> "unarm", jobs |-> changed]]
    /\ behind' = [j \in Job |-> IF j \in changed THEN "cascade" ELSE behind[j]]
    /\ UNCHANGED <<up, clock, armed, run, busy, row, cards, session, made, changes, crashes>>

(* One job of the change is done; a delete goes on to the history. *)
After(w, j) ==
    IF op[w].step = "drop" THEN [op[w] EXCEPT !.step = "purge"]
    ELSE IF op[w].jobs = {j} THEN Idle
    ELSE [op[w] EXCEPT !.jobs = @ \ {j}]

(* _remove_job_from_scheduler, and for an "arm" _add_job_to_scheduler: a   *)
(* trigger that cannot be built is logged only, and the job keeps none.    *)
reschedule(w, j) ==
    /\ op[w].step \in {"arm", "unarm", "drop"} /\ j \in op[w].jobs
    /\ armed' = IF op[w].step = "arm" /\ Armable(j) THEN armed \cup {j} ELSE armed \ {j}
    /\ op' = [op EXCEPT ![w] = After(w, j)]
    /\ behind' = [behind EXCEPT ![j] = IF @ = w THEN "none"
                                       ELSE IF @ = "none" THEN "crossed" ELSE @]
    /\ UNCHANGED <<up, clock, job, run, busy, row, cards, session, made, changes, crashes>>

(* delete_job_runs *)
delete_job_runs(w) ==
    /\ op[w].step = "purge"
    /\ row' = [r \in Run |-> IF run[r].job \in op[w].jobs /\ row[r] # "none" THEN "purged"
                             ELSE row[r]]
    /\ op' = [op EXCEPT ![w] = Idle]
    /\ UNCHANGED <<up, clock, job, armed, run, busy, cards, session, behind, made, changes, crashes>>

-----------------------------------------------------------------------------
(* A firing.                                                               *)

(* The instant comes.  With a trigger, APScheduler submits _run, unless    *)
(* one it submitted is still waiting (max_instances); an "at" trigger is   *)
(* over.  Without one it is missed.                                        *)
instant(j) ==
    LET fires == j \in armed /\ ~\E r \in Run : run[r].job = j /\ run[r].trig
                                                /\ run[r].pc \in {"stamp", "stamped"}
    IN /\ Stored(j) \/ j \in armed
       /\ clock[j] < MaxInstants /\ ~Past(j)
       /\ up => LoopFree
       /\ fires => NextRun \in Run
       /\ clock' = [clock EXCEPT ![j] = @ + 1]
       /\ armed' = armed \ {k \in {j} : job[j].sch = clock[j] + 1}
       /\ run' = [r \in Run |->
                     IF fires /\ r = NextRun
                     THEN [pc |-> "stamp", job |-> j, inst |-> clock[j] + 1, trig |-> TRUE,
                           here |-> TRUE]
                     ELSE run[r]]
       /\ made' = IF fires THEN NextRun ELSE made
       /\ UNCHANGED <<up, job, busy, row, cards, session, op, behind, changes, crashes>>

(* Slip: last_run is the instant that comes next. *)
_markNext(r) ==
    LET j == run[r].job IN
    /\ run[r].pc = "stamp"
    /\ job' = IF ~Stored(j) THEN job
              ELSE [job EXCEPT ![j].last = clock[j] + 1, ![j].enabled = @ /\ job[j].sch \notin At,
                               ![j].fired = @ \/ job[j].sch \in At]
    /\ run' = [run EXCEPT ![r] = IF Stored(j) THEN [@ EXCEPT !.pc = "stamped"] ELSE Over(r)]
    /\ UNCHANGED <<up, clock, armed, busy, row, cards, session, op, behind, made, changes, crashes>>

(* _mark on a thread: the job as it is in the file now. *)
_mark(r) ==
    LET j == run[r].job IN
    /\ run[r].pc = "stamp"
    /\ job' = IF ~Stored(j) THEN job
              ELSE [job EXCEPT ![j].last = clock[j], ![j].enabled = @ /\ job[j].sch \notin At,
                               ![j].fired = @ \/ job[j].sch \in At]
    /\ run' = [run EXCEPT ![r] = IF Stored(j) THEN [@ EXCEPT !.pc = "stamped"] ELSE Over(r)]
    /\ UNCHANGED <<up, clock, armed, busy, row, cards, session, op, behind, made, changes, crashes>>

(* _spawn_cron_run *)
_spawn_cron_run(r) ==
    /\ LoopFree /\ run[r].pc = "stamped"
    /\ run' = [run EXCEPT ![r].pc = "spawned"]
    /\ UNCHANGED <<up, clock, job, armed, busy, row, cards, session, op, behind, made, changes, crashes>>

(* run_job_now, by the route or by the tool: enabled or not. *)
run_job_now(j) ==
    /\ up /\ Stored(j) /\ busy[j] = NoRun /\ NextRun \in Run
    /\ run' = [run EXCEPT ![NextRun] = [pc |-> "spawned", job |-> j, inst |-> 0, trig |-> FALSE,
                                        here |-> TRUE]]
    /\ made' = NextRun
    /\ UNCHANGED <<up, clock, job, armed, busy, row, cards, session, op, behind, changes, crashes>>

(* _execute_cron_prompt reads the file... *)
load_cron_jobs(r) ==
    /\ LoopFree /\ run[r].pc = "spawned"
    /\ run' = [run EXCEPT ![r] = IF Stored(run[r].job)
                                 THEN [@ EXCEPT !.pc = "begin", !.here = job[run[r].job].here]
                                 ELSE Over(r)]
    /\ UNCHANGED <<up, clock, job, armed, busy, row, cards, session, op, behind, made, changes, crashes>>

(* Slip: only run_job_now asks whether the job runs. *)
start_runUnchecked(r) ==
    LET j == run[r].job IN
    /\ run[r].pc = "begin"
    /\ busy' = [busy EXCEPT ![j] = r]
    /\ row' = [row EXCEPT ![r] = "running"]
    /\ run' = [run EXCEPT ![r].pc = "body"]
    /\ UNCHANGED <<up, clock, job, armed, cards, session, op, behind, made, changes, crashes>>

(* ...and in the same step of the loop it is a duplicate, or it registers  *)
(* and opens its lease (open_run, start_run).  No await is between the two *)
(* and the reading of the file; what a thread or a crash does in between   *)
(* ends as it does before them.                                            *)
start_run(r) ==
    LET j == run[r].job IN
    /\ run[r].pc = "begin"
    /\ \/ /\ busy[j] # NoRun
          /\ run' = [run EXCEPT ![r] = Over(r)]
          /\ UNCHANGED <<busy, row>>
       \/ /\ busy[j] = NoRun
          /\ busy' = [busy EXCEPT ![j] = r]
          /\ row' = [row EXCEPT ![r] = "running"]
          /\ run' = [run EXCEPT ![r].pc = "body"]
    /\ UNCHANGED <<up, clock, job, armed, cards, session, op, behind, made, changes, crashes>>

(* stop_cron_job: request_stop cancels the registered task. *)
stop_cron_job(j) ==
    /\ up /\ LoopFree /\ busy[j] # NoRun
    /\ run' = [run EXCEPT ![busy[j]].pc = "cancel"]
    /\ UNCHANGED <<up, clock, job, armed, busy, row, cards, session, op, behind, made, changes, crashes>>

(* The end of the body: _push_result closes the lease (finish_run finds no *)
(* row when it was purged) and sends the card where _resolve_target_session *)
(* says, then the run leaves the registry (close_run).                     *)
_push_result(r) ==
    LET j == run[r].job IN
    /\ LoopFree /\ InBody(r)
    /\ row' = [row EXCEPT ![r] = IF @ = "purged" THEN @ ELSE "closed"]
    /\ cards' = cards \cup {s \in {r} : run[r].here /\ session # "deleted"}
    /\ busy' = [busy EXCEPT ![j] = NoRun]
    /\ run' = [run EXCEPT ![r] = Over(r)]
    /\ UNCHANGED <<up, clock, job, armed, session, op, behind, made, changes, crashes>>

(* append_message, which waits for the delete of the session and makes the *)
(* row of a session that is not there.                                     *)
append_message(r) ==
    /\ r \in cards /\ op["cascade"] = Idle
    /\ cards' = cards \ {r}
    /\ session' = IF session = "deleted" THEN "back" ELSE session
    /\ UNCHANGED <<up, clock, job, armed, run, busy, row, op, behind, made, changes, crashes>>

-----------------------------------------------------------------------------
(* The server.                                                             *)

(* It dies: coroutines, triggers, threads and cards on their way with it. *)
Crash ==
    /\ up /\ crashes < MaxCrashes
    /\ up' = FALSE
    /\ armed' = {}
    /\ busy' = [j \in Job |-> NoRun]
    /\ run' = [r \in Run |-> IF Live(r) THEN Over(r) ELSE run[r]]
    /\ cards' = {}
    /\ op' = [w \in Who |-> Idle]
    /\ behind' = [j \in Job |-> "none"]
    /\ crashes' = crashes + 1
    /\ UNCHANGED <<clock, job, row, session, made, changes>>

(* Slip: any fire in the grace window counts as missed. *)
CatchUpDueAll == {j \in Job : /\ Stored(j) /\ job[j].enabled /\ job[j].sch = Wall
                              /\ job[j].last # 0}

(* cron_catch_up_due: a fire newer than last_run was missed. *)
CatchUpDue == {j \in Job : /\ Stored(j) /\ job[j].enabled /\ job[j].sch = Wall
                           /\ job[j].last # 0 /\ job[j].last < clock[j]}

(* init_scheduler: reconcile_interrupted, then the triggers; what is late  *)
(* by no more than the grace is fired once.                                *)
init_scheduler(late) ==
    LET new == NextRun..(made + Cardinality(late)) IN
    /\ ~up /\ late \subseteq CatchUpDue /\ new \subseteq Run
    /\ up' = TRUE
    /\ made' = made + Cardinality(late)
    /\ row' = [r \in Run |-> IF row[r] = "running" THEN "closed" ELSE row[r]]
    /\ armed' = {j \in Job : Stored(j) /\ Then(j, job[j]).step = "arm" /\ Armable(j)}
    /\ \E of \in [new -> late] :
          /\ \A r, s \in new : of[r] = of[s] => r = s
          /\ run' = [r \in Run |->
                        IF r \in new
                        THEN [pc |-> "stamp", job |-> of[r], inst |-> clock[of[r]],
                              trig |-> FALSE, here |-> TRUE]
                        ELSE run[r]]
    /\ UNCHANGED <<clock, job, busy, cards, session, op, behind, changes, crashes>>

Next ==
    \/ \E j \in Job : \/ \E sch \in Schedule : _create_job(j, sch)
                      \/ toggle_cron_job(j)
                      \/ \E sch \in Schedule, enabled, moved \in BOOLEAN :
                            _apply_job_update(j, sch, enabled, moved)
                      \/ \E w \in Who : _delete_jobs(w, j) \/ reschedule(w, j)
                      \/ instant(j) \/ run_job_now(j) \/ stop_cron_job(j)
    \/ _delete_session_sync \/ _orphan
    \/ \E w \in Who : delete_job_runs(w)
    \/ \E r \in Run : \/ _mark(r) \/ _spawn_cron_run(r) \/ load_cron_jobs(r) \/ start_run(r)
                      \/ _push_result(r) \/ append_message(r)
    \/ Crash
    \/ \E late \in SUBSET Job : init_scheduler(late)

Spec == Init /\ [][Next]_vars

-----------------------------------------------------------------------------
(* Properties.                                                             *)

JobRecord == [state : {"new", "stored", "deleted"}, sch : Schedule, enabled : BOOLEAN,
              fired : BOOLEAN, last : 0..MaxInstants, here : BOOLEAN]
Started == [pc : {"stamp", "stamped", "spawned", "begin", "body", "cancel", "over"},
            job : Job, inst : 0..MaxInstants, trig : BOOLEAN, here : BOOLEAN]
RunRecord == Started \cup {Unused}
Change == [step : {"idle", "orphan", "arm", "unarm", "drop", "purge"}, jobs : SUBSET Job]

TypeOK ==
    /\ up \in BOOLEAN
    /\ clock \in [Job -> 0..MaxInstants]
    /\ job \in [Job -> JobRecord]
    /\ armed \subseteq Job
    /\ run \in [Run -> RunRecord]
    /\ busy \in [Job -> Run \cup {NoRun}]
    /\ row \in [Run -> {"none", "running", "closed", "purged"}]
    /\ cards \subseteq Run
    /\ session \in {"open", "deleted", "back"}
    /\ op \in [Who -> Change]
    /\ behind \in [Job -> Who \cup {"none", "crossed"}]
    /\ made \in 0..MaxRuns
    /\ changes \in 0..MaxChanges
    /\ crashes \in 0..MaxCrashes

(* A due instant is executed at most once, whatever restarts, catch-ups,   *)
(* late stamps and changes of the job come between.                        *)
Began(r) == row[r] # "none"
OncePerInstant ==
    \A r, s \in Run : Began(r) /\ Began(s) /\ run[r].job = run[s].job /\ run[r].inst = run[s].inst
                        /\ run[r].inst # 0 => r = s

(* A lease says "running" only for the one run of its job that is alive    *)
(* and that a Stop reaches, deleted jobs included.                         *)
LeaseTruthful ==
    up => \A r \in Run :
             /\ row[r] = "running" => InBody(r)
             /\ run[r].pc # "unused" => (InBody(r) <=> busy[run[r].job] = r)

(* The triggers follow the file: once the last change of a job, by the     *)
(* panel, a tool or the delete of its session, has reached the scheduler,  *)
(* an enabled job whose time is to come has a trigger, if one can be built *)
(* of its schedule, and a job that is deleted or switched off has none.  A *)
(* job whose one instant was stamped late may keep the trigger of its next.*)
TriggersFollow ==
    \A j \in Job : up /\ behind[j] = "none" =>
        /\ Stored(j) /\ Then(j, job[j]).step = "arm" /\ Armable(j) => j \in armed
        /\ j \in armed => Stored(j) /\ Armable(j) /\ (job[j].enabled \/ job[j].fired)

(* Deleting a session removes every trace of it. *)
StaysDeleted == [][session = "deleted" => session' = "deleted"]_vars
=============================================================================
