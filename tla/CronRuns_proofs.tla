--------------------------- MODULE CronRuns_proofs --------------------------
(***************************************************************************)
(* Proofs about CronRuns, for any number of jobs, instants, runs, restarts *)
(* and changes.                                                            *)
(***************************************************************************)
EXTENDS CronRuns, FiniteSetTheorems, TLAPS

(* The jobs that were missed can be counted. *)
LEMMA LateCounted == ASSUME NEW late \in SUBSET Job PROVE Cardinality(late) \in Nat
  BY JobsFinite, FS_Subset, FS_CardinalityType

(* A job as it is created is a well-formed one. *)
LEMMA NewJobTyped == NewJob \in JobRecord
  BY Bounds DEF NewJob, JobRecord, Schedule, Wall

(* A job stays well-formed when its schedule is replaced and what it had fired is forgotten. *)
LEMMA RescheduledTyped ==
    ASSUME NEW kept \in JobRecord, NEW sch \in Schedule
    PROVE [kept EXCEPT !.sch = sch, !.last = 0, !.fired = FALSE] \in JobRecord
<1>1. 0 \in 0..MaxInstants
  BY Bounds
<1>2. [kept EXCEPT !.last = 0] \in JobRecord
  BY <1>1 DEF JobRecord
<1>3. [[kept EXCEPT !.last = 0] EXCEPT !.sch = sch] \in JobRecord
  BY <1>2 DEF JobRecord
<1>4. [[[kept EXCEPT !.last = 0] EXCEPT !.sch = sch] EXCEPT !.fired = FALSE] \in JobRecord
  BY <1>3 DEF JobRecord
<1> QED
  BY <1>4 DEF JobRecord

(* Switching a job on or off and moving it keep its record one. *)
LEMMA SwitchedTyped ==
    ASSUME NEW kept \in JobRecord, NEW enabled \in BOOLEAN, NEW here \in BOOLEAN
    PROVE /\ [kept EXCEPT !.enabled = enabled] \in JobRecord
          /\ [kept EXCEPT !.enabled = enabled, !.here = here] \in JobRecord
  BY DEF JobRecord

(* So does the stamp of a firing. *)
LEMMA StampedTyped ==
    ASSUME NEW kept \in JobRecord, NEW last \in 0..MaxInstants, NEW enabled \in BOOLEAN,
           NEW fired \in BOOLEAN
    PROVE [kept EXCEPT !.last = last, !.enabled = enabled, !.fired = fired] \in JobRecord
  BY DEF JobRecord

(* A run that has started stays so when it is over, with its job. *)
LEMMA OverFacts ==
    ASSUME NEW r \in Run, run[r] \in Started
    PROVE Over(r) \in Started /\ Over(r).pc = "over" /\ Over(r).job = run[r].job
          /\ Over(r).inst = run[r].inst
  BY DEF Over, Started

(* The numbers up to made are the ones in use. *)
Numbered == \A r \in Run : r > made <=> run[r].pc = "unused"

(* A run has no lease before it begins. *)
Unbegun ==
    \A r \in Run : run[r].pc \in {"unused", "stamp", "stamped", "spawned", "begin"} => row[r] = "none"

(* The registry names the runs in their body, each under its own job. *)
Registered == \A j \in Job : busy[j] # NoRun => InBody(busy[j]) /\ run[busy[j]].job = j
Owned == \A r \in Run : InBody(r) => busy[run[r].job] = r

(* Only a run in its body has an open lease, once the server has booted. *)
Leased == up => \A r \in Run : row[r] = "running" => InBody(r)

(* With the server down nothing runs, and nothing is armed. *)
DownIsDead ==
    ~up => /\ \A r \in Run : ~Live(r)
           /\ \A j \in Job : busy[j] = NoRun
           /\ \A w \in Who : op[w] = Idle
           /\ armed = {}

Runs == Numbered /\ Unbegun /\ Registered /\ Owned /\ Leased /\ DownIsDead

-----------------------------------------------------------------------------
(* Every step keeps the types; a Stop needs to find a run in the registry. *)
LEMMA TypeKept == TypeOK /\ Registered /\ [Next]_vars => TypeOK'
<1> SUFFICES ASSUME TypeOK, Registered, [Next]_vars PROVE TypeOK'
  OBVIOUS
<1>1. CASE UNCHANGED vars
  BY <1>1 DEF vars, TypeOK
<1>2. ASSUME NEW j \in Job, NEW sch \in Schedule, _create_job(j, sch) PROVE TypeOK'
  <2>1. [NewJob EXCEPT !.state = "stored", !.sch = sch, !.enabled = TRUE] \in JobRecord
    BY NewJobTyped DEF JobRecord
  <2>2. job' \in [Job -> JobRecord]
    BY <1>2, <2>1 DEF _create_job, TypeOK
  <2>3. op' \in [Who -> Change]
    BY <1>2 DEF _create_job, NewJob, Then, Change, TypeOK, Who
  <2> QED
    BY <1>2, <2>1, <2>2, <2>3 DEF _create_job, TypeOK
<1>3. ASSUME NEW j \in Job, toggle_cron_job(j) PROVE TypeOK'
  <2>1. job' \in [Job -> JobRecord]
    <3>1. [job[j] EXCEPT !.enabled = ~@] \in JobRecord
      <4>1. job[j] \in JobRecord
        BY DEF TypeOK
      <4>2. (~job[j].enabled) \in BOOLEAN
        OBVIOUS
      <4>3. job[j].here \in BOOLEAN
        BY <4>1 DEF JobRecord
      <4> QED
        BY <4>1, <4>2, <4>3, SwitchedTyped
    <3> QED
      BY <1>3, <3>1 DEF toggle_cron_job, change, TypeOK
  <2>2. op' \in [Who -> Change]
    BY <1>3 DEF toggle_cron_job, change, Then, Change, TypeOK, Who
  <2>3. changes' \in 0..MaxChanges
    BY <1>3, Bounds DEF toggle_cron_job, change, TypeOK
  <2> QED
    BY <1>3, <2>1, <2>2, <2>3 DEF toggle_cron_job, change, TypeOK
<1>4. ASSUME NEW j \in Job, NEW sch \in Schedule, NEW enabled \in BOOLEAN,
               NEW moved \in BOOLEAN, _apply_job_update(j, sch, enabled, moved)
      PROVE TypeOK'
  <2> DEFINE kept == [job[j] EXCEPT !.enabled = enabled, !.here = @ /\ ~moved]
  <2>1. kept \in JobRecord
    <3>1. job[j] \in JobRecord
      BY DEF TypeOK
    <3>2. (job[j].here /\ ~moved) \in BOOLEAN
      BY <3>1 DEF JobRecord
    <3> QED
      BY <3>1, <3>2, SwitchedTyped
  <2>2. [kept EXCEPT !.sch = sch, !.last = 0, !.fired = FALSE] \in JobRecord
    <3> HIDE DEF kept
    <3> QED
      BY <2>1, RescheduledTyped
  <2>3. job' \in [Job -> JobRecord]
    <3> HIDE DEF kept
    <3> QED
      BY <1>4, <2>1, <2>2 DEF _apply_job_update, change, TypeOK, kept
  <2>4. op' \in [Who -> Change]
    BY <1>4 DEF _apply_job_update, change, Then, Change, TypeOK, Who
  <2>5. changes' \in 0..MaxChanges
    BY <1>4, Bounds DEF _apply_job_update, change, TypeOK
  <2> QED
    BY <1>4, <2>3, <2>4, <2>5 DEF _apply_job_update, change, TypeOK
<1>5. ASSUME NEW j \in Job, NEW w \in Who, _delete_jobs(w, j) PROVE TypeOK'
  <2>1. [NewJob EXCEPT !.state = "deleted", !.sch = job[j].sch] \in JobRecord
    BY NewJobTyped DEF JobRecord, TypeOK
  <2>2. job' \in [Job -> JobRecord]
    BY <1>5, <2>1 DEF _delete_jobs, TypeOK
  <2>3. op' \in [Who -> Change]
    BY <1>5 DEF _delete_jobs, Change, TypeOK
  <2> QED
    BY <1>5, <2>1, <2>2, <2>3 DEF _delete_jobs, TypeOK
<1>6. ASSUME NEW j \in Job, NEW w \in Who, reschedule(w, j) PROVE TypeOK'
  <2>1. op' \in [Who -> Change]
    BY <1>6 DEF reschedule, After, Idle, Change, TypeOK
  <2> QED
    BY <1>6, <2>1 DEF reschedule, TypeOK
<1>7. ASSUME NEW j \in Job, instant(j) PROVE TypeOK'
  <2>1. clock' \in [Job -> 0..MaxInstants]
    BY <1>7, Bounds DEF instant, TypeOK
  <2>2. run' \in [Run -> RunRecord]
    BY <1>7, Bounds DEF instant, RunRecord, Started, TypeOK
  <2>3. made' \in 0..MaxRuns
    BY <1>7, Bounds DEF instant, NextRun, Run, TypeOK
  <2> QED
    BY <1>7, <2>1, <2>2, <2>3 DEF instant, TypeOK
<1>8. ASSUME NEW j \in Job, run_job_now(j) PROVE TypeOK'
  <2>1. run' \in [Run -> RunRecord]
    BY <1>8, Bounds DEF run_job_now, RunRecord, Started, TypeOK
  <2>2. made' \in 0..MaxRuns
    BY <1>8, Bounds DEF run_job_now, NextRun, Run, TypeOK
  <2> QED
    BY <1>8, <2>1, <2>2 DEF run_job_now, TypeOK
<1>9. ASSUME NEW j \in Job, stop_cron_job(j) PROVE TypeOK'
  <2>1. run[busy[j]] \in Started /\ busy[j] \in Run
    BY <1>9 DEF stop_cron_job, Registered, InBody, RunRecord, Unused, TypeOK
  <2>2. run' \in [Run -> RunRecord]
    BY <1>9, <2>1 DEF stop_cron_job, Started, RunRecord, TypeOK
  <2> QED
    BY <1>9, <2>1, <2>2 DEF stop_cron_job, TypeOK
<1>10. CASE _delete_session_sync
  <2>1. op' \in [Who -> Change]
    BY <1>10 DEF _delete_session_sync, Change, TypeOK, Who
  <2> QED
    BY <1>10, <2>1 DEF _delete_session_sync, TypeOK
<1>11. CASE _orphan
  <2>1. job' \in [Job -> JobRecord]
    <3>1. \A j \in Job : [job[j] EXCEPT !.enabled = FALSE] \in JobRecord
      <4>1. \A j \in Job : job[j] \in JobRecord
        BY DEF TypeOK
      <4> QED
        BY <4>1, SwitchedTyped
    <3> QED
      BY <1>11, <3>1 DEF _orphan, TypeOK
  <2>2. op' \in [Who -> Change]
    BY <1>11 DEF _orphan, Idle, Change, TypeOK, Who
  <2> QED
    BY <1>11, <2>1, <2>2 DEF _orphan, TypeOK
<1>12. ASSUME NEW w \in Who, delete_job_runs(w) PROVE TypeOK'
  <2>1. op' \in [Who -> Change]
    BY <1>12 DEF delete_job_runs, Idle, Change, TypeOK
  <2> QED
    BY <1>12, <2>1 DEF delete_job_runs, TypeOK
<1>13. ASSUME NEW r \in Run, _mark(r) PROVE TypeOK'
  <2>1. run[r] \in Started
    BY <1>13 DEF _mark, TypeOK, RunRecord, Unused
  <2>2. job' \in [Job -> JobRecord]
    <3> DEFINE j == run[r].job
    <3>1. job[j] \in JobRecord /\ clock[j] \in 0..MaxInstants
      BY <2>1 DEF Started, TypeOK
    <3>2. job[j].enabled \in BOOLEAN /\ job[j].fired \in BOOLEAN
      BY <3>1 DEF JobRecord
    <3>3. [job[j] EXCEPT !.last = clock[j], !.enabled = job[j].enabled /\ job[j].sch \notin At,
                         !.fired = job[j].fired \/ job[j].sch \in At] \in JobRecord
      BY <3>1, <3>2, StampedTyped
    <3>4. job' = job \/ job' = [job EXCEPT ![j] =
             [job[j] EXCEPT !.last = clock[j], !.enabled = job[j].enabled /\ job[j].sch \notin At,
                            !.fired = job[j].fired \/ job[j].sch \in At]]
      BY <1>13, <3>1 DEF _mark, TypeOK
    <3> HIDE DEF j
    <3> QED
      BY <3>3, <3>4 DEF TypeOK
  <2>3. Over(r) \in Started
    BY <1>13, <2>1 DEF Over, Started
  <2>4. run' \in [Run -> RunRecord]
    BY <1>13, <2>1, <2>3 DEF _mark, Started, RunRecord, TypeOK
  <2> QED
    BY <1>13, <2>1, <2>2, <2>3, <2>4 DEF _mark, TypeOK
<1>14. ASSUME NEW r \in Run, _spawn_cron_run(r) PROVE TypeOK'
  <2>1. run[r] \in Started
    BY <1>14 DEF _spawn_cron_run, TypeOK, RunRecord, Unused
  <2>2. run' \in [Run -> RunRecord]
    BY <1>14, <2>1 DEF _spawn_cron_run, Started, RunRecord, TypeOK
  <2> QED
    BY <1>14, <2>1, <2>2 DEF _spawn_cron_run, TypeOK
<1>15. ASSUME NEW r \in Run, load_cron_jobs(r) PROVE TypeOK'
  <2>1. run[r] \in Started
    BY <1>15 DEF load_cron_jobs, TypeOK, RunRecord, Unused
  <2>2. Over(r) \in Started
    BY <1>15, <2>1 DEF Over, Started
  <2>3. job[run[r].job].here \in BOOLEAN
    BY <1>15, <2>1 DEF Started, JobRecord, TypeOK
  <2>4. run' \in [Run -> RunRecord]
    BY <1>15, <2>1, <2>2, <2>3 DEF load_cron_jobs, Started, RunRecord, TypeOK
  <2> QED
    BY <1>15, <2>1, <2>2, <2>3, <2>4 DEF load_cron_jobs, TypeOK
<1>16. ASSUME NEW r \in Run, start_run(r) PROVE TypeOK'
  <2>1. run[r] \in Started
    BY <1>16 DEF start_run, TypeOK, RunRecord, Unused
  <2>2. Over(r) \in Started
    BY <1>16, <2>1 DEF Over, Started
  <2>3. run' \in [Run -> RunRecord]
    BY <1>16, <2>1, <2>2 DEF start_run, Started, RunRecord, TypeOK
  <2> QED
    BY <1>16, <2>1, <2>2, <2>3 DEF start_run, TypeOK
<1>17. ASSUME NEW r \in Run, _push_result(r) PROVE TypeOK'
  <2>1. run[r] \in Started
    BY <1>17 DEF _push_result, InBody, TypeOK, RunRecord, Unused
  <2>2. Over(r) \in Started
    BY <1>17, <2>1 DEF Over, Started
  <2>3. run' \in [Run -> RunRecord]
    BY <1>17, <2>2 DEF _push_result, RunRecord, TypeOK
  <2> QED
    BY <1>17, <2>1, <2>2, <2>3 DEF _push_result, NoRun, TypeOK
<1>18. ASSUME NEW r \in Run, append_message(r) PROVE TypeOK'
  BY <1>18 DEF append_message, TypeOK
<1>19. CASE Crash
  <2>1. ASSUME NEW r \in Run, Live(r) PROVE Over(r) \in Started
    <3>1. run[r] \in Started
      BY <2>1 DEF Live, RunRecord, Unused, TypeOK
    <3> QED
      BY <3>1 DEF Over, Started
  <2>2. run' \in [Run -> RunRecord]
    BY <1>19, <2>1 DEF Crash, RunRecord, TypeOK
  <2>3. op' \in [Who -> Change]
    BY <1>19 DEF Crash, Idle, Change
  <2>4. crashes' \in 0..MaxCrashes
    BY <1>19, Bounds DEF Crash, TypeOK
  <2> QED
    BY <1>19, <2>1, <2>2, <2>3, <2>4 DEF Crash, NoRun, TypeOK
<1>20. ASSUME NEW late \in SUBSET Job, init_scheduler(late) PROVE TypeOK'
  <2>1. run' \in [Run -> RunRecord]
    BY <1>20 DEF init_scheduler, RunRecord, Started, TypeOK
  <2>2. made' \in 0..MaxRuns
    <3>1. made' = made + Cardinality(late) /\ (made + 1)..(made + Cardinality(late)) \subseteq Run
      BY <1>20 DEF init_scheduler, NextRun
    <3>2. made \in 0..MaxRuns /\ Cardinality(late) \in Nat
      BY LateCounted DEF TypeOK
    <3>3. CASE Cardinality(late) = 0
      BY <3>1, <3>2, <3>3
    <3>4. CASE Cardinality(late) # 0
      <4>1. made + Cardinality(late) \in Run
        BY <3>1, <3>2, <3>4
      <4> QED
        BY <3>1, <4>1 DEF Run
    <3> QED
      BY <3>3, <3>4
  <2>3. armed' \subseteq Job /\ row' \in [Run -> {"none", "running", "closed", "purged"}]
    BY <1>20 DEF init_scheduler, TypeOK
  <2>4. up' \in BOOLEAN /\ UNCHANGED <<clock, job, busy, cards, session, op, behind, changes, crashes>>
    BY <1>20 DEF init_scheduler
  <2> QED
    BY <2>1, <2>2, <2>3, <2>4 DEF TypeOK
<1> QED
  BY <1>1, <1>2, <1>3, <1>4, <1>5, <1>6, <1>7, <1>8, <1>9, <1>10, <1>11, <1>12, <1>13, <1>14,
     <1>15, <1>16, <1>17, <1>18, <1>19, <1>20 DEF Next

(* What a step that touches no run has to leave alone. *)
LEMMA RunsUntouched ==
    ASSUME Runs, up, UNCHANGED <<up, run, busy, row, made>> PROVE Runs'
  BY DEF Runs, Numbered, Unbegun, Registered, Owned, Leased, DownIsDead, InBody

(* Every step keeps what ties the runs to the registry and to their leases. *)
LEMMA RunsKept == TypeOK /\ Runs /\ [Next]_vars => Runs'
<1> SUFFICES ASSUME TypeOK, Runs, [Next]_vars PROVE Runs'
  OBVIOUS
<1> USE DEF Run, NoRun
<1>0. \A r \in Run : run[r].pc # "unused" => run[r] \in Started
  BY SMTT(30) DEF TypeOK, RunRecord, Unused
<1>1. CASE UNCHANGED vars
  BY <1>1 DEF vars, Runs, Numbered, Unbegun, Registered, Owned, Leased, DownIsDead, InBody, Live
<1>2. ASSUME NEW j \in Job, NEW sch \in Schedule, _create_job(j, sch) PROVE Runs'
  BY <1>2, RunsUntouched DEF _create_job
<1>3. ASSUME NEW j \in Job, NEW record, change(j, record) PROVE Runs'
  BY <1>3, RunsUntouched DEF change
<1>4. ASSUME NEW j \in Job, NEW w \in Who, _delete_jobs(w, j) PROVE Runs'
  BY <1>4, RunsUntouched DEF _delete_jobs
<1>5. ASSUME NEW j \in Job, NEW w \in Who, reschedule(w, j) PROVE Runs'
  <2>1. up
    BY <1>5 DEF reschedule, Runs, DownIsDead, Idle, TypeOK
  <2> QED
    BY <1>5, <2>1, RunsUntouched DEF reschedule
<1>6. CASE _delete_session_sync
  BY <1>6, RunsUntouched DEF _delete_session_sync
<1>7. CASE _orphan
  <2>1. up
    BY <1>7 DEF _orphan, Runs, DownIsDead, Idle, Who, TypeOK
  <2> QED
    BY <1>7, <2>1, RunsUntouched DEF _orphan
<1>8. ASSUME NEW r \in Run, append_message(r) PROVE Runs'
  BY <1>8 DEF append_message, Runs, Numbered, Unbegun, Registered, Owned, Leased, DownIsDead,
              InBody, Live
<1>9. ASSUME NEW j \in Job, instant(j) PROVE Runs'
  <2>1. up' = up /\ busy' = busy /\ row' = row /\ op' = op /\ (armed = {} => armed' = {})
    BY <1>9 DEF instant
  <2>2. CASE made' = made
    <3>1. run' = run
      BY <1>9, <2>2 DEF instant, NextRun, TypeOK
    <3> QED
      BY <2>1, <2>2, <3>1 DEF Runs, Numbered, Unbegun, Registered, Owned, Leased, DownIsDead, InBody,
                              Live
  <2>3. CASE made' # made
    <3>1. j \in armed /\ NextRun \in Run /\ made' = NextRun
      BY <1>9, <2>3 DEF instant
    <3>2. run'[NextRun].pc = "stamp" /\ \A s \in Run \ {NextRun} : run'[s] = run[s]
      <4>1. \A s \in Run : run'[s] = IF s = NextRun
                                   THEN [pc |-> "stamp", job |-> j, inst |-> clock[j] + 1,
                                         trig |-> TRUE, here |-> TRUE]
                                   ELSE run[s]
        BY <1>9, <2>3 DEF instant
      <4> QED
        BY <3>1, <4>1
    <3>3. up
      BY <3>1 DEF Runs, DownIsDead
    <3>4. made \in Nat /\ run[NextRun].pc = "unused"
      BY <3>1 DEF Runs, Numbered, NextRun, TypeOK
    <3>5. \A s \in Run : InBody(s)' <=> InBody(s)
      BY <3>2, <3>4 DEF InBody
    <3>6. Numbered'
      BY <3>1, <3>2, <3>4 DEF NextRun, Runs, Numbered
    <3>7. Unbegun'
      BY <2>1, <3>2, <3>4 DEF Runs, Unbegun
    <3>8. Registered'
      <4>1. ASSUME NEW k \in Job, busy[k] # NoRun PROVE busy[k] \in Run \ {NextRun}
        <5>1. busy[k] \in Run
          BY <4>1 DEF TypeOK
        <5>2. run[busy[k]].pc # "unused"
          BY <4>1 DEF Runs, Registered, InBody
        <5> QED
          BY <3>4, <5>1, <5>2
      <4> QED
        BY <2>1, <3>2, <4>1 DEF Runs, Registered, InBody
    <3>9. Owned' /\ Leased' /\ DownIsDead'
      BY <2>1, <3>2, <3>3, <3>4, <3>5 DEF Runs, Owned, Leased, DownIsDead, InBody
    <3> QED
      BY <3>6, <3>7, <3>8, <3>9 DEF Runs
  <2> QED
    BY <2>2, <2>3
<1>10. ASSUME NEW j \in Job, run_job_now(j) PROVE Runs'
  <2>1. run'[NextRun].pc = "spawned" /\ \A s \in Run \ {NextRun} : run'[s] = run[s]
    BY <1>10 DEF run_job_now, TypeOK
  <2> QED
    BY <1>10, <2>1 DEF run_job_now, NextRun, Runs, Numbered, Unbegun, Registered, Owned, Leased,
                       DownIsDead, InBody, Live, TypeOK
<1>11. ASSUME NEW j \in Job, stop_cron_job(j) PROVE Runs'
  <2> DEFINE b == busy[j]
  <2>1. b \in Run /\ InBody(b) /\ run[b] \in Started
    BY <1>11, <1>0 DEF stop_cron_job, Runs, Registered, InBody, TypeOK
  <2>2. run'[b].pc = "cancel" /\ run'[b].job = run[b].job
        /\ \A s \in Run \ {b} : run'[s] = run[s]
    BY <1>11, <2>1 DEF stop_cron_job, Started, TypeOK
  <2> HIDE DEF b
  <2> QED
    BY <1>11, <2>1, <2>2 DEF stop_cron_job, Runs, Numbered, Unbegun, Registered, Owned, Leased,
                             DownIsDead, InBody, Live, TypeOK
<1>12. ASSUME NEW w \in Who, delete_job_runs(w) PROVE Runs'
  <2>1. up
    BY <1>12 DEF delete_job_runs, Runs, DownIsDead, Idle, TypeOK
  <2> QED
    BY <1>12, <2>1 DEF delete_job_runs, Runs, Numbered, Unbegun, Registered, Owned, Leased,
                       DownIsDead, InBody, TypeOK
<1>13. ASSUME NEW r \in Run, _mark(r) PROVE Runs'
  <2>1. run[r] \in Started
    BY <1>0, <1>13 DEF _mark
  <2>2. run'[r].pc \in {"stamped", "over"} /\ run'[r].job = run[r].job
        /\ \A s \in Run \ {r} : run'[s] = run[s]
    BY <1>13, <2>1, OverFacts DEF _mark, Started, TypeOK
  <2> QED
    BY <1>13, <2>2 DEF _mark, Runs, Numbered, Unbegun, Registered, Owned, Leased, DownIsDead,
                       InBody, Live, TypeOK
<1>14. ASSUME NEW r \in Run, _spawn_cron_run(r) PROVE Runs'
  BY <1>0, <1>14 DEF _spawn_cron_run, Started, Runs, Numbered, Unbegun, Registered, Owned, Leased,
                     DownIsDead, InBody, Live, TypeOK
<1>15. ASSUME NEW r \in Run, load_cron_jobs(r) PROVE Runs'
  <2>1. run[r] \in Started
    BY <1>0, <1>15 DEF load_cron_jobs
  <2>2. run'[r].pc \in {"begin", "over"} /\ run'[r].job = run[r].job
        /\ \A s \in Run \ {r} : run'[s] = run[s]
    BY <1>15, <2>1, OverFacts DEF load_cron_jobs, Started, TypeOK
  <2> QED
    BY <1>15, <2>2 DEF load_cron_jobs, Runs, Numbered, Unbegun, Registered, Owned, Leased,
                       DownIsDead, InBody, Live, TypeOK
<1>16. ASSUME NEW r \in Run, start_run(r) PROVE Runs'
  <2>1. run[r] \in Started /\ run[r].job \in Job
    BY <1>0, <1>16 DEF start_run, Started
  <2>2. CASE busy[run[r].job] # NoRun
    <3>1. run'[r].pc = "over" /\ run'[r].job = run[r].job
          /\ \A s \in Run \ {r} : run'[s] = run[s]
      BY <1>16, <2>1, <2>2, OverFacts DEF start_run, TypeOK
    <3>2. UNCHANGED <<up, busy, row, op, armed, made>> /\ run[r].pc = "begin"
      BY <1>16, <2>2 DEF start_run
    <3>3. up
      BY <3>2 DEF Runs, DownIsDead, Live
    <3>4. \A k \in Job : busy[k] # NoRun => busy[k] \in Run \ {r}
      <4> SUFFICES ASSUME NEW k \in Job, busy[k] # NoRun PROVE busy[k] \in Run \ {r}
        OBVIOUS
      <4>1. busy[k] \in Run
        BY DEF TypeOK
      <4>2. run[busy[k]].pc # "begin"
        BY DEF Runs, Registered, InBody
      <4> QED
        BY <3>2, <4>1, <4>2
    <3>5. /\ Numbered' /\ Unbegun'
          /\ Registered'
      <4>1. Numbered' /\ Unbegun'
        BY <3>1, <3>2 DEF Runs, Numbered, Unbegun
      <4>2. Registered'
        BY <3>1, <3>2, <3>4 DEF Runs, Registered, InBody
      <4> QED
        BY <4>1, <4>2
    <3>6. Owned' /\ Leased' /\ DownIsDead'
      BY <3>1, <3>2, <3>3 DEF Runs, Owned, Leased, DownIsDead, InBody
    <3> QED
      BY <3>5, <3>6 DEF Runs
  <2>3. CASE busy[run[r].job] = NoRun
    <3>1. /\ run' = [run EXCEPT ![r].pc = "body"]
          /\ busy' = [busy EXCEPT ![run[r].job] = r]
          /\ row' = [row EXCEPT ![r] = "running"]
          /\ UNCHANGED <<up, made>> /\ run[r].pc = "begin"
      BY <1>16, <2>3 DEF start_run
    <3>2. /\ run'[r].pc = "body" /\ run'[r].job = run[r].job
          /\ \A s \in Run \ {r} : run'[s] = run[s]
      BY <2>1, <3>1 DEF Started, TypeOK
    <3>3. /\ busy'[run[r].job] = r
          /\ \A j \in Job \ {run[r].job} : busy'[j] = busy[j]
          /\ row'[r] = "running" /\ \A s \in Run \ {r} : row'[s] = row[s]
      BY <2>1, <3>1 DEF TypeOK
    <3>4. up
      BY <3>1 DEF Runs, DownIsDead, Live
    <3>5. \A s \in Run : InBody(s) => run[s].job # run[r].job
      BY <2>3 DEF Runs, Owned
    <3>6. Numbered' /\ Unbegun' /\ DownIsDead'
      BY <3>1, <3>2, <3>3, <3>4 DEF Runs, Numbered, Unbegun, DownIsDead
    <3>9. Leased'
      BY <3>1, <3>2, <3>3, <3>4 DEF Runs, Leased, InBody
    <3>7. Registered'
      BY <2>1, <3>1, <3>2, <3>3, <3>5 DEF Runs, Registered, InBody, TypeOK
    <3>8. Owned'
      BY <1>0, <2>1, <3>1, <3>2, <3>3, <3>5 DEF Runs, Owned, InBody, Started
    <3> QED
      BY <3>6, <3>7, <3>8, <3>9 DEF Runs
  <2> QED
    BY <2>2, <2>3
<1>17. ASSUME NEW r \in Run, _push_result(r) PROVE Runs'
  <2>1. run[r] \in Started /\ run[r].job \in Job
    BY <1>0, <1>17 DEF _push_result, InBody, Started
  <2>2. run'[r].pc = "over" /\ run'[r].job = run[r].job
        /\ \A s \in Run \ {r} : run'[s] = run[s]
    BY <1>17, <2>1, OverFacts DEF _push_result, TypeOK
  <2>3. up
    BY <1>17 DEF _push_result, Runs, DownIsDead, Live, InBody
  <2> QED
    BY <1>17, <2>1, <2>2, <2>3 DEF _push_result, Runs, Numbered, Unbegun, Registered, Owned,
                                   Leased, DownIsDead, InBody, TypeOK
<1>18. CASE Crash
  <2>1. ASSUME NEW s \in Run
        PROVE run'[s].pc \in {"unused", "over"} /\ (run'[s].pc = "unused" <=> run[s].pc = "unused")
    BY <1>0, <1>18, OverFacts DEF Crash, Live
  <2> QED
    BY <1>18, <2>1 DEF Crash, Runs, Numbered, Unbegun, Registered, Owned, Leased, DownIsDead,
                       InBody, Live, TypeOK
<1>19. ASSUME NEW late \in SUBSET Job, init_scheduler(late) PROVE Runs'
  <2> DEFINE new == NextRun..(made + Cardinality(late))
  <2>1. Cardinality(late) \in Nat
    BY LateCounted
  <2>2. ASSUME NEW s \in Run PROVE s \in new => run'[s].pc = "stamp"
    BY <1>19 DEF init_scheduler
  <2>3. ASSUME NEW s \in Run PROVE s \notin new => run'[s] = run[s]
    BY <1>19 DEF init_scheduler
  <2>4. \A s \in Run : s \in new <=> s > made /\ ~(s > made')
    BY <1>19, <2>1 DEF init_scheduler, NextRun, TypeOK
  <2>5. ~up /\ up' /\ busy' = busy /\ row' = [s \in Run |-> IF row[s] = "running" THEN "closed" ELSE row[s]]
    BY <1>19 DEF init_scheduler
  <2>6. made' \in Nat /\ made' >= made /\ made \in Nat
    BY <1>19, <2>1 DEF init_scheduler, TypeOK
  <2> HIDE DEF new
  <2>7. \A s \in Run : run[s].pc \in {"unused", "over"}
    BY <2>5, <1>0 DEF Runs, DownIsDead, Live
  <2>8. Numbered'
    BY <2>2, <2>3, <2>4, <2>6, <2>7 DEF Runs, Numbered
  <2>9. Unbegun'
    BY <2>2, <2>3, <2>4, <2>5, <2>6, <2>7 DEF Runs, Numbered, Unbegun, TypeOK
  <2>10. \A s \in Run : ~(run'[s].pc \in {"body", "cancel"})
    BY <2>2, <2>3, <2>7
  <2>11. Registered' /\ Owned' /\ Leased' /\ DownIsDead'
    BY <2>5, <2>10 DEF Runs, DownIsDead, Registered, Owned, Leased, InBody, TypeOK
  <2> QED
    BY <2>8, <2>9, <2>11 DEF Runs
<1> QED
  <2>1. ASSUME NEW j \in Job, toggle_cron_job(j) PROVE Runs'
    BY <2>1, <1>3 DEF toggle_cron_job
  <2>2. ASSUME NEW j \in Job, NEW sch \in Schedule, NEW enabled \in BOOLEAN,
               NEW moved \in BOOLEAN, _apply_job_update(j, sch, enabled, moved)
        PROVE Runs'
    BY <2>2, <1>3 DEF _apply_job_update
  <2> QED
    BY <1>1, <1>2, <1>4, <1>5, <1>6, <1>7, <1>8, <1>9, <1>10, <1>11, <1>12, <1>13, <1>14, <1>15,
       <1>16, <1>17, <1>18, <1>19, <2>1, <2>2 DEF Next
-----------------------------------------------------------------------------
(* The first state. *)
LEMMA InitHolds == Init => TypeOK /\ Runs
<1> SUFFICES ASSUME Init PROVE TypeOK /\ Runs
  OBVIOUS
<1>1. job \in [Job -> JobRecord]
  BY NewJobTyped DEF Init
<1>2. clock \in [Job -> 0..MaxInstants] /\ made \in 0..MaxRuns /\ changes \in 0..MaxChanges
      /\ crashes \in 0..MaxCrashes
  BY Bounds DEF Init
<1>3. op \in [Who -> Change]
  BY DEF Init, Idle, Change
<1>4. run \in [Run -> RunRecord] /\ row \in [Run -> {"none", "running", "closed", "purged"}]
      /\ busy \in [Job -> Run \cup {NoRun}]
  BY DEF Init, RunRecord
<1>5. TypeOK
  BY <1>1, <1>2, <1>3, <1>4 DEF Init, TypeOK
<1>6. \A r \in Run : run[r].pc = "unused" /\ row[r] = "none"
  BY DEF Init, Unused
<1>7. Numbered
  BY <1>6 DEF Init, Numbered, Run
<1>8. Unbegun /\ Registered /\ Owned /\ Leased /\ DownIsDead
  BY <1>6 DEF Init, Unbegun, Registered, Owned, Leased, DownIsDead, InBody
<1> QED
  BY <1>5, <1>7, <1>8 DEF Runs

(* In every reachable state each variable has its type: in particular a    *)
(* stamp never puts last_run beyond the instants that have come, and the   *)
(* registry only ever names runs of the scheduler.                         *)
THEOREM TypeCorrect == Spec => []TypeOK
<1>1. Init => TypeOK /\ Runs
  BY InitHolds
<1>2. TypeOK /\ Runs /\ [Next]_vars => (TypeOK /\ Runs)'
  BY TypeKept, RunsKept DEF Runs
<1> QED
  BY <1>1, <1>2, PTL DEF Spec

(* A lease that says "running" belongs to a run in its body, and the       *)
(* registry a Stop goes through names exactly the runs in their body.      *)
THEOREM LeasesTruthful == Spec => []LeaseTruthful
<1>1. Init => TypeOK /\ Runs
  BY InitHolds
<1>2. TypeOK /\ Runs /\ [Next]_vars => (TypeOK /\ Runs)'
  BY TypeKept, RunsKept DEF Runs
<1>3. TypeOK /\ Runs => LeaseTruthful
  <2> SUFFICES ASSUME TypeOK, Runs, up, NEW r \in Run
               PROVE /\ row[r] = "running" => InBody(r)
                     /\ run[r].pc # "unused" => (InBody(r) <=> busy[run[r].job] = r)
    BY DEF LeaseTruthful
  <2>1. row[r] = "running" => InBody(r)
    BY DEF Runs, Leased
  <2>2. ASSUME run[r].pc # "unused", busy[run[r].job] = r PROVE InBody(r)
    <3>1. run[r].job \in Job
      BY <2>2 DEF TypeOK, RunRecord, Started, Unused
    <3>2. r # NoRun
      BY DEF Run, NoRun
    <3> QED
      BY <2>2, <3>1, <3>2 DEF Runs, Registered
  <2>3. InBody(r) => busy[run[r].job] = r
    BY DEF Runs, Owned
  <2> QED
    BY <2>1, <2>2, <2>3
<1> QED
  BY <1>1, <1>2, <1>3, PTL DEF Spec
-----------------------------------------------------------------------------
(* One execution of an instant.                                            *)

(* Past its stamp, the last_run of the job covers the instant of the run.  *)
Marked(r) == Began(r) \/ run[r].pc \in {"stamped", "spawned", "begin", "body", "cancel"}

(* A run that has opened its lease or still may. *)
Could(r) == Began(r) \/ Live(r)

(* A run is for an instant that has come... *)
Come == \A r \in Run : run[r].pc # "unused" => run[r].inst <= clock[run[r].job]

(* ...and last_run, once stamped, is not behind it until an update resets it. *)
Stamped ==
    \A r \in Run : Marked(r) => \/ job[run[r].job].last = 0
                                \/ job[run[r].job].last >= run[r].inst

(* No two of the runs that count are for the same instant. *)
OneEach ==
    \A r, s \in Run : Could(r) /\ Could(s) /\ run[r].job = run[s].job /\ run[r].inst = run[s].inst
                        /\ run[r].inst # 0 => r = s

Once == Come /\ Stamped /\ OneEach

(* A step that gives no run a new instant and brings no run forward keeps  *)
(* all of it, as long as last_run stays or is reset.                       *)
LEMMA OnceUntouched ==
    ASSUME TypeOK, Runs, Once, clock' = clock,
           \A j \in Job : job'[j].last \in {0, job[j].last},
           \A r \in Run : /\ run'[r].pc = "unused" <=> run[r].pc = "unused"
                          /\ run'[r].job = run[r].job /\ run'[r].inst = run[r].inst
                          /\ Marked(r)' => Marked(r)
                          /\ Could(r)' => Could(r)
    PROVE Once'
<1>1. \A r \in Run : run[r].pc # "unused" => run[r].job \in Job
  BY DEF TypeOK, RunRecord, Started, Unused
<1>2. \A r \in Run : Marked(r) => run[r].pc # "unused"
  BY DEF Marked, Began, Runs, Unbegun
<1>3. Come'
  BY DEF Once, Come
<1>4. Stamped'
  <2> SUFFICES ASSUME NEW r \in Run, Marked(r)'
               PROVE job'[run[r].job].last = 0 \/ job'[run[r].job].last >= run[r].inst
    BY DEF Stamped
  <2>1. Marked(r) /\ run[r].job \in Job
    BY <1>1, <1>2
  <2> QED
    BY <2>1 DEF Once, Stamped
<1>5. OneEach'
  BY DEF Once, OneEach
<1> QED
  BY <1>3, <1>4, <1>5 DEF Once

(* What a step changes in a run that has started. *)
LEMMA OnceKept == TypeOK /\ Runs /\ Once /\ [Next]_vars => Once'
<1> SUFFICES ASSUME TypeOK, Runs, Once, [Next]_vars PROVE Once'
  OBVIOUS
<1> USE DEF Run, NoRun
<1>0. \A r \in Run : run[r].pc # "unused" => run[r] \in Started /\ run[r].job \in Job
  BY DEF TypeOK, RunRecord, Started, Unused
<1>1. ASSUME UNCHANGED <<clock, run, row>>, \A j \in Job : job'[j].last \in {0, job[j].last}
      PROVE Once'
  BY <1>1, OnceUntouched DEF Marked, Could, Began, Live
<1>2. ASSUME NEW r \in Run, run[r].pc # "unused", UNCHANGED <<clock, job>>,
             \A s \in Run \ {r} : run'[s] = run[s],
             run'[r].job = run[r].job, run'[r].inst = run[r].inst, run'[r].pc # "unused",
             Marked(r)' => Marked(r), Could(r)' => Could(r),
             \A s \in Run : s # r => (Began(s)' => Began(s))
      PROVE Once'
  BY <1>2, OnceUntouched DEF Marked, Could, Live
<1>3. CASE UNCHANGED vars
  BY <1>1, <1>3 DEF vars
<1>4. ASSUME NEW j \in Job, NEW sch \in Schedule, _create_job(j, sch) PROVE Once'
  <2>1. \A k \in Job : job'[k].last \in {0, job[k].last}
    BY <1>4 DEF _create_job, NewJob, TypeOK
  <2> QED
    BY <1>1, <1>4, <2>1 DEF _create_job
<1>5. ASSUME NEW j \in Job, toggle_cron_job(j) PROVE Once'
  <2>1. \A k \in Job : job'[k].last \in {0, job[k].last}
    BY <1>5 DEF toggle_cron_job, change, JobRecord, TypeOK
  <2> QED
    BY <1>1, <1>5, <2>1 DEF toggle_cron_job, change
<1>6. ASSUME NEW j \in Job, NEW sch \in Schedule, NEW enabled \in BOOLEAN, NEW moved \in BOOLEAN,
             _apply_job_update(j, sch, enabled, moved)
      PROVE Once'
  <2>1. \A k \in Job : job'[k].last \in {0, job[k].last}
    BY <1>6 DEF _apply_job_update, change, JobRecord, TypeOK
  <2> QED
    BY <1>1, <1>6, <2>1 DEF _apply_job_update, change
<1>7. ASSUME NEW j \in Job, NEW w \in Who, _delete_jobs(w, j) PROVE Once'
  <2>1. \A k \in Job : job'[k].last \in {0, job[k].last}
    BY <1>7 DEF _delete_jobs, NewJob, TypeOK
  <2> QED
    BY <1>1, <1>7, <2>1 DEF _delete_jobs
<1>8. CASE _orphan
  <2>1. \A k \in Job : job'[k].last \in {0, job[k].last}
    BY <1>8 DEF _orphan, JobRecord, TypeOK
  <2> QED
    BY <1>1, <1>8, <2>1 DEF _orphan
<1>9. ASSUME NEW w \in Who, NEW j \in Job, reschedule(w, j) PROVE Once'
  BY <1>1, <1>9 DEF reschedule
<1>10. CASE _delete_session_sync
  BY <1>1, <1>10 DEF _delete_session_sync
<1>11. ASSUME NEW w \in Who, delete_job_runs(w) PROVE Once'
  <2>1. \A r \in Run : row'[r] # "none" <=> row[r] # "none"
    BY <1>11 DEF delete_job_runs
  <2> QED
    BY <1>11, <2>1, OnceUntouched DEF delete_job_runs, Marked, Could, Began, Live
<1>12. ASSUME NEW r \in Run, append_message(r) PROVE Once'
  BY <1>1, <1>12 DEF append_message
<1>13. ASSUME NEW j \in Job, stop_cron_job(j) PROVE Once'
  <2> DEFINE b == busy[j]
  <2>1. b \in Run /\ run[b].pc \in {"body", "cancel"} /\ run[b] \in Started
    BY <1>13, <1>0 DEF stop_cron_job, Runs, Registered, InBody, TypeOK
  <2>2. run'[b].pc = "cancel" /\ run'[b].job = run[b].job /\ run'[b].inst = run[b].inst
        /\ \A s \in Run \ {b} : run'[s] = run[s]
    BY <1>13, <2>1 DEF stop_cron_job, Started, TypeOK
  <2>3. UNCHANGED <<clock, job, row>>
    BY <1>13 DEF stop_cron_job
  <2> HIDE DEF b
  <2> QED
    BY <1>2, <2>1, <2>2, <2>3 DEF Marked, Could, Began, Live
<1>14. ASSUME NEW r \in Run, _spawn_cron_run(r) PROVE Once'
  <2>1. /\ run[r].pc = "stamped" /\ run'[r].pc = "spawned" /\ run'[r].job = run[r].job
        /\ run'[r].inst = run[r].inst
        /\ \A s \in Run \ {r} : run'[s] = run[s]
    BY <1>0, <1>14 DEF _spawn_cron_run, Started, TypeOK
  <2> QED
    BY <1>2, <1>14, <2>1 DEF _spawn_cron_run, Marked, Could, Began, Live
<1>15. ASSUME NEW r \in Run, load_cron_jobs(r) PROVE Once'
  <2>1. run[r].pc = "spawned" /\ run[r] \in Started
    BY <1>0, <1>15 DEF load_cron_jobs
  <2>2. /\ run'[r].pc \in {"begin", "over"} /\ run'[r].job = run[r].job
        /\ run'[r].inst = run[r].inst
        /\ \A s \in Run \ {r} : run'[s] = run[s]
    BY <1>15, <2>1, OverFacts DEF load_cron_jobs, Started, TypeOK
  <2> QED
    BY <1>2, <1>15, <2>1, <2>2 DEF load_cron_jobs, Marked, Could, Began, Live
<1>16. ASSUME NEW r \in Run, start_run(r) PROVE Once'
  <2>1. run[r].pc = "begin" /\ run[r] \in Started
    BY <1>0, <1>16 DEF start_run
  <2>2. /\ run'[r].pc \in {"body", "over"} /\ run'[r].job = run[r].job
        /\ run'[r].inst = run[r].inst
        /\ \A s \in Run \ {r} : run'[s] = run[s] /\ row'[s] = row[s]
    <3>1. CASE run' = [run EXCEPT ![r] = Over(r)] /\ row' = row
      BY <2>1, <3>1, OverFacts DEF TypeOK
    <3>2. CASE run' = [run EXCEPT ![r].pc = "body"] /\ row' = [row EXCEPT ![r] = "running"]
      BY <2>1, <3>2 DEF Started, TypeOK
    <3> QED
      BY <1>16, <3>1, <3>2 DEF start_run
  <2> QED
    BY <1>2, <1>16, <2>1, <2>2 DEF start_run, Marked, Could, Began, Live
<1>17. ASSUME NEW r \in Run, _push_result(r) PROVE Once'
  <2>1. run[r].pc \in {"body", "cancel"} /\ run[r] \in Started
    BY <1>0, <1>17 DEF _push_result, InBody
  <2>2. /\ run'[r].pc = "over" /\ run'[r].job = run[r].job
        /\ run'[r].inst = run[r].inst
        /\ \A s \in Run \ {r} : run'[s] = run[s] /\ row'[s] = row[s]
    BY <1>17, <2>1, OverFacts DEF _push_result, TypeOK
  <2> QED
    BY <1>2, <1>17, <2>1, <2>2 DEF _push_result, Marked, Could, Began, Live
<1>18. CASE Crash
  <2>1. \A s \in Run : /\ run'[s].pc = "unused" <=> run[s].pc = "unused"
                       /\ run'[s].job = run[s].job /\ run'[s].inst = run[s].inst
                       /\ run'[s].pc \in {"over", "unused"}
    BY <1>0, <1>18, OverFacts DEF Crash, Live
  <2> QED
    BY <1>18, <2>1, OnceUntouched DEF Crash, Marked, Could, Began, Live
<1>19. ASSUME NEW r \in Run, _mark(r) PROVE Once'
  <2>1. run[r].pc = "stamp" /\ run[r] \in Started /\ run[r].job \in Job
    BY <1>0, <1>19 DEF _mark
  <2>2. /\ run'[r].pc \in {"stamped", "over"} /\ run'[r].job = run[r].job
        /\ run'[r].inst = run[r].inst
        /\ \A s \in Run \ {r} : run'[s] = run[s]
    BY <1>19, <2>1, OverFacts DEF _mark, Started, TypeOK
  <2>3. CASE ~Stored(run[r].job)
    <3>1. UNCHANGED <<clock, job, row>> /\ run'[r].pc = "over"
      BY <1>19, <2>1, <2>3, OverFacts DEF _mark, TypeOK
    <3> QED
      BY <1>2, <2>1, <2>2, <3>1 DEF Marked, Could, Began, Live
  <2>4. CASE Stored(run[r].job)
    <3> DEFINE j == run[r].job
    <3>1. UNCHANGED <<clock, row>> /\ run'[r].pc = "stamped"
      BY <1>19, <2>1, <2>4 DEF _mark, Started, TypeOK
    <3>2. job'[j].last = clock[j] /\ \A k \in Job \ {j} : job'[k] = job[k]
      <4>1. job' = [job EXCEPT ![j].last = clock[j],
                               ![j].enabled = job[j].enabled /\ job[j].sch \notin At,
                               ![j].fired = job[j].fired \/ job[j].sch \in At]
        BY <1>19, <2>4 DEF _mark
      <4>2. /\ DOMAIN job = Job /\ j \in Job
            /\ DOMAIN job[j] = {"state", "sch", "enabled", "fired", "last", "here"}
        BY <2>1 DEF TypeOK, JobRecord
      <4> HIDE DEF j
      <4> QED
        BY <4>1, <4>2
    <3>3. \A s \in Run : /\ run'[s].pc # "unused" <=> run[s].pc # "unused"
                         /\ run'[s].job = run[s].job /\ run'[s].inst = run[s].inst
      BY <2>1, <2>2
    <3>4. \A s \in Run : run[s].pc # "unused" => run[s].inst \in Nat /\ clock[run[s].job] \in Nat
      BY <1>0, Bounds DEF Started, TypeOK
    <3>5. Come'
      BY <3>1, <3>3 DEF Once, Come
    <3>6. Stamped'
      <4> SUFFICES ASSUME NEW s \in Run, Marked(s)'
                   PROVE job'[run[s].job].last = 0 \/ job'[run[s].job].last >= run[s].inst
        BY <3>3 DEF Stamped
      <4>1. run[s].pc # "unused"
        BY <2>2, <3>1, <3>3 DEF Marked, Began, Runs, Unbegun
      <4>2. CASE run[s].job = j
        BY <3>2, <3>4, <4>1, <4>2 DEF Once, Come
      <4>3. CASE run[s].job # j
        <5>1. s # r /\ Marked(s)
          BY <2>2, <3>1, <4>3 DEF Marked, Began
        <5> QED
          BY <1>0, <3>2, <4>1, <4>3, <5>1 DEF Once, Stamped
      <4> QED
        BY <4>2, <4>3
    <3>7. OneEach'
      <4>1. \A s \in Run : Could(s)' => Could(s)
        BY <2>1, <2>2, <3>1 DEF Could, Began, Live
      <4> QED
        BY <3>3, <4>1 DEF Once, OneEach
    <3> QED
      BY <3>5, <3>6, <3>7 DEF Once
  <2> QED
    BY <2>3, <2>4
<1>20. ASSUME NEW j \in Job, run_job_now(j) PROVE Once'
  <2>1. /\ run'[NextRun] = [pc |-> "spawned", job |-> j, inst |-> 0, trig |-> FALSE, here |-> TRUE]
        /\ NextRun \in Run
        /\ UNCHANGED <<clock, job, row>>
        /\ \A s \in Run \ {NextRun} : run'[s] = run[s]
    BY <1>20 DEF run_job_now, TypeOK
  <2>2. \A k \in Job : clock[k] \in Nat /\ job[k].last \in Nat
    BY Bounds DEF JobRecord, TypeOK
  <2>3. Come' /\ Stamped'
    BY <2>1, <2>2 DEF Once, Come, Stamped, Marked, Began
  <2>4. OneEach'
    BY <2>1 DEF Once, OneEach, Could, Began, Live
  <2> QED
    BY <2>3, <2>4 DEF Once
<1>21. ASSUME NEW j \in Job, instant(j) PROVE Once'
  <2>1. UNCHANGED <<job, row>> /\ clock' = [clock EXCEPT ![j] = @ + 1]
    BY <1>21 DEF instant
  <2>2. \A k \in Job : clock[k] \in Nat /\ clock'[k] \in Nat /\ clock[k] <= clock'[k]
                       /\ job[k].last \in Nat
    BY <2>1, Bounds DEF JobRecord, TypeOK
  <2>3. \A s \in Run : run[s].pc # "unused" => run[s].inst \in Nat
    BY <1>0, Bounds DEF Started
  <2>4. CASE run' = run
    <3>1. Come'
      BY <1>0, <2>2, <2>3, <2>4 DEF Once, Come
    <3>2. Stamped' /\ OneEach'
      BY <2>1, <2>4 DEF Once, Stamped, OneEach, Marked, Could, Began, Live
    <3> QED
      BY <3>1, <3>2 DEF Once
  <2>5. CASE run' # run
    <3>1. /\ NextRun \in Run /\ run'[NextRun].pc = "stamp" /\ run'[NextRun].job = j
          /\ run'[NextRun].inst = clock[j] + 1
          /\ \A s \in Run \ {NextRun} : run'[s] = run[s]
      <4>1. j \in armed /\ ~\E r \in Run : run[r].job = j /\ run[r].trig
                                           /\ run[r].pc \in {"stamp", "stamped"}
        BY <1>21, <2>5 DEF instant, TypeOK
      <4>2. NextRun \in Run
        BY <1>21, <4>1 DEF instant
      <4>3. \A s \in Run : run'[s] = IF s = NextRun
                                     THEN [pc |-> "stamp", job |-> j, inst |-> clock[j] + 1,
                                           trig |-> TRUE, here |-> TRUE]
                                     ELSE run[s]
        BY <1>21, <4>1 DEF instant
      <4> QED
        BY <4>2, <4>3
    <3>2. run[NextRun].pc = "unused"
      <4>1. made \in Nat
        BY Bounds DEF TypeOK
      <4> QED
        BY <3>1, <4>1 DEF Runs, Numbered, NextRun
    <3>3. row[NextRun] = "none"
      BY <3>1, <3>2 DEF Runs, Unbegun
    <3>4. Come'
      <4> SUFFICES ASSUME NEW s \in Run, run'[s].pc # "unused"
                   PROVE run'[s].inst <= clock'[run'[s].job]
        BY DEF Come
      <4>1. CASE s = NextRun
        BY <2>1, <2>2, <3>1, <4>1 DEF TypeOK
      <4>2. CASE s # NextRun
        BY <1>0, <2>2, <2>3, <3>1, <4>2 DEF Once, Come
      <4> QED
        BY <4>1, <4>2
    <3>5. Stamped'
      BY <2>1, <3>1, <3>3 DEF Once, Stamped, Marked, Began
    <3>6. \A s \in Run \ {NextRun} : Could(s) /\ run[s].job = j => run[s].inst # clock[j] + 1
      <4> SUFFICES ASSUME NEW s \in Run, Could(s), run[s].job = j PROVE run[s].inst # clock[j] + 1
        OBVIOUS
      <4>1. run[s].pc # "unused"
        BY DEF Could, Began, Live, Runs, Unbegun
      <4> QED
        BY <2>2, <2>3, <4>1 DEF Once, Come
    <3>7. OneEach'
      BY <2>1, <3>1, <3>6 DEF Once, OneEach, Could, Began, Live
    <3> QED
      BY <3>4, <3>5, <3>7 DEF Once
  <2> QED
    BY <2>4, <2>5
<1>22. ASSUME NEW late \in SUBSET Job, init_scheduler(late) PROVE Once'
  <2> DEFINE new == NextRun..(made + Cardinality(late))
  <2>1. PICK of \in [new -> late] :
          /\ \A r, s \in new : of[r] = of[s] => r = s
          /\ run' = [r \in Run |->
                        IF r \in new
                        THEN [pc |-> "stamp", job |-> of[r], inst |-> clock[of[r]],
                              trig |-> FALSE, here |-> TRUE]
                        ELSE run[r]]
    BY <1>22 DEF init_scheduler
  <2>2. /\ ~up /\ new \subseteq Run /\ UNCHANGED <<clock, job>>
        /\ \A j \in late : j \in Job /\ job[j].last # 0 /\ job[j].last < clock[j]
    BY <1>22 DEF init_scheduler, CatchUpDue
  <2>3. \A r \in Run : row'[r] = "none" <=> row[r] = "none"
    BY <1>22 DEF init_scheduler
  <2>4. \A r \in new : run[r].pc = "unused"
    BY <2>2, LateCounted DEF Runs, Numbered, NextRun, TypeOK
  <2>5. \A r \in Run \ new : run'[r] = run[r]
    BY <2>1
  <2>6. \A r \in new : /\ run'[r].pc = "stamp" /\ run'[r].job = of[r] /\ of[r] \in late
                       /\ run'[r].inst = clock[of[r]]
    BY <2>1, <2>2
  <2>7. \A r \in Run : run[r].pc \in {"unused", "over"}
    BY <1>0, <2>2 DEF Runs, DownIsDead, Live
  <2>8. \A k \in Job : clock[k] \in Nat
    BY Bounds DEF TypeOK
  <2> HIDE DEF new
  <2>9. Come'
    BY <2>2, <2>5, <2>6, <2>8 DEF Once, Come
  <2>10. \A r \in Run : Marked(r)' => r \notin new /\ Marked(r)
    BY <2>3, <2>4, <2>5, <2>6 DEF Marked, Began, Runs, Unbegun
  <2>11. Stamped'
    BY <2>2, <2>5, <2>10 DEF Once, Stamped
  <2>12. \A r \in Run \ new : Could(r)' => Began(r) /\ Could(r)
    BY <2>3, <2>5, <2>7 DEF Could, Began, Live
  <2>13. ASSUME NEW r \in new, NEW s \in Run \ new, Began(s), run[s].job = of[r]
         PROVE run[s].inst # clock[of[r]]
    <3>1. job[of[r]].last # 0 /\ job[of[r]].last < clock[of[r]] /\ of[r] \in Job
      BY <2>2, <2>6
    <3>2. job[of[r]].last >= run[s].inst
      BY <2>13, <3>1 DEF Once, Stamped, Marked
    <3>3. run[s].pc # "unused"
      BY <2>13 DEF Began, Runs, Unbegun
    <3>4. run[s].inst \in Nat /\ job[of[r]].last \in Nat
      BY <1>0, <3>1, <3>3, Bounds DEF Started, JobRecord, TypeOK
    <3> QED
      BY <2>8, <3>1, <3>2, <3>4
  <2>14. ASSUME NEW r \in Run, NEW s \in Run, Could(r)', Could(s)', run'[r].job = run'[s].job,
                run'[r].inst = run'[s].inst, run'[r].inst # 0
         PROVE r = s
    <3>1. CASE r \in new /\ s \in new
      BY <2>1, <2>6, <2>14, <3>1
    <3>2. CASE r \in new /\ s \notin new
      BY <2>5, <2>6, <2>12, <2>13, <2>14, <3>2
    <3>3. CASE r \notin new /\ s \in new
      BY <2>5, <2>6, <2>12, <2>13, <2>14, <3>3
    <3>4. CASE r \notin new /\ s \notin new
      BY <2>5, <2>12, <2>14, <3>4 DEF Once, OneEach
    <3> QED
      BY <3>1, <3>2, <3>3, <3>4
  <2>15. OneEach'
    BY <2>14 DEF OneEach
  <2> QED
    BY <2>9, <2>11, <2>15 DEF Once
<1> QED
  BY <1>3, <1>4, <1>5, <1>6, <1>7, <1>8, <1>9, <1>10, <1>11, <1>12, <1>13, <1>14, <1>15, <1>16,
     <1>17, <1>18, <1>19, <1>20, <1>21, <1>22 DEF Next

(* A due instant of a job is executed at most once: the stamp of a run     *)
(* covers its instant before the run may begin, and only an update, which  *)
(* also takes the job out of the catch-up, takes the stamp back.           *)
THEOREM ExecutedOnce == Spec => []OncePerInstant
<1>1. Init => TypeOK /\ Runs /\ Once
  <2>1. Init => Once
    <3> SUFFICES ASSUME Init PROVE Once
      OBVIOUS
    <3>1. \A r \in Run : run[r].pc = "unused" /\ run[r].inst = 0 /\ row[r] = "none"
      BY DEF Init, Unused
    <3>2. \A r \in Run : ~Marked(r)
      BY <3>1 DEF Marked, Began
    <3> QED
      BY <3>1, <3>2 DEF Once, Come, Stamped, OneEach
  <2> QED
    BY <2>1, InitHolds
<1>2. TypeOK /\ Runs /\ Once /\ [Next]_vars => (TypeOK /\ Runs /\ Once)'
  BY TypeKept, RunsKept, OnceKept DEF Runs
<1>3. Once => OncePerInstant
  BY DEF Once, OneEach, OncePerInstant, Could
<1> QED
  BY <1>1, <1>2, <1>3, PTL DEF Spec

-----------------------------------------------------------------------------
(* The triggers follow the file.                                           *)

(* A job the scheduler may hold a trigger of. *)
Wanted(j) == Stored(j) /\ Then(j, job[j]).step = "arm"
Spared(j) == Stored(j) /\ (job[j].enabled \/ job[j].fired)

(* What a change says of the job whose trigger has to follow it.           *)
Settles(o, j) ==
    /\ j \in o.jobs
    /\ \/ o.step = "arm" /\ Spared(j)
       \/ o.step = "unarm" /\ ~Wanted(j)
       \/ o.step = "drop" /\ o.jobs = {j} /\ ~Stored(j)

(* The change a trigger has to follow is under way, and it still knows     *)
(* what the file says: no later one has written it.                        *)
Followed == \A j \in Job : behind[j] \in Who => Settles(op[behind[j]], j)

(* Nothing cascades while the session is open. *)
Standing == session = "open" => op["cascade"] = Idle

Armament == Followed /\ Standing /\ TriggersFollow

(* A step that leaves the jobs, the triggers and the changes alone. *)
LEMMA ArmamentUntouched ==
    ASSUME Armament, UNCHANGED <<up, clock, job, armed, op, behind>>,
           session' = "open" => session = "open"
    PROVE Armament'
<1>1. Followed'
  BY DEF Armament, Followed, Settles, Wanted, Spared, Stored, Then
<1>2. Standing'
  BY DEF Armament, Standing
<1>3. TriggersFollow'
  BY DEF Armament, TriggersFollow, Stored, Then, Armable, Past
<1> QED
  BY <1>1, <1>2, <1>3 DEF Armament

(* A change of the file keeps what the others know of the jobs that it     *)
(* leaves alone.                                                           *)
LEMMA OthersFollow ==
    ASSUME Armament, NEW changed \in SUBSET Job, NEW w \in Who,
           UNCHANGED <<up, clock, armed, session>>,
           w = "cascade" => session # "open",
           \A k \in Job \ changed : job'[k] = job[k] /\ behind'[k] = behind[k] /\ behind[k] # w,
           \A v \in Who \ {w} : op'[v] = op[v],
           \A k \in changed : behind'[k] = w /\ Settles(op[w], k)'
    PROVE Armament'
<1>1. w # "none"
  BY DEF Who
<1>2. Followed'
  <2> SUFFICES ASSUME NEW k \in Job, behind'[k] \in Who PROVE Settles(op[behind[k]], k)'
    BY DEF Followed
  <2>1. CASE k \in changed
    BY <2>1 DEF Settles, Wanted, Spared, Stored, Then
  <2>2. CASE k \notin changed
    <3>1. behind'[k] = behind[k] /\ behind[k] \in Who \ {w} /\ job'[k] = job[k]
      BY <2>2
    <3>2. op'[behind[k]] = op[behind[k]] /\ Settles(op[behind[k]], k)
      BY <3>1 DEF Armament, Followed
    <3> QED
      BY <3>1, <3>2 DEF Settles, Wanted, Spared, Stored, Then
  <2> QED
    BY <2>1, <2>2
<1>3. TriggersFollow'
  <2> SUFFICES ASSUME NEW k \in Job, up', behind'[k] = "none"
               PROVE /\ (Stored(k) /\ Then(k, job[k]).step = "arm" /\ Armable(k))' => k \in armed'
                     /\ k \in armed' => (/\ Stored(k) /\ Armable(k)
                                         /\ (job[k].enabled \/ job[k].fired))'
    BY DEF TriggersFollow
  <2>1. k \notin changed
    BY <1>1
  <2>2. behind[k] = "none" /\ job'[k] = job[k] /\ up
    BY <2>1
  <2> QED
    BY <2>2 DEF Armament, TriggersFollow, Stored, Then, Armable, Past
<1>4. Standing'
  BY DEF Armament, Standing, Who
<1> QED
  BY <1>2, <1>3, <1>4 DEF Armament

(* A change of one job in the file, by one that had nothing under way.     *)
LEMMA ArmamentChanged ==
    ASSUME TypeOK, Armament, NEW j \in Job, NEW w \in {"loop", "tool"}, NEW record, NEW step,
           op[w] = Idle, UNCHANGED <<up, clock, armed, session>>,
           job' = [job EXCEPT ![j] = record],
           op' = [op EXCEPT ![w] = [step |-> step, jobs |-> {j}]],
           behind' = [behind EXCEPT ![j] = w],
           \/ step = "drop" /\ record.state = "deleted"
           \/ step = "arm" /\ record.state = "stored" /\ (record.enabled \/ record.fired)
           \/ step = "unarm" /\ Then(j, record).step # "arm"
    PROVE Armament'
<1>1. /\ op'[w] = [step |-> step, jobs |-> {j}] /\ op[w].jobs = {}
      /\ \A v \in Who \ {w} : op'[v] = op[v]
      /\ w \in Who
  BY DEF Idle, Who, TypeOK
<1>2. /\ job'[j] = record /\ behind'[j] = w
      /\ \A k \in Job \ {j} : job'[k] = job[k] /\ behind'[k] = behind[k]
  BY DEF TypeOK
<1>3. \A k \in Job : behind[k] # w
  BY <1>1 DEF Armament, Followed, Settles
<1>4. \A k \in {j} : behind'[k] = w /\ Settles(op[w], k)'
  BY <1>1, <1>2 DEF Settles, Wanted, Spared, Stored, Then
<1>5. /\ {j} \in SUBSET Job /\ (w = "cascade" => session # "open")
      /\ \A k \in Job \ {j} : job'[k] = job[k] /\ behind'[k] = behind[k] /\ behind[k] # w
  BY <1>2, <1>3
<1> QED
  BY ONLY Armament, UNCHANGED <<up, clock, armed, session>>, <1>1, <1>4, <1>5, OthersFollow

(* Every step keeps the triggers with the file.                            *)
LEMMA ArmamentKept == TypeOK /\ Armament /\ [Next]_vars => Armament'
<1> SUFFICES ASSUME TypeOK, Armament, [Next]_vars PROVE Armament'
  OBVIOUS
<1>1. CASE UNCHANGED vars
  BY <1>1, ArmamentUntouched DEF vars
<1>2. ASSUME NEW j \in Job, NEW record, LoopFree, UNCHANGED <<up, clock, armed, session>>,
             record.state = "stored", job' = [job EXCEPT ![j] = record],
             op' = [op EXCEPT !["loop"] = Then(j, record)],
             behind' = [behind EXCEPT ![j] = "loop"]
      PROVE Armament'
  <2>1. /\ Then(j, record) = [step |-> Then(j, record).step, jobs |-> {j}]
        /\ Then(j, record).step \in {"arm", "unarm"}
        /\ Then(j, record).step = "arm" => record.enabled
    BY DEF Then
  <2>2. op' = [op EXCEPT !["loop"] = [step |-> Then(j, record).step, jobs |-> {j}]]
    BY <1>2, <2>1
  <2>3. op["loop"] = Idle
    BY <1>2 DEF LoopFree
  <2> QED
    BY <1>2, <2>1, <2>2, <2>3, ArmamentChanged
<1>3. ASSUME NEW j \in Job, NEW sch \in Schedule, _create_job(j, sch) PROVE Armament'
  <2> DEFINE record == [NewJob EXCEPT !.state = "stored", !.sch = sch, !.enabled = TRUE]
  <2>1. record.state = "stored"
    BY DEF NewJob
  <2>2. /\ LoopFree /\ UNCHANGED <<up, clock, armed, session>> /\ job' = [job EXCEPT ![j] = record]
        /\ op' = [op EXCEPT !["loop"] = Then(j, record)]
        /\ behind' = [behind EXCEPT ![j] = "loop"]
    BY <1>3 DEF _create_job
  <2> HIDE DEF record
  <2> QED
    BY <1>2, <2>1, <2>2
<1>4. ASSUME NEW j \in Job, NEW record, change(j, record), record.state = job[j].state
      PROVE Armament'
  BY <1>2, <1>4 DEF change, Stored
<1>5. ASSUME NEW j \in Job, toggle_cron_job(j) PROVE Armament'
  BY <1>4, <1>5 DEF toggle_cron_job, JobRecord, TypeOK
<1>6. ASSUME NEW j \in Job, NEW sch \in Schedule, NEW enabled \in BOOLEAN, NEW moved \in BOOLEAN,
             _apply_job_update(j, sch, enabled, moved)
      PROVE Armament'
  <2> DEFINE kept == [job[j] EXCEPT !.enabled = enabled, !.here = @ /\ ~moved]
             reset == [kept EXCEPT !.sch = sch, !.last = 0, !.fired = FALSE]
  <2>1. kept.state = job[j].state /\ reset.state = job[j].state
    BY DEF JobRecord, TypeOK
  <2>2. change(j, IF sch = job[j].sch THEN kept ELSE reset)
    BY <1>6 DEF _apply_job_update
  <2> HIDE DEF kept, reset
  <2> QED
    BY <1>4, <2>1, <2>2
<1>7. ASSUME NEW j \in Job, NEW w \in Who, _delete_jobs(w, j) PROVE Armament'
  <2> DEFINE record == [NewJob EXCEPT !.state = "deleted", !.sch = job[j].sch]
  <2>1. /\ op[w] = Idle /\ w \in {"loop", "tool"} /\ UNCHANGED <<up, clock, armed, session>>
        /\ job' = [job EXCEPT ![j] = record]
        /\ op' = [op EXCEPT ![w] = [step |-> "drop", jobs |-> {j}]]
        /\ behind' = [behind EXCEPT ![j] = w]
    BY <1>7 DEF _delete_jobs
  <2>2. record.state = "deleted"
    BY DEF NewJob
  <2> HIDE DEF record
  <2> QED
    BY <2>1, <2>2, ArmamentChanged
<1>8. CASE _delete_session_sync
  <2>1. /\ UNCHANGED <<up, clock, job, armed, behind>> /\ session' # "open"
        /\ \A v \in Who \ {"cascade"} : op'[v] = op[v]
        /\ op["cascade"] = Idle
    BY <1>8 DEF _delete_session_sync, Armament, Standing, TypeOK
  <2>2. Followed'
    <3> SUFFICES ASSUME NEW j \in Job, behind'[j] \in Who PROVE Settles(op[behind[j]], j)'
      BY DEF Followed
    <3>1. behind'[j] = behind[j] /\ Settles(op[behind[j]], j)
      BY <2>1 DEF Armament, Followed
    <3>2. behind[j] # "cascade"
      BY <2>1, <3>1 DEF Settles, Idle
    <3> QED
      BY <2>1, <3>1, <3>2 DEF Settles, Wanted, Spared, Stored, Then
  <2>3. TriggersFollow'
    BY <2>1 DEF Armament, TriggersFollow, Stored, Then, Armable, Past
  <2> QED
    BY <2>1, <2>2, <2>3 DEF Armament, Standing
<1>9. CASE _orphan
  <2> DEFINE changed == {j \in Job : Stored(j) /\ job[j].here}
  <2>1. /\ session # "open" /\ op["cascade"].step = "orphan"
        /\ UNCHANGED <<up, clock, armed, session>>
        /\ \A v \in Who \ {"cascade"} : op'[v] = op[v]
        /\ changed # {} => op'["cascade"] = [step |-> "unarm", jobs |-> changed]
    <3>1. op["cascade"].step = "orphan" /\ UNCHANGED <<up, clock, armed, session>>
      BY <1>9 DEF _orphan
    <3>2. op' = [op EXCEPT !["cascade"] =
                    IF changed = {} THEN Idle ELSE [step |-> "unarm", jobs |-> changed]]
      BY <1>9 DEF _orphan
    <3> HIDE DEF changed
    <3>3. DOMAIN op = Who /\ "cascade" \in Who
      BY DEF TypeOK, Who
    <3>4. session # "open"
      BY <3>1 DEF Armament, Standing, Idle
    <3> QED
      BY <3>1, <3>2, <3>3, <3>4
  <2>2. /\ \A k \in Job \ changed : job'[k] = job[k] /\ behind'[k] = behind[k]
        /\ \A k \in changed : job'[k] = [job[k] EXCEPT !.enabled = FALSE] /\ behind'[k] = "cascade"
    BY <1>9 DEF _orphan
  <2>3. \A k \in changed : job'[k].enabled = FALSE
    <3>1. \A k \in changed : k \in Job /\ "enabled" \in DOMAIN job[k]
      BY DEF JobRecord, TypeOK
    <3> HIDE DEF changed
    <3> QED
      BY <2>2, <3>1
  <2>4. \A k \in Job : behind[k] # "cascade"
    BY <2>1 DEF Armament, Followed, Settles, Who
  <2>5. changed \in SUBSET Job /\ "cascade" \in Who
    BY DEF Who
  <2> HIDE DEF changed
  <2>6. \A k \in changed : behind'[k] = "cascade" /\ Settles(op["cascade"], k)'
    <3> SUFFICES ASSUME NEW k \in changed
                 PROVE behind'[k] = "cascade" /\ Settles(op["cascade"], k)'
      OBVIOUS
    <3>1. op'["cascade"].step = "unarm" /\ k \in op'["cascade"].jobs
      BY <2>1
    <3>2. ~Wanted(k)'
      BY <2>3 DEF Wanted, Then
    <3> QED
      BY <2>2, <3>1, <3>2 DEF Settles
  <2>7. \A k \in Job \ changed : /\ job'[k] = job[k] /\ behind'[k] = behind[k]
                                  /\ behind[k] # "cascade"
    BY <2>2, <2>4
  <2>8. session # "open" /\ UNCHANGED <<up, clock, armed, session>>
        /\ \A v \in Who \ {"cascade"} : op'[v] = op[v]
    BY <2>1
  <2> QED
    BY ONLY Armament, <2>5, <2>6, <2>7, <2>8, OthersFollow
<1>10. ASSUME NEW w \in Who, NEW j \in Job, reschedule(w, j) PROVE Armament'
  <2>1. /\ op[w].step \in {"arm", "unarm", "drop"} /\ j \in op[w].jobs
        /\ armed' = IF op[w].step = "arm" /\ Armable(j) THEN armed \cup {j} ELSE armed \ {j}
        /\ op' = [op EXCEPT ![w] = After(w, j)] /\ UNCHANGED <<up, clock, job, session>>
        /\ behind' = [behind EXCEPT ![j] = IF @ = w THEN "none"
                                           ELSE IF @ = "none" THEN "crossed" ELSE @]
    BY <1>10 DEF reschedule
  <2>2. op'[w] = After(w, j) /\ \A v \in Who \ {w} : op'[v] = op[v]
    BY <2>1 DEF TypeOK
  <2>3. /\ \A k \in Job \ {j} : behind'[k] = behind[k]
        /\ behind'[j] = IF behind[j] = w THEN "none"
                        ELSE IF behind[j] = "none" THEN "crossed" ELSE behind[j]
    BY <2>1 DEF TypeOK
  <2>4. Followed'
    <3> SUFFICES ASSUME NEW k \in Job, behind'[k] \in Who PROVE Settles(op[behind[k]], k)'
      BY DEF Followed
    <3>1. behind[k] = behind'[k] /\ (k = j => behind[k] # w)
      BY <2>3 DEF Who
    <3>2. Settles(op[behind[k]], k)
      BY <3>1 DEF Armament, Followed
    <3>3. CASE behind[k] # w
      <4>1. op'[behind[k]] = op[behind[k]]
        BY <2>2, <3>1, <3>3
      <4> QED
        BY <2>1, <3>1, <3>2, <4>1 DEF Settles, Wanted, Spared, Stored, Then
    <3>4. CASE behind[k] = w
      <4>1. k # j /\ k \in op[w].jobs /\ op[w].jobs # {j} /\ op[w].step # "drop"
        BY <2>1, <3>1, <3>2, <3>4 DEF Settles
      <4>2. op'[w] = [op[w] EXCEPT !.jobs = @ \ {j}]
        BY <2>2, <4>1 DEF After
      <4>3. op'[w].step = op[w].step /\ k \in op'[w].jobs
        BY <4>1, <4>2 DEF TypeOK, Change
      <4> QED
        BY <2>1, <3>1, <3>2, <3>4, <4>1, <4>3 DEF Settles, Wanted, Spared, Stored, Then
    <3> QED
      BY <3>3, <3>4
  <2>5. Standing'
    BY <2>1, <2>2 DEF Armament, Standing, Idle, Who
  <2>6. TriggersFollow'
    <3> SUFFICES ASSUME NEW k \in Job, up', behind'[k] = "none"
                 PROVE /\ (Stored(k) /\ Then(k, job[k]).step = "arm" /\ Armable(k))' => k \in armed'
                       /\ k \in armed' => (/\ Stored(k) /\ Armable(k)
                                           /\ (job[k].enabled \/ job[k].fired))'
      BY DEF TriggersFollow
    <3>1. up /\ UNCHANGED <<clock, job>>
      BY <2>1
    <3>2. CASE k # j
      <4>1. behind[k] = "none" /\ (k \in armed' <=> k \in armed)
        BY <2>1, <2>3, <3>2
      <4> QED
        BY <3>1, <4>1 DEF Armament, TriggersFollow, Stored, Then, Armable, Past
    <3>3. CASE k = j
      <4>1. behind[j] = w
        BY <2>3, <3>3
      <4>2. Settles(op[w], j)
        BY <4>1 DEF Armament, Followed
      <4>3. CASE op[w].step = "arm"
        <5>1. Spared(j) /\ (j \in armed' <=> Armable(j))
          BY <2>1, <4>2, <4>3 DEF Settles
        <5> QED
          BY <3>1, <3>3, <5>1 DEF Spared, Stored, Then, Armable, Past
      <4>4. CASE op[w].step # "arm"
        <5>1. ~Wanted(j) /\ j \notin armed'
          BY <2>1, <4>2, <4>4 DEF Settles, Wanted
        <5> QED
          BY <3>1, <3>3, <5>1 DEF Wanted, Stored, Then
      <4> QED
        BY <4>3, <4>4
    <3> QED
      BY <3>2, <3>3
  <2> QED
    BY <2>4, <2>5, <2>6 DEF Armament
<1>11. ASSUME NEW w \in Who, delete_job_runs(w) PROVE Armament'
  <2>1. /\ op' = [op EXCEPT ![w] = Idle]
        /\ UNCHANGED <<up, clock, job, armed, session, behind>> /\ op[w].step = "purge"
    BY <1>11 DEF delete_job_runs
  <2>2. op'[w] = Idle /\ \A v \in Who \ {w} : op'[v] = op[v]
    BY <2>1 DEF TypeOK
  <2>3. Followed'
    <3> SUFFICES ASSUME NEW k \in Job, behind'[k] \in Who PROVE Settles(op[behind[k]], k)'
      BY DEF Followed
    <3>1. behind'[k] = behind[k] /\ Settles(op[behind[k]], k)
      BY <2>1 DEF Armament, Followed
    <3>2. behind[k] # w
      BY <2>1, <3>1 DEF Settles
    <3> QED
      BY <2>1, <2>2, <3>1, <3>2 DEF Settles, Wanted, Spared, Stored, Then
  <2>4. Standing' /\ TriggersFollow'
    BY <2>1, <2>2 DEF Armament, Standing, TriggersFollow, Stored, Then, Armable, Past, Who
  <2> QED
    BY <2>3, <2>4 DEF Armament
<1>12. ASSUME NEW j \in Job, instant(j) PROVE Armament'
  <2>1. /\ clock' = [clock EXCEPT ![j] = @ + 1] /\ UNCHANGED <<up, job, session, op, behind>>
        /\ armed' = armed \ {k \in {j} : job[j].sch = clock[j] + 1}
    BY <1>12 DEF instant
  <2>2. Followed' /\ Standing'
    BY <2>1 DEF Armament, Followed, Standing, Settles, Wanted, Spared, Stored, Then
  <2>3. clock[j] \in Nat /\ clock'[j] = clock[j] + 1 /\ \A k \in Job \ {j} : clock'[k] = clock[k]
    BY <2>1, Bounds DEF TypeOK
  <2>4. job[j].sch \in Nat /\ clock[j] < MaxInstants
    BY <1>12, Bounds DEF TypeOK, JobRecord, Schedule, At, Wall, Backwards, instant
  <2>5. job[j].sch = clock[j] + 1 <=> Armable(j) /\ ~Armable(j)'
    BY <1>12, <2>1, <2>3, <2>4, Bounds DEF Armable, Past, At, Backwards, instant
  <2>6. Armable(j)' => Armable(j)
    BY <2>1, <2>3, <2>4 DEF Armable, Past
  <2>7. TriggersFollow'
    <3> SUFFICES ASSUME NEW k \in Job, up', behind'[k] = "none"
                 PROVE /\ (Stored(k) /\ Then(k, job[k]).step = "arm" /\ Armable(k))' => k \in armed'
                       /\ k \in armed' => (/\ Stored(k) /\ Armable(k)
                                           /\ (job[k].enabled \/ job[k].fired))'
      BY DEF TriggersFollow
    <3>1. /\ Stored(k) /\ Then(k, job[k]).step = "arm" /\ Armable(k) => k \in armed
          /\ k \in armed => Stored(k) /\ Armable(k) /\ (job[k].enabled \/ job[k].fired)
      BY <2>1 DEF Armament, TriggersFollow
    <3>2. (Stored(k)' <=> Stored(k)) /\ Then(k, job[k])' = Then(k, job[k])
      BY <2>1 DEF Stored, Then
    <3>3. CASE k = j
      BY <2>1, <2>5, <2>6, <3>1, <3>2, <3>3
    <3>4. CASE k # j
      <4>1. (Armable(k)' <=> Armable(k)) /\ (k \in armed' <=> k \in armed)
        BY <2>1, <2>3, <3>4 DEF Armable, Past
      <4> QED
        BY <2>1, <3>1, <3>2, <4>1
    <3> QED
      BY <3>3, <3>4
  <2> QED
    BY <2>2, <2>7 DEF Armament
<1>13. ASSUME NEW r \in Run, _mark(r) PROVE Armament'
  <2> DEFINE j == run[r].job
  <2>1. UNCHANGED <<up, clock, armed, session, op, behind>>
    BY <1>13 DEF _mark
  <2>2. j \in Job
    BY <1>13 DEF _mark, TypeOK, RunRecord, Started, Unused
  <2>3. \A k \in Job : /\ job'[k].state = job[k].state /\ job'[k].sch = job[k].sch
                       /\ \/ (job'[k].enabled <=> job[k].enabled) /\ (job'[k].fired <=> job[k].fired)
                          \/ ~job'[k].enabled /\ job'[k].fired
    <3>1. CASE ~Stored(j)
      BY <1>13, <3>1 DEF _mark
    <3>2. CASE Stored(j)
      <4>1. DOMAIN job = Job /\ \A k \in Job : job[k] \in JobRecord
        BY DEF TypeOK
      <4>2. \A k \in Job : DOMAIN job[k] = {"state", "sch", "enabled", "fired", "last", "here"}
        BY <4>1 DEF JobRecord
      <4>3. job' = [job EXCEPT ![j].last = clock[j],
                               ![j].enabled = job[j].enabled /\ job[j].sch \notin At,
                               ![j].fired = job[j].fired \/ job[j].sch \in At]
        BY <1>13, <3>2 DEF _mark
      <4> HIDE DEF j
      <4>4. \A k \in Job \ {j} : job'[k] = job[k]
        BY <4>1, <4>3
      <4>5. /\ job'[j].state = job[j].state /\ job'[j].sch = job[j].sch
            /\ job'[j].enabled = (job[j].enabled /\ job[j].sch \notin At)
            /\ job'[j].fired = (job[j].fired \/ job[j].sch \in At)
        BY <2>2, <4>1, <4>2, <4>3
      <4>6. CASE job[j].sch \notin At
        BY <4>4, <4>5, <4>6
      <4>7. CASE job[j].sch \in At
        BY <4>4, <4>5, <4>7
      <4> QED
        BY <4>6, <4>7
    <3> QED
      BY <3>1, <3>2
  <2> HIDE DEF j
  <2>4. \A k \in Job : /\ Wanted(k)' => Wanted(k)
                       /\ Stored(k)' <=> Stored(k)
                       /\ Spared(k) => Spared(k)'
                       /\ Armable(k)' <=> Armable(k)
    BY <2>1, <2>3 DEF Wanted, Spared, Stored, Then, Armable, Past
  <2>5. Followed'
    <3> SUFFICES ASSUME NEW k \in Job, behind'[k] \in Who PROVE Settles(op[behind[k]], k)'
      BY DEF Followed
    <3>1. behind'[k] = behind[k] /\ op'[behind[k]] = op[behind[k]] /\ Settles(op[behind[k]], k)
      BY <2>1 DEF Armament, Followed
    <3> QED
      BY <2>1, <2>4, <3>1 DEF Settles
  <2>6. Standing'
    BY <2>1 DEF Armament, Standing
  <2>7. TriggersFollow'
    <3> SUFFICES ASSUME NEW k \in Job, up', behind'[k] = "none"
                 PROVE /\ Wanted(k)' /\ Armable(k)' => k \in armed'
                       /\ k \in armed' => Spared(k)' /\ Armable(k)'
      BY DEF TriggersFollow, Wanted, Spared
    <3>1. /\ Wanted(k) /\ Armable(k) => k \in armed
          /\ k \in armed => Spared(k) /\ Armable(k)
      BY <2>1 DEF Armament, TriggersFollow, Wanted, Spared
    <3> QED
      BY <2>1, <2>4, <3>1
  <2> QED
    BY <2>5, <2>6, <2>7 DEF Armament
<1>14. CASE Crash
  <2>1. up' = FALSE /\ \A w \in Who : op'[w] = Idle
    BY <1>14 DEF Crash
  <2>2. \A j \in Job : behind'[j] = "none"
    BY <1>14 DEF Crash
  <2>3. Standing' /\ TriggersFollow'
    BY <2>1 DEF Standing, TriggersFollow, Who
  <2> QED
    BY <2>2, <2>3 DEF Armament, Followed, Who
<1>15. ASSUME NEW late \in SUBSET Job, init_scheduler(late) PROVE Armament'
  <2>1. /\ armed' = {j \in Job : Stored(j) /\ Then(j, job[j]).step = "arm" /\ Armable(j)}
        /\ UNCHANGED <<clock, job, session, op, behind>>
    BY <1>15 DEF init_scheduler
  <2>2. Followed' /\ Standing'
    BY <2>1 DEF Armament, Followed, Standing, Settles, Wanted, Spared, Stored, Then
  <2>3. TriggersFollow'
    BY <2>1 DEF TriggersFollow, Stored, Then, Armable, Past
  <2> QED
    BY <2>2, <2>3 DEF Armament
<1>16. ASSUME NEW r \in Run, append_message(r) PROVE Armament'
  BY <1>16, ArmamentUntouched DEF append_message
<1>17. ASSUME NEW j \in Job, run_job_now(j) \/ stop_cron_job(j) PROVE Armament'
  BY <1>17, ArmamentUntouched DEF run_job_now, stop_cron_job
<1>18. ASSUME NEW r \in Run,
              _spawn_cron_run(r) \/ load_cron_jobs(r) \/ start_run(r) \/ _push_result(r)
       PROVE Armament'
  BY <1>18, ArmamentUntouched DEF _spawn_cron_run, load_cron_jobs, start_run, _push_result
<1> QED
  BY <1>1, <1>3, <1>5, <1>6, <1>7, <1>8, <1>9, <1>10, <1>11, <1>12, <1>13, <1>14, <1>15, <1>16,
     <1>17, <1>18 DEF Next

(* The triggers follow the file: once the last change of a job has reached *)
(* the scheduler, an enabled job whose time is to come has a trigger, if   *)
(* one can be built, and a deleted or switched off job has none, through   *)
(* any changes on the loop and on threads, fires, stamps and restarts.     *)
THEOREM FileFollowed == Spec => []TriggersFollow
<1>1. Init => TypeOK /\ Runs /\ Armament
  <2>1. Init => Armament
    BY DEF Init, Armament, Followed, Standing, TriggersFollow, Idle, Who, Stored, NewJob
  <2> QED
    BY <2>1, InitHolds
<1>2. TypeOK /\ Runs /\ Armament /\ [Next]_vars => (TypeOK /\ Runs /\ Armament)'
  BY TypeKept, RunsKept, ArmamentKept DEF Runs
<1> QED
  BY <1>1, <1>2, PTL DEF Spec, Armament
=============================================================================
