----------------------------- MODULE AgentRuns -----------------------------
(***************************************************************************)
(* Agents of one session: detached and resumed runs (server/tasks/         *)
(* agents.py), /subagent streams (server/chat/routes.py), spawn_agent and  *)
(* team_create in a chat turn (server/agent_tools), all of them over       *)
(* run_agent (server/agents/runtime.py), its journal, its mailbox and its  *)
(* row in the task registry.                                               *)
(*                                                                         *)
(* Everything here runs on the event loop: a step is what happens between  *)
(* two awaits.  The rounds of a run are one place, "work".                 *)
(***************************************************************************)
EXTENDS Naturals, FiniteSets, Sequences

CONSTANTS Agent, Team,
          MaxRuns,   \* bound: runs started, resumed ones included
          MaxBoots,  \* bound: restarts of the server
          MaxSent,   \* bound: messages sent
          Slots,     \* DETACHED_CONCURRENCY
          NoAgent, NoTeam

Run == 1..MaxRuns
NoRun == 0

ASSUME Bounds == /\ MaxRuns \in Nat /\ MaxBoots \in Nat /\ MaxSent \in Nat
                 /\ Slots \in Nat \ {0}
ASSUME Agents == IsFiniteSet(Agent)
ASSUME Names == NoAgent \notin Agent /\ NoTeam \notin Team

VARIABLES row,    \* agent -> status of its registry row
          info,   \* agent -> its status in the AgentRegistry
          mail,   \* agent -> whether messages wait in its mailbox
          rec,    \* agent -> its record on disk
          handle, \* _running: agent -> the coroutine a Stop cancels
          run,    \* run -> its coroutine
          queue,  \* runs that wait for the semaphore, in order
          team,   \* _teams: its members and stop_requested
          sent,   \* how many messages have been sent
          boots

vars == <<row, info, mail, rec, handle, run, queue, team, sent, boots>>

(***************************************************************************)
(* A run: where it is, its agent, how it was started, in a worktree or     *)
(* not, its team, its journal, how it ended, whether a cancel waits to be  *)
(* thrown into it, whose report it hands on, to whom it has reported, and  *)
(* whether no other run of the agent was alive beside it (never read by    *)
(* the program).                                                           *)
(***************************************************************************)
Unused == [pc |-> "unused", agent |-> NoAgent, how |-> "none", iso |-> FALSE, team |-> NoTeam,
           jrn |-> "none", end |-> "none", hit |-> FALSE, text |-> NoRun, said |-> "no",
           alone |-> TRUE]

NoRecord == [dir |-> FALSE, msgs |-> FALSE, report |-> NoRun]

Init ==
    /\ row = [a \in Agent |-> "none"]
    /\ info = [a \in Agent |-> "none"]
    /\ mail = [a \in Agent |-> FALSE]
    /\ rec = [a \in Agent |-> NoRecord]
    /\ handle = [a \in Agent |-> NoRun]
    /\ run = [r \in Run |-> Unused]
    /\ queue = <<>>
    /\ team = [t \in Team |-> [runs |-> {}, asked |-> FALSE, read |-> FALSE]]
    /\ sent = 0
    /\ boots = 0

Used == {r \in Run : run[r].pc # "unused"}
NextRun == Cardinality(Used) + 1
Fresh(a) == \A r \in Used : run[r].agent # a

(* The coroutine, or the callback of its end, still has a step to take. *)
Live(r) == run[r].pc \notin {"unused", "gone"}
Done(r) == run[r].pc \in {"unused", "over", "left", "gone"}

(* The ones that _run_detached wraps. *)
Wrapped(r) == run[r].how \in {"detached", "resumed"}

(* Inside "async with _semaphore()". *)
Holding ==
    {r \in Run : Wrapped(r) /\ run[r].pc \in {"ahead", "fork", "setup", "ready", "work", "harvest", "tidy"}}

At(r, place) == run[r].pc = place /\ ~run[r].hit
Who(r) == run[r].agent

-----------------------------------------------------------------------------
(* Starting.                                                               *)

(* start_detached_agent, by spawn_agent with detach. *)
start_detached_agent(a, iso) ==
    /\ Fresh(a) /\ NextRun \in Run
    /\ row' = [row EXCEPT ![a] = "running"]
    /\ handle' = [handle EXCEPT ![a] = NextRun]
    /\ run' = [run EXCEPT ![NextRun] =
                 [Unused EXCEPT !.pc = "made", !.agent = a, !.how = "detached", !.iso = iso]]
    /\ UNCHANGED <<info, mail, rec, queue, team, sent, boots>>

(* The /subagent endpoint: its row and the first frame of the stream. *)
subagent_stream(a) ==
    /\ Fresh(a) /\ NextRun \in Run
    /\ row' = [row EXCEPT ![a] = "running"]
    /\ run' = [run EXCEPT ![NextRun] =
                 [Unused EXCEPT !.pc = "frame", !.agent = a, !.how = "stream"]]
    /\ UNCHANGED <<info, mail, rec, handle, queue, team, sent, boots>>

(* The frame is out: the coroutine, with a handle and without semaphore. *)
stream_run(r) ==
    /\ At(r, "frame")
    /\ handle' = [handle EXCEPT ![Who(r)] = r]
    /\ run' = [run EXCEPT ![r].pc = "made"]
    /\ UNCHANGED <<row, info, mail, rec, queue, team, sent, boots>>

(* spawn_agent (one member, a worktree if it asks for one) or team_create  *)
(* in a chat turn: the row comes with the journal.                         *)
create_team(t, members, iso) ==
    /\ team[t].runs = {}
    /\ members # {} /\ \A a \in members : Fresh(a)
    /\ iso => Cardinality(members) = 1
    /\ LET new == NextRun..(NextRun + Cardinality(members) - 1) IN
       /\ new \subseteq Run
       /\ \E who \in [new -> members] :
             /\ \A a \in members : \E r \in new : who[r] = a
             /\ run' = [r \in Run |->
                          IF r \in new
                          THEN [Unused EXCEPT !.pc = "made", !.agent = who[r], !.how = "chat",
                                              !.iso = iso, !.team = t]
                          ELSE run[r]]
       /\ team' = [team EXCEPT ![t].runs = new]
    /\ UNCHANGED <<row, info, mail, rec, handle, queue, sent, boots>>

(* resume_agent: the row runs again and the run takes over the handle.     *)
(* Nothing asks whether the agent already has a run under way.             *)
resume_agent(a) ==
    /\ row' = [row EXCEPT ![a] = "running"]
    /\ handle' = [handle EXCEPT ![a] = NextRun]
    /\ run' = [r \in Run |->
                 IF r = NextRun
                 THEN [Unused EXCEPT !.pc = "made", !.agent = a, !.how = "resumed",
                                     !.alone = ~\E s \in Run : Who(s) = a /\ Live(s)]
                 ELSE IF Who(r) = a /\ Live(r) THEN [run[r] EXCEPT !.alone = FALSE] ELSE run[r]]

(* execute_send_message: into the mailbox of an agent that runs, or as the *)
(* follow-up of one with a record; without a record the mailbox takes it.  *)
send_message(a) ==
    /\ sent < MaxSent
    /\ sent' = sent + 1
    /\ \/ /\ info[a] = "running" \/ (info[a] # "none" /\ ~rec[a].dir)
          /\ mail' = [mail EXCEPT ![a] = TRUE]
          /\ UNCHANGED <<row, handle, run>>
       \/ /\ info[a] # "running" /\ rec[a].dir /\ rec[a].msgs /\ NextRun \in Run
          /\ resume_agent(a)
          /\ UNCHANGED mail
       \/ /\ info[a] # "running" /\ IF rec[a].dir THEN ~rec[a].msgs ELSE info[a] = "none"
          /\ UNCHANGED <<row, handle, run, mail>>
    /\ UNCHANGED <<info, rec, queue, team, boots>>

-----------------------------------------------------------------------------
(* run_agent.                                                              *)

(* The first step of the coroutine: a wrapped run asks for the semaphore,  *)
(* which is handed on in order.                                            *)
Begin(r) ==
    /\ At(r, "made")
    /\ IF Wrapped(r) /\ (queue # <<>> \/ Cardinality(Holding) >= Slots)
       THEN /\ run' = [run EXCEPT ![r].pc = "queued"]
            /\ queue' = Append(queue, r)
       ELSE /\ run' = [run EXCEPT ![r].pc = "ahead"]
            /\ UNCHANGED queue
    /\ UNCHANGED <<row, info, mail, rec, handle, team, sent, boots>>

Admit(r) ==
    /\ At(r, "queued") /\ Head(queue) = r /\ Cardinality(Holding) < Slots
    /\ run' = [run EXCEPT ![r].pc = "ahead"]
    /\ queue' = Tail(queue)
    /\ UNCHANGED <<row, info, mail, rec, handle, team, sent, boots>>

(* Where a coroutine is when run_agent has returned or raised. *)
Outside(r) == IF Wrapped(r) THEN "closing" ELSE "over"

(* Slip: the status of the result is handed on as it is. *)
PreflightFailsRaw(r) ==
    /\ At(r, "ahead")
    /\ run' = [run EXCEPT ![r].pc = Outside(r), ![r].end = "error", ![r].text = r]
    /\ UNCHANGED <<row, info, mail, rec, handle, queue, team, sent, boots>>

(* Depth, no model, retention: a failed result before anything exists. *)
PreflightFails(r) ==
    /\ At(r, "ahead")
    /\ run' = [run EXCEPT ![r].pc = Outside(r), ![r].end = "failed", ![r].text = r]
    /\ UNCHANGED <<row, info, mail, rec, handle, queue, team, sent, boots>>

(* Mailbox, registry, journal and row; no journal when the disk is not     *)
(* writable.                                                               *)
Open(r, jrn) ==
    /\ At(r, "ahead")
    /\ run' = [run EXCEPT ![r].pc = IF run[r].iso THEN "fork" ELSE "setup", ![r].jrn = jrn]
    /\ info' = [info EXCEPT ![Who(r)] = "running"]
    /\ IF jrn = "open"
       THEN /\ rec' = [rec EXCEPT ![Who(r)].dir = TRUE]
            /\ row' = [row EXCEPT ![Who(r)] = "running"]
       ELSE UNCHANGED <<rec, row>>
    /\ UNCHANGED <<mail, handle, queue, team, sent, boots>>

(* _enter_agent_worktree has returned, with a worktree or without one. *)
Forked(r, made) ==
    /\ At(r, "fork")
    /\ run' = [run EXCEPT ![r].pc = "setup", ![r].iso = made]
    /\ UNCHANGED <<row, info, mail, rec, handle, queue, team, sent, boots>>

Read(a) == mail' = [mail EXCEPT ![a] = FALSE]

(* The attachments are there: the mailbox goes into the first prompt. *)
Receive(r) ==
    /\ At(r, "setup")
    /\ run' = [run EXCEPT ![r].pc = "ready"]
    /\ Read(Who(r))
    /\ UNCHANGED <<row, info, rec, handle, queue, team, sent, boots>>

(* The first round starts with a checkpoint of the messages. *)
RoundStart(r) ==
    /\ At(r, "ready")
    /\ run' = [run EXCEPT ![r].pc = "work"]
    /\ rec' = [rec EXCEPT ![Who(r)].msgs = @ \/ run[r].jrn = "open"]
    /\ UNCHANGED <<row, info, mail, handle, queue, team, sent, boots>>

(* The receive_messages tool. *)
receive_messages(r) ==
    /\ At(r, "work") /\ mail[Who(r)]
    /\ Read(Who(r))
    /\ UNCHANGED <<row, info, rec, handle, run, queue, team, sent, boots>>

-----------------------------------------------------------------------------
(* The ends of run_agent.                                                  *)

(* finish_task and the journal's own end close a row that still runs. *)
CloseRow(a, v) == [row EXCEPT ![a] = IF @ = "running" THEN v ELSE @]

(* AgentJournal.finish, once per journal: the row and the report. *)
JournalRow(r, v) == IF run[r].jrn = "open" THEN CloseRow(Who(r), v) ELSE row
JournalRec(r) == IF run[r].jrn = "open" THEN [rec EXCEPT ![Who(r)].report = r] ELSE rec
JournalEnd(r) == IF run[r].jrn = "open" THEN "closed" ELSE run[r].jrn

(* Slip: the status is updated when the run returns, not when it is cut. *)
LeaveListed(r, v, rows) ==
    /\ info' = IF v = "stopped" THEN info ELSE [info EXCEPT ![Who(r)] = v]
    /\ mail' = [mail EXCEPT ![Who(r)] = FALSE]
    /\ row' = IF run[r].how = "chat" /\ v # "stopped" /\ rows[Who(r)] = "none"
              THEN [rows EXCEPT ![Who(r)] = v] ELSE rows

(* update_status and delete_mailbox: what nobody has read is gone.  A chat *)
(* run that returns without a row gets one (_persist_agent_result).        *)
Leave(r, v, rows) ==
    /\ info' = [info EXCEPT ![Who(r)] = v]
    /\ mail' = [mail EXCEPT ![Who(r)] = FALSE]
    /\ row' = IF run[r].how = "chat" /\ v # "stopped" /\ rows[Who(r)] = "none"
              THEN [rows EXCEPT ![Who(r)] = v] ELSE rows

(* The run has ended with verdict v: a worktree comes first, at place. *)
Ended(r, place, jrn, v, text) ==
    run' = [run EXCEPT ![r].pc = IF run[r].iso THEN place ELSE Outside(r), ![r].hit = FALSE,
                       ![r].jrn = jrn, ![r].end = v, ![r].text = text]

(* _run_agent_loop returns, its journal closed.  With a worktree to        *)
(* harvest the agent stays on the registry.                                *)
RunEnds(r, v) ==
    /\ At(r, "work")
    /\ rec' = JournalRec(r)
    /\ Ended(r, "harvest", JournalEnd(r), v, r)
    /\ IF run[r].iso THEN row' = JournalRow(r, v) /\ UNCHANGED <<info, mail>>
       ELSE Leave(r, v, JournalRow(r, v))
    /\ UNCHANGED <<handle, queue, team, sent, boots>>

(* An on-device model that cannot be served: a failed result, returned     *)
(* with the journal open.                                                  *)
ServeFails(r) ==
    /\ At(r, "ready")
    /\ Ended(r, "harvest", run[r].jrn, "failed", r)
    /\ IF run[r].iso THEN UNCHANGED <<row, info, mail>> ELSE Leave(r, "failed", row)
    /\ UNCHANGED <<rec, handle, queue, team, sent, boots>>

(* The except clauses of run_agent: status and journal, and the worktree   *)
(* is tidied before the mailbox goes.                                      *)
Abort(r, v, text) ==
    /\ rec' = JournalRec(r)
    /\ Ended(r, "tidy", JournalEnd(r), v, text)
    /\ IF run[r].iso
       THEN /\ info' = [info EXCEPT ![Who(r)] = v]
            /\ row' = JournalRow(r, v)
            /\ UNCHANGED mail
       ELSE Leave(r, v, JournalRow(r, v))
    /\ UNCHANGED <<handle, queue, team, sent, boots>>

RunRaises(r) ==
    /\ run[r].pc \in {"setup", "ready", "work"} /\ ~run[r].hit
    /\ Abort(r, "failed", r)

(* The harvest or the tidying is over; a cancel thrown into it is          *)
(* swallowed.  What a stopped run hands on is the report on disk.          *)
Brought(r) ==
    /\ run[r].pc \in {"harvest", "tidy"}
    /\ run' = [run EXCEPT ![r].pc = Outside(r), ![r].hit = FALSE,
                          ![r].text = IF run[r].end = "stopped" THEN rec[Who(r)].report ELSE r]
    /\ Leave(r, run[r].end, row)
    /\ UNCHANGED <<rec, handle, queue, team, sent, boots>>

(* CancelledError in a coroutine that has not begun: its body never runs,  *)
(* so a wrapped run has no verdict.                                        *)
CancelledUnborn(r) ==
    /\ run[r].pc = "made" /\ run[r].hit
    /\ run' = [run EXCEPT ![r].pc = "over", ![r].hit = FALSE,
                          ![r].end = IF Wrapped(r) THEN "none" ELSE "stopped"]
    /\ UNCHANGED <<row, info, mail, rec, handle, queue, team, sent, boots>>

(* CancelledError in the queue, in the preflight or, with the agent        *)
(* registered and its journal open, in front of the try of run_agent.      *)
CancelledAhead(r) ==
    /\ run[r].pc \in {"queued", "ahead", "fork"} /\ run[r].hit
    /\ run' = [run EXCEPT ![r].pc = Outside(r), ![r].hit = FALSE, ![r].end = "stopped",
                          ![r].text = rec[Who(r)].report]
    /\ IF run[r].pc = "queued"
       THEN \E k \in DOMAIN queue :
               /\ queue[k] = r
               /\ queue' = SubSeq(queue, 1, k - 1) \o SubSeq(queue, k + 1, Len(queue))
       ELSE UNCHANGED queue
    /\ UNCHANGED <<row, info, mail, rec, handle, team, sent, boots>>

(* Slip: only a failure of the run closes its journal. *)
CancelledInsideUnsaved(r) ==
    /\ run[r].pc \in {"setup", "ready", "work"} /\ run[r].hit
    /\ Ended(r, "tidy", run[r].jrn, "stopped", rec[Who(r)].report)
    /\ IF run[r].iso THEN UNCHANGED <<row, info, mail>> ELSE Leave(r, "stopped", row)
    /\ UNCHANGED <<rec, handle, queue, team, sent, boots>>

(* CancelledError inside it: the salvage report closes the journal. *)
CancelledInside(r) ==
    /\ run[r].pc \in {"setup", "ready", "work"} /\ run[r].hit
    /\ Abort(r, "stopped", IF run[r].jrn = "open" THEN r ELSE rec[Who(r)].report)

-----------------------------------------------------------------------------
(* Handing the result on.                                                  *)

(* Slip: the row is left to the journal. *)
FinishUnclosed(r) ==
    /\ run[r].pc = "closing"
    /\ run' = [run EXCEPT ![r].pc = "over", ![r].hit = FALSE, ![r].said = "report"]
    /\ UNCHANGED <<row, info, mail, rec, handle, queue, team, sent, boots>>

(* The finally of _run_detached, after the wait for the pump, which        *)
(* swallows a cancel: the row if it still runs, and always the report.     *)
Finish(r) ==
    /\ run[r].pc = "closing"
    /\ row' = CloseRow(Who(r), run[r].end)
    /\ run' = [run EXCEPT ![r].pc = "over", ![r].hit = FALSE, ![r].said = "report"]
    /\ UNCHANGED <<info, mail, rec, handle, queue, team, sent, boots>>

(* The done callback takes the agent off _running, whichever coroutine is  *)
(* there by now; a chat run has none.                                      *)
DoneCallback(r) ==
    /\ run[r].pc = "over"
    /\ \/ /\ run[r].how = "chat" /\ team[run[r].team].read
          /\ UNCHANGED handle
       \/ /\ run[r].how # "chat"
          /\ handle' = [handle EXCEPT ![Who(r)] = NoRun]
    /\ run' = [run EXCEPT ![r].pc =
                 IF run[r].how = "stream" /\ run[r].said = "no" THEN "left" ELSE "gone"]
    /\ UNCHANGED <<row, info, mail, rec, queue, team, sent, boots>>

(* The stream sees that its run is over. *)
StreamEnds(r) ==
    /\ run[r].pc = "left"
    /\ row' = CloseRow(Who(r), run[r].end)
    /\ run' = [run EXCEPT ![r].pc = "gone", ![r].said = "told"]
    /\ UNCHANGED <<info, mail, rec, handle, queue, team, sent, boots>>

(* The wait of spawn_agent or team_create is over: with its last member,   *)
(* or, as asyncio.gather has it, with the first one that was cancelled.    *)
(* A cancelled turn waits for the same future: Task.cancel cancels what    *)
(* the turn awaits, and the turn goes on when that is done, so the wait of *)
(* 5 s in front of its reading finds the future done and never runs out.   *)
TeamDone(t) ==
    \/ \A r \in team[t].runs : Done(r)
    \/ \E r \in team[t].runs : Done(r) /\ run[r].end = "stopped"

(* The turn that called gets the results; when the members were stopped,   *)
(* or the turn was cancelled as they ended, the reports are those on disk: *)
(* for the model after a Stop of the team, else a row of the session.      *)
TeamReads(t, late) ==
    /\ team[t].runs # {} /\ ~team[t].read /\ TeamDone(t)
    /\ LET stopped == late \/ \E r \in team[t].runs : Done(r) /\ run[r].end = "stopped" IN
       run' = [r \in Run |->
                 IF r \in team[t].runs
                 THEN [run[r] EXCEPT !.pc = IF Done(r) THEN "gone" ELSE @,
                                     !.text = IF stopped THEN rec[Who(r)].report ELSE r,
                                     !.said = IF stopped /\ ~team[t].asked THEN "report" ELSE "told"]
                 ELSE run[r]]
    /\ team' = [team EXCEPT ![t].read = TRUE]
    /\ UNCHANGED <<row, info, mail, rec, handle, queue, sent, boots>>

-----------------------------------------------------------------------------
(* Stopping, and the server going down.                                    *)

(* cancel_task: through the handle, or through the team that owns the      *)
(* agent as its row says (a resume rewrites the row without a team).       *)
cancel_task(a) ==
    /\ row[a] = "running"
    /\ \/ /\ \E r \in Run :
                handle[a] = r /\ ~Done(r) /\ run' = [run EXCEPT ![r].hit = TRUE]
          /\ UNCHANGED team
       \/ /\ \A r \in Run : handle[a] = r => Done(r)
          /\ \E t \in Team :
                /\ \E r \in team[t].runs : Who(r) = a
                /\ \A r \in Run : Who(r) = a => run[r].how = "chat"
                /\ ~team[t].read /\ ~TeamDone(t)
                /\ team' = [team EXCEPT ![t].asked = TRUE]
                /\ run' = [r \in Run |-> IF r \in team[t].runs /\ ~Done(r)
                                        THEN [run[r] EXCEPT !.hit = TRUE] ELSE run[r]]
    /\ UNCHANGED <<row, info, mail, rec, handle, queue, sent, boots>>

(* The turn that waits for the team is cancelled: nobody has asked. *)
TurnCancelled(t) ==
    /\ ~team[t].read /\ \E r \in team[t].runs : ~Done(r) /\ ~run[r].hit
    /\ ~TeamDone(t)
    /\ run' = [r \in Run |-> IF r \in team[t].runs /\ ~Done(r)
                            THEN [run[r] EXCEPT !.hit = TRUE] ELSE run[r]]
    /\ UNCHANGED <<row, info, mail, rec, handle, queue, team, sent, boots>>

(* The reader of a stream goes: the run is cancelled, its row closed.  At  *)
(* the first frame there is neither a run to cancel nor a finally yet.     *)
Disconnect(r) ==
    /\ run[r].how = "stream" /\ run[r].said = "no" /\ ~Done(r)
    /\ IF run[r].pc = "frame"
       THEN run' = [run EXCEPT ![r].pc = "gone"] /\ UNCHANGED row
       ELSE /\ run' = [run EXCEPT ![r].hit = TRUE, ![r].said = "told"]
            /\ row' = CloseRow(Who(r), "stopped")
    /\ UNCHANGED <<info, mail, rec, handle, queue, team, sent, boots>>

(* The server goes down and boots: every row that runs is interrupted      *)
(* (registry.reconcile_on_boot); only the records are kept.                *)
Restart ==
    /\ boots < MaxBoots
    /\ boots' = boots + 1
    /\ run' = [r \in Run |->
                 IF Live(r) THEN [Unused EXCEPT !.pc = "gone", !.agent = Who(r), !.how = run[r].how,
                                                !.end = "lost"]
                 ELSE run[r]]
    /\ row' = [a \in Agent |-> IF row[a] = "running" THEN "interrupted" ELSE row[a]]
    /\ info' = [a \in Agent |-> "none"]
    /\ mail' = [a \in Agent |-> FALSE]
    /\ handle' = [a \in Agent |-> NoRun]
    /\ queue' = <<>>
    /\ team' = [t \in Team |-> [team[t] EXCEPT !.read = team[t].runs # {}]]
    /\ UNCHANGED <<rec, sent>>

-----------------------------------------------------------------------------
run_agent(r) ==
    \/ Begin(r) \/ Admit(r) \/ PreflightFails(r) \/ Open(r, "open") \/ Open(r, "none")
    \/ \E made \in BOOLEAN : Forked(r, made)
    \/ Receive(r) \/ RoundStart(r) \/ ServeFails(r) \/ RunRaises(r)
    \/ \E v \in {"completed", "failed"} : RunEnds(r, v)
    \/ Brought(r) \/ CancelledUnborn(r) \/ CancelledAhead(r) \/ CancelledInside(r)

HandOn(r) == stream_run(r) \/ Finish(r) \/ DoneCallback(r) \/ StreamEnds(r)

Next ==
    \/ \E a \in Agent :
          \/ \E iso \in BOOLEAN : start_detached_agent(a, iso)
          \/ subagent_stream(a) \/ cancel_task(a)
          \/ send_message(a)
    \/ \E t \in Team :
          \/ \E members \in SUBSET Agent, iso \in BOOLEAN : create_team(t, members, iso)
          \/ \E late \in BOOLEAN : TeamReads(t, late)
          \/ TurnCancelled(t)
    \/ \E r \in Run : run_agent(r) \/ HandOn(r) \/ receive_messages(r) \/ Disconnect(r)
    \/ Restart

Spec == Init /\ [][Next]_vars

-----------------------------------------------------------------------------
(* Properties.                                                             *)

Statuses == {"none", "running", "completed", "failed", "stopped", "interrupted"}

Places ==
    {"unused", "frame", "made", "queued", "ahead", "fork", "setup", "ready", "work", "harvest",
     "tidy", "closing", "over", "left", "gone"}

Verdicts == {"completed", "failed", "stopped"}

Coroutine ==
    [pc : Places, agent : Agent \cup {NoAgent},
     how : {"none", "detached", "resumed", "stream", "chat"}, iso : BOOLEAN,
     team : Team \cup {NoTeam}, jrn : {"none", "open", "closed"},
     end : Verdicts \cup {"none", "lost"}, hit : BOOLEAN, text : Run \cup {NoRun},
     said : {"no", "report", "told"}, alone : BOOLEAN]

(* Every variable holds a value of its kind. *)
TypeOK ==
    /\ row \in [Agent -> Statuses]
    /\ info \in [Agent -> Statuses \ {"interrupted"}]
    /\ mail \in [Agent -> BOOLEAN]
    /\ rec \in [Agent -> [dir : BOOLEAN, msgs : BOOLEAN, report : Run \cup {NoRun}]]
    /\ handle \in [Agent -> Run \cup {NoRun}]
    /\ run \in [Run -> Coroutine]
    /\ queue \in Seq(Run)
    /\ team \in [Team -> [runs : SUBSET Run, asked : BOOLEAN, read : BOOLEAN]]
    /\ sent \in 0..MaxSent
    /\ boots \in 0..MaxBoots

Gone(r) == run[r].pc = "gone"

(* Gone without a verdict: cancelled before its first step, or its stream  *)
(* closed at the first frame.                                              *)
NeverBegan(r) == Gone(r) /\ run[r].end = "none"

(* A chat run that is over with its journal open: on-device serving failed *)
(* or the cancel came at the fork.                                         *)
LeftOpen(r) == Gone(r) /\ run[r].how = "chat" /\ run[r].jrn = "open"

(* A row that says running has a coroutine behind it, so Stop and the task *)
(* list tell the truth, except after the two ends that leave it behind;    *)
(* and the row of a run that works says running, unless another run of its *)
(* agent or the end of its stream has closed it.                           *)
RowHasRun ==
    /\ \A a \in Agent : row[a] = "running" =>
          \E r \in Run : Who(r) = a /\ (Live(r) \/ NeverBegan(r) \/ LeftOpen(r))
    /\ \A r \in Run :
          run[r].jrn = "open" /\ run[r].end = "none" /\ run[r].alone /\ run[r].said = "no"
             => row[Who(r)] = "running"

(* The cancel came at the fork: the agent stays on the registry. *)
CutAtFork(r) == run[r].jrn = "open" /\ run[r].end = "stopped"

(* Its rounds are over and its worktree is being settled: the mailbox goes *)
(* with the run, unread.                                                   *)
Settling(r) == run[r].iso /\ run[r].pc \in {"harvest", "tidy"}

(* A message that waits has a run that may still read it: send_message     *)
(* mails only to agents that run, and a mailbox goes with its run.  Three  *)
(* kinds of messages are accepted and read by nobody: to an agent cut at   *)
(* the fork, to one without a record, and to one that settles a worktree   *)
(* while it is still listed as running.                                    *)
MailHasReader ==
    \A a \in Agent : mail[a] =>
       \/ ~rec[a].dir
       \/ \E r \in Run :
             /\ Who(r) = a
             /\ \/ run[r].pc \in {"fork", "setup", "ready", "work"}
                \/ CutAtFork(r) \/ Settling(r)

(* Cut at the fork, where only a run that asked for a worktree comes by. *)
CutInWorktree(r) == CutAtFork(r) /\ run[r].iso

(* The only run of its agent that is over, or the last of them. *)
Last(r) == run[r].alone /\ \A s \in Run : Who(s) = Who(r) => s <= r

(* What a run that began leaves when it is gone: a detached or resumed run *)
(* its report, whatever cancel or failure met it and wherever, its row the *)
(* verdict that the report gives, and, stopped after its journal was       *)
(* opened, its own salvage and not an older report or none, unless it was  *)
(* cut at the fork; and a member of a team with a journal, its own verdict *)
(* in its own row, whatever became of the others.                          *)
VerdictKept ==
    \A r \in Run : Gone(r) /\ run[r].end \notin {"none", "lost"} =>
       /\ Wrapped(r) =>
             /\ run[r].said = "report"
             /\ Last(r) => row[Who(r)] = run[r].end
             /\ run[r].alone /\ run[r].end = "stopped" /\ run[r].jrn # "none" /\ ~CutInWorktree(r)
                   => run[r].text = r
       /\ run[r].how = "chat" /\ run[r].jrn = "closed" /\ Last(r) => row[Who(r)] = run[r].end

(* An agent is resumed when it is finished or interrupted (resume_agent),  *)
(* so two runs never work on one record at a time.                         *)
OneRunWorks ==
    \A r, s \in Run : run[r].pc = "work" /\ run[s].pc = "work" /\ Who(r) = Who(s) => r = s
=============================================================================
