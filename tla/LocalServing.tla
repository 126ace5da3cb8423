---------------------------- MODULE LocalServing ----------------------------
(***************************************************************************)
(* The on-device model servers and who may use, load and stop them         *)
(* (server/local/serving.py over the engines llama_server.py and           *)
(* mlx_server.py).  Calls run on worker threads; what happens under        *)
(* _busy_lock is one step, and _transition_lock is the variable lock.      *)
(*                                                                         *)
(* An engine's state changes under its own lock, one step each; a stop is  *)
(* one step that ends with the process gone.  A server dies on its own     *)
(* only while it is warming up.  Identities of calls and stops are used    *)
(* again.                                                                  *)
(***************************************************************************)
EXTENDS Naturals, FiniteSets

CONSTANTS Key,        \* the models
          MlxKeys,    \* those that mlx_lm serves
          Ctx,        \* context sizes
          DefaultCtx, \* the size when nobody asked for one
          NoSize,     \* n_ctx is None
          Job,        \* what callers may ask of the servers
          NoJob,
          Call, NoCall, Stopper, NoKey, NoServer

Engine == {"gguf", "mlx"}
Server == [key : Key, ctx : Ctx, ready : BOOLEAN]

(***************************************************************************)
(*   "turn"   serve_turn: a chat turn or an agent run streams from it      *)
(*   "judge"  begin_resident_call: an answer from what is resident         *)
(*   "load"   the load endpoint: starts the server and leaves it           *)
(*   "plain"  complete and the one-shot path: uses the URL with no mark    *)
(***************************************************************************)
Kinds == {"turn", "judge", "load", "plain"}

ASSUME Models == MlxKeys \subseteq Key /\ NoKey \notin Key
ASSUME Sizes == DefaultCtx \in Ctx /\ NoSize \notin Ctx
ASSUME Jobs ==
    /\ Job \subseteq [kind : Kinds, key : Key, size : Ctx \cup {NoSize}]
    /\ NoJob \notin Job
ASSUME Calls == IsFiniteSet(Call) /\ NoCall \notin Call
ASSUME Stoppers == IsFiniteSet(Stopper)
ASSUME NoServerIsNoServer == NoServer \notin Server

VARIABLES server,    \* what each engine runs: _proc and _state
          requested, \* runtime._requested_n_ctx
          busy,      \* _busy_turns
          claims,    \* _claims
          stopping,  \* _stopping
          pending,   \* _release_when_idle
          releasing, \* end_turn has a local-release thread on its way
          lock,      \* who holds _transition_lock
          pc, job,   \* where each call is and what it asked for
          target,    \* the size an engine is starting at
          aborted,   \* calls whose turn was stopped or load was cancelled
          started,   \* loads whose started event is set
          stopper    \* what each stop does

engineVars == <<server, requested>>
busyVars == <<busy, claims, stopping, pending, releasing>>
callVars == <<job, target, aborted, started>>
vars == <<engineVars, busyVars, lock, pc, callVars, stopper>>

EngineOf(k) == IF k \in MlxKeys THEN "mlx" ELSE "gguf"
Home(c) == EngineOf(job[c].key)
Other(c) == CHOOSE e \in Engine : e # Home(c)

Marks(c) == job[c].kind \in {"turn", "judge"}

Running(e) == server[e] # NoServer

Empty == [e \in Engine |-> NoServer]

(* llama_server.resident_key() or mlx_server.resident_key() *)
ResidentEngine == IF Running("gguf") THEN "gguf" ELSE "mlx"
Resident == IF server = Empty THEN NoKey ELSE server[ResidentEngine].key

(* _served_url: the engine serves the model at the size asked for. *)
Served(c) ==
    /\ Running(Home(c))
    /\ server[Home(c)].key = job[c].key
    /\ job[c].size \in {NoSize, server[Home(c)].ctx}

(* _would_displace *)
WouldDisplace(c) ==
    /\ Resident # NoKey
    /\ \/ Resident # job[c].key
       \/ job[c].size \notin {NoSize, server[ResidentEngine].ctx}

(* Slip: a live turn does not hold a transition off. *)
HeldOffByStop(c) == stopping > 0

(* _held_off: a live turn or a stop under way makes a transition wait. *)
HeldOff(c) == stopping > 0 \/ (busy > 0 /\ WouldDisplace(c))

NoStop == [at |-> "none", why |-> "none", key |-> NoKey, owner |-> NoCall, ok |-> FALSE]

Init ==
    /\ server = Empty
    /\ requested = DefaultCtx
    /\ busy = 0 /\ claims = {} /\ stopping = 0
    /\ pending = NoKey /\ releasing = FALSE
    /\ lock = NoCall
    /\ pc = [c \in Call |-> "idle"]
    /\ job = [c \in Call |-> NoJob]
    /\ target = DefaultCtx
    /\ aborted = {} /\ started = {}
    /\ stopper = [s \in Stopper |-> NoStop]

-----------------------------------------------------------------------------
(* Busy marks.                                                             *)

BeginTurn == busy' = busy + 1 /\ UNCHANGED <<claims, stopping, pending, releasing>>

(* end_turn: the last one gives a pending release its thread. *)
EndTurn ==
    /\ busy' = IF busy = 0 THEN 0 ELSE busy - 1
    /\ releasing' = (releasing \/ (busy = 1 /\ pending # NoKey))
    /\ UNCHANGED <<claims, stopping, pending>>

(* A call that is over leaves nothing behind. *)
Goto(c, place) ==
    /\ pc' = [pc EXCEPT ![c] = place]
    /\ job' = IF place = "idle" THEN [job EXCEPT ![c] = NoJob] ELSE job
    /\ aborted' = IF place = "idle" THEN aborted \ {c} ELSE aborted

-----------------------------------------------------------------------------
(* ensure_serving and begin_resident_call.                                 *)

(* The slider, a chat turn or a load records the size the user asked for. *)
RequestSize(n) ==
    /\ requested' = n
    /\ UNCHANGED <<server, busyVars, lock, pc, callVars, stopper>>

(* A call begins.  A size it brings is remembered first; all but the judge *)
(* cancel a pending release.                                               *)
Ask(c, j) ==
    /\ pc[c] = "idle"
    /\ \A s \in Stopper : stopper[s].owner # c
    /\ pc' = [pc EXCEPT ![c] = "fast"]
    /\ job' = [job EXCEPT ![c] = j]
    /\ requested' = IF j.size = NoSize THEN requested ELSE j.size
    /\ pending' = IF j.kind = "judge" THEN pending ELSE NoKey
    /\ UNCHANGED <<server, busy, claims, stopping, releasing, lock, target, aborted,
                   started, stopper>>

(* Where a call goes that found its model not served. *)
Otherwise(c) == IF job[c].kind = "judge" THEN "idle" ELSE "fetch"

(* The lock-free fast path. *)
FastPath(c) ==
    /\ pc[c] = "fast"
    /\ Goto(c, IF ~Served(c) THEN Otherwise(c) ELSE IF Marks(c) THEN "mark" ELSE "returned")
    /\ UNCHANGED <<engineVars, busyVars, lock, started, target, stopper>>

(* Slip: a turn registers whatever is under way. *)
NothingUnderWay == TRUE

(* _begin_turn_unless_transitioning, then the server is read again. *)
NoTransition == claims = {} /\ stopping = 0

Mark(c) ==
    /\ pc[c] = "mark"
    /\ IF NoTransition
       THEN BeginTurn /\ Goto(c, "reread")
       ELSE Goto(c, Otherwise(c)) /\ UNCHANGED busyVars
    /\ UNCHANGED <<engineVars, lock, started, target, stopper>>

Reread(c) ==
    /\ pc[c] = "reread"
    /\ IF Served(c)
       THEN Goto(c, "returned") /\ UNCHANGED busyVars
       ELSE EndTurn /\ Goto(c, Otherwise(c))
    /\ UNCHANGED <<engineVars, lock, started, target, stopper>>

(* The engine is installed and the weights are here, or the call raises. *)
Fetch(c) ==
    /\ pc[c] = "fetch"
    /\ \E place \in {"wait", "idle"} : Goto(c, place)
    /\ UNCHANGED <<engineVars, busyVars, lock, started, target, stopper>>

(* The wait loop: it ends when nothing holds the call off, by an abort or  *)
(* at its deadline.                                                        *)
WaitOver(c) ==
    /\ pc[c] = "wait"
    /\ \E place \in (IF HeldOff(c) THEN {"idle"} ELSE {"queue"}) : Goto(c, place)
    /\ UNCHANGED <<engineVars, busyVars, lock, started, target, stopper>>

(* Under _transition_lock: the abort is looked at again, and _busy_lock    *)
(* covers the last look at the turns together with the claim.              *)
Claim(c) ==
    /\ pc[c] = "queue" /\ lock = NoCall
    /\ IF c \notin aborted /\ ~HeldOff(c)
       THEN lock' = c /\ claims' = claims \cup {c} /\ Goto(c, "claimed")
       ELSE /\ Goto(c, IF c \in aborted THEN "idle" ELSE "wait")
            /\ UNCHANGED <<lock, claims>>
    /\ UNCHANGED <<engineVars, busy, stopping, pending, releasing, started, target, stopper>>

(* Slip: the other engine keeps its model. *)
KeepOther(c) ==
    /\ pc[c] = "claimed"
    /\ started' = IF job[c].kind = "load" /\ ~Served(c) THEN started \cup {c} ELSE started
    /\ Goto(c, "start")
    /\ UNCHANGED <<engineVars, busyVars, lock, target, stopper>>

(* A load that will start a server says so; the other engine is stopped. *)
EvictOther(c) ==
    /\ pc[c] = "claimed"
    /\ started' = IF job[c].kind = "load" /\ ~Served(c) THEN started \cup {c} ELSE started
    /\ server' = [server EXCEPT ![Other(c)] = NoServer]
    /\ Goto(c, "start")
    /\ UNCHANGED <<requested, busyVars, lock, target, stopper>>

(* Slip: a size that nobody gave stays unknown. *)
SizeGiven(c) == job[c].size

(* The engine's own ensure_serving: the size asked for, or the one the     *)
(* user last asked for.  llama-server restarts for another size; mlx_lm    *)
(* only records it.                                                        *)
Size(c) == IF job[c].size = NoSize THEN requested ELSE job[c].size

Reuses(c) ==
    /\ Running(Home(c))
    /\ server[Home(c)].key = job[c].key
    /\ Home(c) = "mlx" \/ server[Home(c)].ctx = Size(c)

StartEngine(c) ==
    /\ pc[c] = "start"
    /\ IF Reuses(c)
       THEN /\ server' = [server EXCEPT ![Home(c)].ctx = Size(c)]
            /\ Goto(c, "landed") /\ UNCHANGED target
       ELSE /\ server' = [server EXCEPT ![Home(c)] = NoServer]
            /\ target' = Size(c)
            /\ Goto(c, "spawn")
    /\ UNCHANGED <<requested, busyVars, lock, started, stopper>>

Spawn(c) ==
    /\ pc[c] = "spawn"
    /\ \/ /\ server' = [server EXCEPT ![Home(c)] =
                            [key |-> job[c].key, ctx |-> target, ready |-> FALSE]]
          /\ Goto(c, "warming")
       \/ Goto(c, "raising") /\ UNCHANGED server
    /\ target' = DefaultCtx
    /\ UNCHANGED <<requested, busyVars, lock, started, stopper>>

(* _wait_healthy and _warmup: the model answers, or the start is undone. *)
Warm(c) ==
    /\ pc[c] = "warming"
    /\ \/ /\ Running(Home(c))
          /\ server' = [server EXCEPT ![Home(c)].ready = TRUE]
          /\ Goto(c, "landed")
       \/ /\ server' = [server EXCEPT ![Home(c)] = NoServer]
          /\ Goto(c, "raising")
    /\ UNCHANGED <<requested, busyVars, lock, started, target, stopper>>

(* A turn registers before its claim ends. *)
Landed(c) ==
    /\ pc[c] = "landed"
    /\ IF Marks(c) THEN BeginTurn ELSE UNCHANGED busyVars
    /\ Goto(c, "leaving")
    /\ UNCHANGED <<engineVars, lock, started, target, stopper>>

(* _end_transition, and the lock is free, on a return and on an error. *)
EndTransition(c) ==
    /\ pc[c] \in {"leaving", "raising"}
    /\ claims' = claims \ {c}
    /\ lock' = NoCall
    /\ Goto(c, IF pc[c] = "leaving" THEN "returned" ELSE "idle")
    /\ started' = IF pc[c] = "raising" THEN started \ {c} ELSE started
    /\ UNCHANGED <<engineVars, busy, stopping, pending, releasing, target, stopper>>

-----------------------------------------------------------------------------
(* What callers do.                                                        *)

(* Slip: nobody ends the turn that was registered for a stopped caller. *)
AbandonMarked(c) == UNCHANGED busyVars

(* _release_abandoned_turn: the load of a turn stopped meanwhile. *)
Abandon(c) == EndTurn

(* The caller has the URL, or is gone. *)
Take(c) ==
    /\ pc[c] = "returned" /\ job[c].kind # "load"
    /\ IF c \in aborted
       THEN Abandon(c) /\ Goto(c, "idle")
       ELSE Goto(c, "using") /\ UNCHANGED busyVars
    /\ UNCHANGED <<engineVars, lock, started, target, stopper>>

(* The answer is complete, fails or is stopped. *)
Done(c) ==
    /\ pc[c] = "using"
    /\ IF Marks(c) THEN EndTurn ELSE UNCHANGED busyVars
    /\ Goto(c, "idle")
    /\ UNCHANGED <<engineVars, lock, started, target, stopper>>

(* Stop during the cold start of a turn; cancel of a load. *)
Abort(c) ==
    /\ pc[c] \notin {"idle", "using"}
    /\ job[c].kind \in {"turn", "load"}
    /\ c \notin aborted
    /\ aborted' = aborted \cup {c}
    /\ UNCHANGED <<engineVars, busyVars, lock, pc, job, target, started, stopper>>

-----------------------------------------------------------------------------
(* stop_if_idle and its callers.                                           *)

BeginStop(s, at, why, k, owner) ==
    /\ stopper[s].at = "none"
    /\ stopper' = [stopper EXCEPT ![s] =
                      [at |-> at, why |-> why, key |-> k, owner |-> owner, ok |-> FALSE]]

StopStep(s, at) == stopper' = [stopper EXCEPT ![s].at = at]

StopDone(s) == stopper' = [stopper EXCEPT ![s] = NoStop]

(* The load endpoint sees the cancel while the load runs. *)
CancelLoad(s, c) ==
    /\ pc[c] \notin {"idle", "returned"}
    /\ job[c].kind = "load" /\ c \in aborted \cap started
    /\ BeginStop(s, "check", "cancel", job[c].key, c)
    /\ UNCHANGED <<engineVars, busyVars, lock, pc, callVars>>

(* The load has landed; a cancelled one is undone. *)
LoadDone(s, c) ==
    /\ pc[c] = "returned" /\ job[c].kind = "load"
    /\ IF c \in aborted \cap started
       THEN BeginStop(s, "check", "cancel", job[c].key, c)
       ELSE UNCHANGED stopper
    /\ Goto(c, "idle")
    /\ started' = started \ {c}
    /\ UNCHANGED <<engineVars, busyVars, lock, target>>

(* release_resident, and the delete of the resident model. *)
AskStop(s, why) ==
    /\ Resident # NoKey
    /\ BeginStop(s, "check", why, Resident, NoCall)
    /\ UNCHANGED <<engineVars, busyVars, lock, pc, callVars>>

(* The local-release thread that end_turn starts. *)
ReleaseThread(s) ==
    /\ releasing /\ releasing' = FALSE
    /\ BeginStop(s, "pending", "release", NoKey, NoCall)
    /\ UNCHANGED <<engineVars, busy, claims, stopping, pending, lock, pc, callVars>>

(* Slip: a claimed transition is not looked at. *)
ForeignClaimIgnored(owner) == FALSE

ForeignClaim(owner) == claims \ {owner} # {}

MayStop(s) ==
    /\ busy = 0
    /\ Resident = stopper[s].key
    /\ ~ForeignClaim(stopper[s].owner)

Check(s) ==
    /\ stopper[s].at = "check"
    /\ IF MayStop(s)
       THEN stopping' = stopping + 1 /\ StopStep(s, "stop")
       ELSE /\ UNCHANGED stopping
            /\ \/ stopper[s].why = "ask" /\ StopStep(s, "flag")
               \/ stopper[s].why = "release" /\ StopStep(s, "settle")
               \/ stopper[s].why \in {"delete", "cancel"} /\ StopDone(s)
    /\ UNCHANGED <<engineVars, busy, claims, pending, releasing, lock, pc, callVars>>

StopServer(s) ==
    /\ stopper[s].at = "stop"
    /\ server' = Empty
    /\ stopping' = stopping - 1
    /\ IF stopper[s].why = "release"
       THEN stopper' = [stopper EXCEPT ![s].at = "settle", ![s].ok = TRUE]
       ELSE StopDone(s)
    /\ UNCHANGED <<requested, busy, claims, pending, releasing, lock, pc, callVars>>

(* release_resident was refused: the release waits for the last turn. *)
Flag(s) ==
    /\ stopper[s].at = "flag"
    /\ pending' = stopper[s].key
    /\ IF busy = 0
       THEN stopper' = [stopper EXCEPT ![s].at = "pending", ![s].why = "release"]
       ELSE StopDone(s)
    /\ UNCHANGED <<engineVars, busy, claims, stopping, releasing, lock, pc, callVars>>

(* _release_if_pending *)
ReadPending(s) ==
    /\ stopper[s].at = "pending"
    /\ IF pending = NoKey
       THEN StopDone(s)
       ELSE stopper' = [stopper EXCEPT ![s].at = "check", ![s].key = pending]
    /\ UNCHANGED <<engineVars, busyVars, lock, pc, callVars>>

Settle(s) ==
    /\ stopper[s].at = "settle"
    /\ pending' = IF pending = stopper[s].key /\ (stopper[s].ok \/ Resident # pending)
                  THEN NoKey ELSE pending
    /\ StopDone(s)
    /\ UNCHANGED <<engineVars, busy, claims, stopping, releasing, lock, pc, callVars>>

-----------------------------------------------------------------------------
ensure_serving(c) ==
    \/ FastPath(c) \/ Mark(c) \/ Reread(c) \/ Fetch(c) \/ WaitOver(c) \/ Claim(c)
    \/ EvictOther(c) \/ StartEngine(c) \/ Spawn(c) \/ Warm(c) \/ Landed(c) \/ EndTransition(c)

Caller(c) == Take(c) \/ Done(c) \/ \E s \in Stopper : LoadDone(s, c)

stop_if_idle(s) ==
    Check(s) \/ StopServer(s) \/ Flag(s) \/ ReadPending(s) \/ Settle(s)

Next ==
    \/ \E n \in Ctx : RequestSize(n)
    \/ \E c \in Call : (\E j \in Job : Ask(c, j)) \/ ensure_serving(c) \/ Caller(c) \/ Abort(c)
    \/ \E s \in Stopper :
          \/ \E c \in Call : CancelLoad(s, c)
          \/ \E why \in {"ask", "delete"} : AskStop(s, why)
          \/ ReleaseThread(s) \/ stop_if_idle(s)

Spec == Init /\ [][Next]_vars

-----------------------------------------------------------------------------
(* Properties.                                                             *)

Places == {"idle", "fast", "mark", "reread", "fetch", "wait", "queue", "claimed", "start",
           "spawn", "warming", "landed", "leaving", "raising", "returned", "using"}

StopPlaces == {"none", "check", "stop", "flag", "pending", "settle"}

(* Every variable holds a value of its kind. *)
TypeOK ==
    /\ server \in [Engine -> Server \cup {NoServer}]
    /\ requested \in Ctx /\ target \in Ctx
    /\ busy \in Nat /\ stopping \in Nat
    /\ claims \subseteq Call /\ aborted \subseteq Call /\ started \subseteq Call
    /\ pending \in Key \cup {NoKey} /\ releasing \in BOOLEAN
    /\ lock \in Call \cup {NoCall}
    /\ pc \in [Call -> Places]
    /\ job \in [Call -> Job \cup {NoJob}]
    /\ stopper \in [Stopper -> [at : StopPlaces, why : {"none", "ask", "release", "delete", "cancel"},
                                key : Key \cup {NoKey}, owner : Call \cup {NoCall}, ok : BOOLEAN]]

(* One local model is resident at a time, across both engines (serving.py, *)
(* its module comment): two of them do not fit in memory.                  *)
OneResident == \E e \in Engine : server[e] = NoServer

(* The calls that hold a busy mark. *)
Marked(c) ==
    pc[c] # "idle" /\ Marks(c) /\ pc[c] \in {"reread", "leaving", "returned", "using"}

(* The count of busy turns is the number of calls that hold a mark: one    *)
(* too many would hold every later switch off until its deadline, one too  *)
(* few would stop a server under an answer.                                *)
BusyIsMarks == busy = Cardinality({c \in Call : Marked(c)})

(* From its registration, or from the landing of its own load, until its   *)
(* last word, a turn streams from its server.                              *)
Streams(c) ==
    pc[c] # "idle" /\ Marks(c) /\ pc[c] \in {"landed", "leaving", "returned", "using"}

(* While a server is being stopped (a release, a delete, a cancel) nobody  *)
(* streams from one, and nobody is given one (stop_if_idle).               *)
StopAlone == stopping > 0 => \A c \in Call : ~Streams(c)

(* The server that a turn streams from had answered and goes away.         *)
Cut(c) ==
    /\ Streams(c) /\ Running(Home(c)) /\ server[Home(c)].ready
    /\ server'[Home(c)] = NoServer

(* A live answer is never cut: no switch, load, cancel, delete, release or *)
(* other turn takes the server away (serving.py, _busy_turns).             *)
AnswerKeepsServer == [][\A c \in Call : ~Cut(c)]_vars

Unsized(c) == pc[c] # "idle" /\ job[c].size = NoSize

(* The only step that cuts a live answer is the restart by a call that     *)
(* left the size to the engine, which finds another size requested since   *)
(* (_would_displace): no stop, switch, load or sized turn ever does.       *)
OnlyUnsizedCuts ==
    [][(\E c \in Call : Cut(c)) => \E u \in Call : Unsized(u) /\ pc[u] = "start"]_vars

(* A turn whose call loaded the model gets the URL of a server of its      *)
(* model that has answered: nothing takes it away between the warm-up, the *)
(* registration and the return.                                            *)
LoadedIsReady ==
    [][\A c \in Call :
          pc[c] = "leaving" /\ Marks(c) /\ pc'[c] = "returned" =>
             Running(Home(c)) /\ server[Home(c)].key = job[c].key /\ server[Home(c)].ready]_vars
=============================================================================
