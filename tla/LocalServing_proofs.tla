------------------------ MODULE LocalServing_proofs -------------------------
(***************************************************************************)
(* Proofs about LocalServing, for any models, sizes, calls, requests and   *)
(* stops.                                                                  *)
(***************************************************************************)
EXTENDS LocalServing, FiniteSetTheorems, TLAPS

(* A call that is under way has its request. *)
HasJob == \A c \in Call : pc[c] # "idle" => job[c] \in Job

(* The stops that are past their check and have yet to end. *)
AtStop == {s \in Stopper : stopper[s].at = "stop"}

(* stopping counts them. *)
StopsCounted == stopping = Cardinality(AtStop)

Base == TypeOK /\ HasJob /\ StopsCounted

-----------------------------------------------------------------------------
(* The fields of a request. *)
LEMMA JobFields ==
    ASSUME NEW j \in Job
    PROVE  j.kind \in Kinds /\ j.key \in Key /\ j.size \in Ctx \cup {NoSize}
  BY Jobs

(* The count of a set of calls that one call enters or leaves. *)
LEMMA Counting ==
    ASSUME NEW S, IsFiniteSet(S), NEW A \in SUBSET S, NEW B \in SUBSET S, NEW x \in S
    PROVE  /\ Cardinality(A) \in Nat
           /\ A = {} <=> Cardinality(A) = 0
           /\ x \notin A /\ B = A \cup {x} => Cardinality(B) = Cardinality(A) + 1
           /\ x \in A /\ B = A \ {x} => Cardinality(A) > 0 /\ Cardinality(B) = Cardinality(A) - 1
<1>1. IsFiniteSet(A) /\ Cardinality(A) \in Nat
  BY FS_Subset, FS_CardinalityType
<1>2. A = {} <=> Cardinality(A) = 0
  BY <1>1, FS_EmptySet
<1>3. x \notin A => Cardinality(A \cup {x}) = Cardinality(A) + 1
  BY <1>1, FS_AddElement
<1>4. x \in A => Cardinality(A \ {x}) = Cardinality(A) - 1
  BY <1>1, FS_RemoveElement
<1> QED
  BY <1>1, <1>2, <1>3, <1>4

(* The key of what is resident is a key, if anything is. *)
LEMMA ResidentTyped == TypeOK => Resident \in Key \cup {NoKey}
<1> SUFFICES ASSUME TypeOK, server # Empty PROVE Resident \in Key
  BY DEF Resident
<1>1. \E e \in Engine : server[e] # NoServer
  BY DEF TypeOK, Empty
<1>2. server[ResidentEngine] \in Server
  BY <1>1 DEF ResidentEngine, Running, TypeOK, Engine
<1> QED
  BY <1>2 DEF Resident, Server

(* The busy mark is a count, and its end may start a release. *)
LEMMA MarkTyped ==
    ASSUME TypeOK, BeginTurn \/ EndTurn \/ UNCHANGED busyVars
    PROVE  busy' \in Nat /\ releasing' \in BOOLEAN /\ UNCHANGED <<claims, stopping, pending>>
<1>1. CASE BeginTurn
  BY <1>1 DEF BeginTurn, TypeOK
<1>2. CASE EndTurn
  BY <1>2 DEF EndTurn, TypeOK
<1>3. CASE UNCHANGED busyVars
  BY <1>3 DEF busyVars, TypeOK
<1> QED
  BY <1>1, <1>2, <1>3

StopRecord == [at : StopPlaces, why : {"none", "ask", "release", "delete", "cancel"},
               key : Key \cup {NoKey}, owner : Call \cup {NoCall}, ok : BOOLEAN]

(* What a stop does next is what a stop may do. *)
LEMMA StopTyped ==
    ASSUME TypeOK, NEW s \in Stopper
    PROVE  /\ \A why \in {"none", "ask", "release", "delete", "cancel"}, at \in StopPlaces,
                 k \in Key \cup {NoKey}, owner \in Call \cup {NoCall} :
                BeginStop(s, at, why, k, owner) => stopper' \in [Stopper -> StopRecord]
           /\ \A at \in StopPlaces : StopStep(s, at) => stopper' \in [Stopper -> StopRecord]
           /\ StopDone(s) => stopper' \in [Stopper -> StopRecord]
<1>1. stopper \in [Stopper -> StopRecord]
  BY DEF TypeOK, StopRecord
<1>2. ASSUME NEW why \in {"none", "ask", "release", "delete", "cancel"}, NEW at \in StopPlaces,
             NEW k \in Key \cup {NoKey}, NEW owner \in Call \cup {NoCall}
      PROVE [at |-> at, why |-> why, key |-> k, owner |-> owner, ok |-> FALSE] \in StopRecord
  BY DEF StopRecord
<1>3. NoStop \in StopRecord
  BY DEF NoStop, StopRecord, StopPlaces
<1>4. ASSUME NEW at \in StopPlaces, StopStep(s, at) PROVE stopper' \in [Stopper -> StopRecord]
  BY <1>1, <1>4 DEF StopStep, StopRecord
<1> QED
  BY <1>1, <1>2, <1>3, <1>4 DEF BeginStop, StopDone

(* A step that goes on keeps the three functions of a call typed. *)
LEMMA GotoTyped ==
    ASSUME TypeOK, NEW c \in Call, NEW place \in Places, Goto(c, place)
    PROVE  /\ pc' \in [Call -> Places] /\ job' \in [Call -> Job \cup {NoJob}]
           /\ aborted' \subseteq Call
           /\ HasJob /\ pc[c] # "idle" => HasJob'
  BY DEF TypeOK, Goto, HasJob

(* Every step keeps the types and the count of the stops. *)
LEMMA BaseKept == Base /\ [Next]_vars => Base'
<1> SUFFICES ASSUME Base, [Next]_vars PROVE Base'
  OBVIOUS
<1> USE DEF Base, vars, engineVars, busyVars, callVars
<1>1. CASE UNCHANGED vars
  BY <1>1 DEF TypeOK, HasJob, StopsCounted, AtStop
(* What leaves the stops and the calls alone. *)
<1>2. UNCHANGED <<stopping, stopper>> => StopsCounted'
  BY DEF StopsCounted, AtStop
<1>3. ASSUME NEW n \in Ctx, RequestSize(n) PROVE Base'
  BY <1>2, <1>3 DEF RequestSize, TypeOK, HasJob
<1>4. ASSUME NEW c \in Call, NEW j \in Job, Ask(c, j) PROVE Base'
  <2>1. j.size \in Ctx \cup {NoSize} /\ j # NoJob
    BY JobFields, Jobs
  <2> QED
    BY <1>2, <1>4, <2>1 DEF Ask, TypeOK, HasJob, Places
<1>5. ASSUME NEW c \in Call, ensure_serving(c) PROVE Base'
  <2>0. UNCHANGED <<stopping, stopper>>
    BY <1>5 DEF ensure_serving, FastPath, Mark, Reread, Fetch, WaitOver, Claim, EvictOther,
                StartEngine, Spawn, Warm, Landed, EndTransition, BeginTurn, EndTurn
  <2>1. pc[c] # "idle"
    BY <1>5 DEF ensure_serving, FastPath, Mark, Reread, Fetch, WaitOver, Claim, EvictOther,
                StartEngine, Spawn, Warm, Landed, EndTransition
  <2>2. job[c] \in Job /\ job[c].key \in Key /\ job[c].size \in Ctx \cup {NoSize}
        /\ Home(c) \in Engine /\ Size(c) \in Ctx
    BY <2>1, JobFields DEF HasJob, TypeOK, Home, EngineOf, Engine, Size
  <2>3. \E place \in Places : Goto(c, place)
    BY <1>5 DEF ensure_serving, FastPath, Mark, Reread, Fetch, WaitOver, Claim, EvictOther,
                StartEngine, Spawn, Warm, Landed, EndTransition, Places, Otherwise
  <2>4. /\ pc' \in [Call -> Places] /\ job' \in [Call -> Job \cup {NoJob}]
        /\ aborted' \subseteq Call /\ HasJob'
    BY <2>1, <2>3, GotoTyped
  <2>5. CASE FastPath(c) \/ Fetch(c) \/ WaitOver(c) \/ Claim(c) \/ EndTransition(c)
    BY <1>2, <2>0, <2>4, <2>5 DEF FastPath, Fetch, WaitOver, Claim, EndTransition, TypeOK
  <2>6. CASE Mark(c) \/ Reread(c) \/ Landed(c)
    <3>1. BeginTurn \/ EndTurn \/ UNCHANGED busyVars
      BY <2>6 DEF Mark, Reread, Landed
    <3>2. busy' \in Nat /\ releasing' \in BOOLEAN /\ UNCHANGED <<claims, stopping, pending>>
      BY <3>1, MarkTyped
    <3>3. UNCHANGED <<engineVars, lock, started, target, stopper>>
      BY <2>6 DEF Mark, Reread, Landed
    <3> QED
      BY <1>2, <2>0, <2>4, <3>2, <3>3 DEF TypeOK
  <2>7. CASE EvictOther(c)
    BY <1>2, <2>0, <2>4, <2>7 DEF EvictOther, TypeOK
  <2>8. CASE StartEngine(c)
    <3>1. CASE Reuses(c)
      <4>1. server[Home(c)] \in Server
        BY <2>2, <3>1 DEF Reuses, Running, TypeOK
      <4>2. [server[Home(c)] EXCEPT !.ctx = Size(c)] \in Server
        BY <2>2, <4>1 DEF Server
      <4> QED
        BY <1>2, <2>0, <2>4, <2>8, <3>1, <4>2 DEF StartEngine, TypeOK
    <3>2. CASE ~Reuses(c)
      BY <1>2, <2>0, <2>2, <2>4, <2>8, <3>2 DEF StartEngine, TypeOK
    <3> QED
      BY <3>1, <3>2
  <2>9. CASE Spawn(c)
    <3>1. [key |-> job[c].key, ctx |-> target, ready |-> FALSE] \in Server
      BY <2>2 DEF Server, TypeOK
    <3> QED
      BY <1>2, <2>0, <2>4, <2>9, <3>1, Sizes DEF Spawn, TypeOK
  <2>10. CASE Warm(c)
    <3>1. Running(Home(c)) => [server[Home(c)] EXCEPT !.ready = TRUE] \in Server
      <4>1. Running(Home(c)) => server[Home(c)] \in Server
        BY <2>2 DEF Running, TypeOK
      <4> QED
        BY <4>1 DEF Server
    <3> QED
      BY <1>2, <2>0, <2>4, <2>10, <3>1 DEF Warm, TypeOK
  <2> QED
    BY <1>5, <2>5, <2>6, <2>7, <2>8, <2>9, <2>10 DEF ensure_serving
<1>6. ASSUME NEW c \in Call, Take(c) \/ Done(c) PROVE Base'
  <2>1. pc[c] # "idle" /\ UNCHANGED <<stopping, stopper>> /\ \E place \in Places : Goto(c, place)
    BY <1>6 DEF Take, Done, Places, Abandon, EndTurn
  <2>2. /\ pc' \in [Call -> Places] /\ job' \in [Call -> Job \cup {NoJob}]
        /\ aborted' \subseteq Call /\ HasJob'
    BY <2>1, GotoTyped
  <2> QED
    <3>1. BeginTurn \/ EndTurn \/ UNCHANGED busyVars
      BY <1>6 DEF Take, Done, Abandon
    <3>2. busy' \in Nat /\ releasing' \in BOOLEAN /\ UNCHANGED <<claims, stopping, pending>>
      BY <3>1, MarkTyped
    <3>3. UNCHANGED <<engineVars, lock, started, target, stopper>>
      BY <1>6 DEF Take, Done
    <3> QED
      BY <1>2, <2>1, <2>2, <3>2, <3>3 DEF TypeOK
<1>7. ASSUME NEW c \in Call, Abort(c) PROVE Base'
  BY <1>2, <1>7 DEF Abort, TypeOK, HasJob
(* A stop that begins, or ends, without being past its check. *)
<1>8. ASSUME NEW s \in Stopper, stopper[s].at # "stop", stopper'[s].at # "stop",
             \A t \in Stopper \ {s} : stopper'[t] = stopper[t], stopping' = stopping
      PROVE StopsCounted'
  BY <1>8 DEF StopsCounted, AtStop
<1>9. ASSUME NEW s \in Stopper, NEW c \in Call, CancelLoad(s, c) \/ LoadDone(s, c) PROVE Base'
  <2>1. pc[c] # "idle" /\ job[c].key \in Key
    BY <1>9, JobFields DEF CancelLoad, LoadDone, HasJob, TypeOK
  <2>2. stopper' = stopper \/ BeginStop(s, "check", "cancel", job[c].key, c)
    BY <1>9 DEF CancelLoad, LoadDone
  <2>3. stopper' \in [Stopper -> StopRecord]
    <3>1. stopper \in [Stopper -> StopRecord] /\ "check" \in StopPlaces
      BY DEF TypeOK, StopRecord, StopPlaces
    <3> QED
      BY <2>1, <2>2, <3>1, StopTyped
  <2>4. StopsCounted'
    <3>1. stopping' = stopping
      BY <1>9 DEF CancelLoad, LoadDone
    <3>2. CASE BeginStop(s, "check", "cancel", job[c].key, c)
      BY <1>8, <3>1, <3>2 DEF BeginStop, TypeOK
    <3> QED
      BY <1>2, <2>2, <3>1, <3>2
  <2>5. CASE CancelLoad(s, c)
    BY <2>3, <2>4, <2>5 DEF CancelLoad, TypeOK, StopRecord, HasJob
  <2>6. CASE LoadDone(s, c)
    <3>1. "idle" \in Places /\ Goto(c, "idle")
      BY <2>6 DEF LoadDone, Places
    <3>2. /\ pc' \in [Call -> Places] /\ job' \in [Call -> Job \cup {NoJob}]
          /\ aborted' \subseteq Call /\ HasJob'
      BY <2>1, <3>1, GotoTyped
    <3> QED
      BY <2>3, <2>4, <2>6, <3>2 DEF LoadDone, TypeOK, StopRecord
  <2> QED
    BY <1>9, <2>5, <2>6
<1>10. ASSUME NEW s \in Stopper, NEW why \in {"ask", "delete"}, AskStop(s, why) PROVE Base'
  <2>1. Resident \in Key \cup {NoKey}
    BY ResidentTyped
  <2>2. StopsCounted'
    BY <1>8, <1>10 DEF AskStop, BeginStop, TypeOK
  <2>3. stopper' \in [Stopper -> StopRecord]
    <3>1. "check" \in StopPlaces
      BY DEF StopPlaces
    <3> QED
      BY <1>10, <2>1, <3>1, StopTyped DEF AskStop
  <2> QED
    BY <1>10, <2>2, <2>3 DEF AskStop, TypeOK, StopRecord, HasJob
<1>11. ASSUME NEW s \in Stopper, ReleaseThread(s) PROVE Base'
  <2>1. StopsCounted'
    BY <1>8, <1>11 DEF ReleaseThread, BeginStop, TypeOK
  <2>2. stopper' \in [Stopper -> StopRecord]
    <3>1. "pending" \in StopPlaces
      BY DEF StopPlaces
    <3> QED
      BY <1>11, <3>1, StopTyped DEF ReleaseThread
  <2> QED
    BY <1>11, <2>1, <2>2 DEF ReleaseThread, TypeOK, StopRecord, HasJob
<1>12. ASSUME NEW s \in Stopper, Flag(s) \/ ReadPending(s) \/ Settle(s) PROVE Base'
  <2>1. StopsCounted'
    BY <1>8, <1>12 DEF Flag, ReadPending, Settle, StopDone, NoStop, TypeOK
  <2>2. stopper \in [Stopper -> StopRecord]
    BY DEF TypeOK, StopRecord
  <2>3. stopper[s].key \in Key \cup {NoKey}
    BY <2>2 DEF StopRecord
  <2>4. CASE StopDone(s)
    BY <1>12, <2>1, <2>3, <2>4, StopTyped DEF Flag, ReadPending, Settle, TypeOK, StopRecord, HasJob
  <2>5. ASSUME ~StopDone(s) PROVE stopper' \in [Stopper -> StopRecord]
    <3>1. CASE stopper' = [stopper EXCEPT ![s].at = "pending", ![s].why = "release"]
      <4>1. "pending" \in StopPlaces
        BY DEF StopPlaces
      <4>2. [stopper[s] EXCEPT !.at = "pending", !.why = "release"] \in StopRecord
        BY <2>2, <4>1 DEF StopRecord
      <4> QED
        BY <2>2, <3>1, <4>2
    <3>2. CASE pending # NoKey /\ stopper' = [stopper EXCEPT ![s].at = "check", ![s].key = pending]
      <4>1. pending \in Key \cup {NoKey} /\ "check" \in StopPlaces
        BY DEF TypeOK, StopPlaces
      <4>2. [stopper[s] EXCEPT !.at = "check", !.key = pending] \in StopRecord
        BY <2>2, <4>1 DEF StopRecord
      <4> QED
        BY <2>2, <3>2, <4>2
    <3> QED
      BY <1>12, <2>5, <3>1, <3>2 DEF Flag, ReadPending, Settle
  <2> QED
    BY <1>12, <2>1, <2>3, <2>4, <2>5 DEF Flag, ReadPending, Settle, TypeOK, StopRecord, HasJob
<1>13. ASSUME NEW s \in Stopper, Check(s) PROVE Base'
  <2>1. CASE MayStop(s)
    <3>1. AtStop' = AtStop \cup {s} /\ s \notin AtStop
      BY <1>13, <2>1 DEF Check, StopStep, AtStop, TypeOK
    <3>2. StopsCounted'
      <4>1. AtStop \in SUBSET Stopper /\ AtStop' \in SUBSET Stopper
        BY DEF AtStop
      <4>2. Cardinality(AtStop') = Cardinality(AtStop) + 1
        BY <3>1, <4>1, Stoppers, Counting
      <4> QED
        BY <1>13, <2>1, <4>2 DEF Check, StopsCounted
    <3> QED
      BY <1>13, <2>1, <3>2, StopTyped DEF Check, TypeOK, StopPlaces, StopRecord, HasJob
  <2>2. CASE ~MayStop(s)
    <3>1. StopsCounted'
      BY <1>8, <1>13, <2>2 DEF Check, StopStep, StopDone, NoStop, TypeOK
    <3> QED
      BY <1>13, <2>2, <3>1, StopTyped DEF Check, TypeOK, StopPlaces, StopRecord, HasJob
  <2> QED
    BY <2>1, <2>2
<1>14. ASSUME NEW s \in Stopper, StopServer(s) PROVE Base'
  <2>1. AtStop' = AtStop \ {s} /\ s \in AtStop
    BY <1>14 DEF StopServer, StopDone, NoStop, AtStop, TypeOK
  <2>2. /\ Cardinality(AtStop) \in Nat /\ Cardinality(AtStop) > 0
        /\ Cardinality(AtStop') = Cardinality(AtStop) - 1
    <3>1. AtStop \in SUBSET Stopper /\ AtStop' \in SUBSET Stopper
      BY DEF AtStop
    <3> QED
      BY <2>1, <3>1, Stoppers, Counting
  <2>3. StopsCounted' /\ stopping' \in Nat
    BY <1>14, <2>2 DEF StopServer, StopsCounted
  <2>4. server' \in [Engine -> Server \cup {NoServer}]
    BY <1>14 DEF StopServer, Empty
  <2>5. stopper' \in [Stopper -> StopRecord]
    <3>1. stopper \in [Stopper -> StopRecord] /\ "settle" \in StopPlaces
      BY DEF TypeOK, StopRecord, StopPlaces
    <3>2. CASE StopDone(s)
      BY <3>2, StopTyped
    <3>3. CASE stopper' = [stopper EXCEPT ![s].at = "settle", ![s].ok = TRUE]
      <4>1. [stopper[s] EXCEPT !.at = "settle", !.ok = TRUE] \in StopRecord
        BY <3>1 DEF StopRecord
      <4> QED
        BY <3>1, <3>3, <4>1
    <3> QED
      BY <1>14, <3>2, <3>3 DEF StopServer
  <2> QED
    BY <1>14, <2>3, <2>4, <2>5 DEF StopServer, TypeOK, StopRecord, HasJob
<1> QED
  BY <1>1, <1>3, <1>4, <1>5, <1>6, <1>7, <1>9, <1>10, <1>11, <1>12, <1>13, <1>14
     DEF Next, Caller, stop_if_idle

(* Nothing is under way at the start. *)
LEMMA InitBase == Init => Base
<1> SUFFICES ASSUME Init PROVE Base
  OBVIOUS
<1>1. AtStop = {}
  BY DEF Init, AtStop, NoStop
<1>2. StopsCounted
  BY <1>1, FS_EmptySet DEF Init, StopsCounted
<1> QED
  BY <1>2, Sizes DEF Init, Base, TypeOK, HasJob, Empty, NoStop, StopPlaces, Places

(* Every variable of the model of the local servers keeps its type. *)
THEOREM TypeCorrect == Spec => []TypeOK
  BY InitBase, BaseKept, PTL DEF Spec, Base

-----------------------------------------------------------------------------
(* Where a call holds a claim, and with it _transition_lock. *)
Claiming == {"claimed", "start", "spawn", "warming", "landed", "leaving", "raising"}

ClaimHeld ==
    \A c \in Call : (c \in claims <=> pc[c] \in Claiming) /\ (c \in claims => lock = c)

(* The other engine has been stopped before this one starts. *)
Evicted == \A c \in Call : pc[c] \in {"start", "spawn"} => server[Other(c)] = NoServer

(* A model is served by its own engine. *)
AtHome == \A e \in Engine : Running(e) => EngineOf(server[e].key) = e

Placed == ClaimHeld /\ OneResident /\ Evicted /\ AtHome

(* What a step of one call does to the places of all. *)
LEMMA GotoFacts ==
    ASSUME TypeOK, NEW c \in Call, NEW place \in Places, Goto(c, place)
    PROVE  /\ pc'[c] = place
           /\ \A d \in Call \ {c} : pc'[d] = pc[d] /\ job'[d] = job[d]
           /\ place # "idle" => UNCHANGED <<job, aborted>>
           /\ place = "idle" => aborted' = aborted \ {c}
  BY DEF TypeOK, Goto

(* The two engines. *)
LEMMA Engines ==
    ASSUME NEW c \in Call
    PROVE  Home(c) \in Engine /\ Other(c) \in Engine /\ Other(c) # Home(c)
           /\ \A e \in Engine : e # Home(c) => e = Other(c)
<1>1. Home(c) \in Engine
  BY DEF Home, EngineOf, Engine
<1>2. \E e \in Engine : e # Home(c)
  BY DEF Engine
<1>3. Other(c) \in Engine /\ Other(c) # Home(c)
  BY <1>2 DEF Other
<1> QED
  BY <1>1, <1>3 DEF Engine

(* The lock of transitions and the claims agree with where the calls are. *)
LEMMA ClaimKept == Base /\ ClaimHeld /\ [Next]_vars => ClaimHeld'
<1> SUFFICES ASSUME Base, ClaimHeld, [Next]_vars PROVE ClaimHeld'
  OBVIOUS
<1> USE DEF Base, busyVars, callVars, vars
<1>1. ASSUME UNCHANGED <<pc, claims, lock>> PROVE ClaimHeld'
  BY <1>1 DEF ClaimHeld
<1>2. ASSUME NEW c \in Call, NEW place \in Places \ Claiming, Goto(c, place),
             pc[c] \notin Claiming, UNCHANGED <<claims, lock>>
      PROVE  ClaimHeld'
  BY <1>2, GotoFacts DEF ClaimHeld
<1>3. ASSUME NEW c \in Call, NEW place \in Claiming, Goto(c, place), pc[c] \in Claiming,
             UNCHANGED <<claims, lock>>
      PROVE  ClaimHeld'
  <2>1. place \in Places
    BY DEF Claiming, Places
  <2> QED
    BY <1>3, <2>1, GotoFacts DEF ClaimHeld
<1>4. ASSUME NEW n \in Ctx, RequestSize(n) PROVE ClaimHeld'
  BY <1>1, <1>4 DEF RequestSize
<1>5. ASSUME NEW c \in Call, NEW j \in Job, Ask(c, j) PROVE ClaimHeld'
  BY <1>5 DEF Ask, ClaimHeld, TypeOK, Claiming
<1>6. ASSUME NEW c \in Call, ensure_serving(c) PROVE ClaimHeld'
  <2>1. CASE FastPath(c) \/ Fetch(c) \/ WaitOver(c)
    BY <1>2, <2>1 DEF FastPath, Fetch, WaitOver, Places, Claiming, Otherwise
  <2>2. CASE Mark(c) \/ Reread(c)
    BY <1>2, <2>2 DEF Mark, Reread, BeginTurn, EndTurn, Places, Claiming, Otherwise
  <2>3. CASE EvictOther(c) \/ StartEngine(c) \/ Spawn(c) \/ Warm(c)
    BY <1>3, <2>3 DEF EvictOther, StartEngine, Spawn, Warm, Claiming
  <2>4. CASE Landed(c)
    BY <1>3, <2>4 DEF Landed, BeginTurn, Claiming
  <2>5. CASE Claim(c)
    <3>1. CASE UNCHANGED <<lock, claims>> /\ \E place \in {"idle", "wait"} : Goto(c, place)
      BY <1>2, <2>5, <3>1 DEF Claim, Places, Claiming
    <3>2. CASE lock' = c /\ claims' = claims \cup {c} /\ Goto(c, "claimed")
      <4>1. claims = {}
        BY <2>5, Calls DEF Claim, ClaimHeld, TypeOK
      <4>2. pc'[c] = "claimed" /\ \A d \in Call \ {c} : pc'[d] = pc[d]
        BY <3>2, GotoFacts DEF Places
      <4> QED
        BY <3>2, <4>1, <4>2 DEF ClaimHeld, Claiming
    <3> QED
      BY <2>5, <3>1, <3>2 DEF Claim
  <2>6. CASE EndTransition(c)
    <3>1. claims = {c}
      BY <2>6 DEF EndTransition, ClaimHeld, Claiming, TypeOK
    <3>2. pc'[c] \in {"returned", "idle"} /\ \A d \in Call \ {c} : pc'[d] = pc[d]
      BY <2>6, GotoFacts DEF EndTransition, Places
    <3> QED
      BY <2>6, <3>1, <3>2 DEF EndTransition, ClaimHeld, Claiming
  <2> QED
    BY <1>6, <2>1, <2>2, <2>3, <2>4, <2>5, <2>6 DEF ensure_serving
<1>7. ASSUME NEW c \in Call, Take(c) \/ Done(c) PROVE ClaimHeld'
  BY <1>2, <1>7 DEF Take, Done, Abandon, EndTurn, Places, Claiming
<1>8. ASSUME NEW s \in Stopper, NEW c \in Call, LoadDone(s, c) PROVE ClaimHeld'
  BY <1>2, <1>8 DEF LoadDone, Places, Claiming
<1>9. ASSUME NEW c \in Call, Abort(c) PROVE ClaimHeld'
  BY <1>1, <1>9 DEF Abort
<1>10. ASSUME NEW s \in Stopper,
              \/ \E c \in Call : CancelLoad(s, c)
              \/ \E why \in {"ask", "delete"} : AskStop(s, why)
              \/ ReleaseThread(s) \/ stop_if_idle(s)
       PROVE ClaimHeld'
  BY <1>1, <1>10 DEF CancelLoad, AskStop, ReleaseThread, stop_if_idle, Check, StopServer, Flag,
                     ReadPending, Settle
<1> QED
  BY <1>1, <1>4, <1>5, <1>6, <1>7, <1>8, <1>9, <1>10 DEF Next, Caller

(* The one call that holds the lock keeps at most one model resident. *)
LEMMA PlacedKept == Base /\ Placed /\ [Next]_vars => Placed'
<1> SUFFICES ASSUME Base, Placed, [Next]_vars PROVE Placed'
  OBVIOUS
<1> USE DEF Base, busyVars, callVars, engineVars, vars
<1>0. ClaimHeld'
  BY ClaimKept DEF Placed
(* A step that leaves the engines alone, and brings no call to a start. *)
<1>1. ASSUME UNCHANGED <<server, pc, job>> PROVE Placed'
  BY <1>0, <1>1 DEF Placed, OneResident, Evicted, AtHome, Running, Other, Home
<1>2. ASSUME NEW c \in Call, NEW place \in Places \ {"start", "spawn"}, Goto(c, place),
             UNCHANGED server
      PROVE  Placed'
  BY <1>0, <1>2, GotoFacts DEF Placed, OneResident, Evicted, AtHome, Running, Other, Home
(* While one call is at its start nobody else is. *)
<1>3. ASSUME NEW c \in Call, pc[c] \in Claiming
      PROVE  \A d \in Call : pc[d] \in Claiming => d = c
  BY <1>3 DEF Placed, ClaimHeld
<1>4. ASSUME NEW n \in Ctx, RequestSize(n) PROVE Placed'
  BY <1>1, <1>4 DEF RequestSize
<1>5. ASSUME NEW c \in Call, NEW j \in Job, Ask(c, j) PROVE Placed'
  BY <1>0, <1>5 DEF Ask, TypeOK, Placed, OneResident, Evicted, AtHome, Running, Other, Home
<1>6. ASSUME NEW c \in Call, ensure_serving(c) PROVE Placed'
  <2>1. CASE FastPath(c) \/ Fetch(c) \/ WaitOver(c) \/ Mark(c) \/ Reread(c) \/ Claim(c)
             \/ Landed(c) \/ EndTransition(c)
    BY <1>2, <2>1 DEF FastPath, Fetch, WaitOver, Mark, Reread, Claim, Landed, EndTransition, Places,
                      Otherwise
  <2>2. ASSUME NEW place \in {"start", "spawn", "warming", "landed", "raising"}, Goto(c, place),
               pc[c] \in Claiming
        PROVE  /\ pc'[c] = place /\ job' = job
               /\ \A d \in Call : pc'[d] \in {"start", "spawn"} => d = c
    <3>1. place \in Places
      BY DEF Places
    <3> QED
      BY <1>3, <2>2, <3>1, GotoFacts DEF Claiming
  <2>3. CASE EvictOther(c)
    <3>1. pc'[c] = "start" /\ job' = job /\ \A d \in Call : pc'[d] \in {"start", "spawn"} => d = c
      BY <2>2, <2>3 DEF EvictOther, Claiming
    <3>2. server'[Other(c)] = NoServer /\ server'[Home(c)] = server[Home(c)]
      BY <2>3, Engines DEF EvictOther, TypeOK
    <3>3. OneResident'
      BY <3>2, Engines DEF OneResident
    <3>4. Evicted'
      BY <3>1, <3>2 DEF Evicted, Other, Home
    <3>5. AtHome'
      BY <3>2, Engines DEF Placed, AtHome, Running
    <3> QED
      BY <1>0, <3>3, <3>4, <3>5 DEF Placed
  <2>4. CASE StartEngine(c)
    <3>1. server[Other(c)] = NoServer
      BY <2>4 DEF StartEngine, Placed, Evicted
    <3>2. job' = job /\ \A d \in Call : pc'[d] \in {"start", "spawn"} => d = c
      BY <2>2, <2>4 DEF StartEngine, Claiming
    <3>3. server'[Other(c)] = NoServer
      BY <2>4, <3>1, Engines DEF StartEngine, TypeOK
    <3>4. server'[Home(c)] # NoServer => server[Home(c)] \in Server
                                         /\ server'[Home(c)].key = server[Home(c)].key
      BY <2>4, Engines DEF StartEngine, Reuses, Running, Server, TypeOK
    <3>5. OneResident'
      BY <3>3, Engines DEF OneResident
    <3>6. Evicted'
      BY <3>2, <3>3 DEF Evicted, Other, Home
    <3>7. AtHome'
      BY <3>3, <3>4, Engines, NoServerIsNoServer DEF Placed, AtHome, Running
    <3> QED
      BY <1>0, <3>5, <3>6, <3>7 DEF Placed
  <2>5. CASE Spawn(c)
    <3>1. server[Other(c)] = NoServer
      BY <2>5 DEF Spawn, Placed, Evicted
    <3>2. job' = job /\ \A d \in Call : pc'[d] \notin {"start", "spawn"}
      BY <2>2, <2>5 DEF Spawn, Claiming
    <3>3. server'[Other(c)] = NoServer
      BY <2>5, <3>1, Engines DEF Spawn, TypeOK
    <3>4. server'[Home(c)] = server[Home(c)] \/ server'[Home(c)].key = job[c].key
      BY <2>5, Engines DEF Spawn, TypeOK
    <3>5. OneResident' /\ Evicted'
      BY <3>2, <3>3, Engines DEF OneResident, Evicted
    <3>6. AtHome'
      BY <3>3, <3>4, Engines DEF Placed, AtHome, Running, Home
    <3> QED
      BY <1>0, <3>5, <3>6 DEF Placed
  <2>6. CASE Warm(c)
    <3>1. job' = job /\ \A d \in Call : pc'[d] \notin {"start", "spawn"}
      BY <2>2, <2>6 DEF Warm, Claiming
    <3>2. server'[Other(c)] = server[Other(c)]
      BY <2>6, Engines DEF Warm, TypeOK
    <3>3. \/ server'[Home(c)] = NoServer
          \/ server[Home(c)] # NoServer /\ server'[Home(c)].key = server[Home(c)].key
      <4>1. server[Home(c)] \in Server \cup {NoServer}
        BY Engines DEF TypeOK
      <4> QED
        BY <2>6, <4>1, Engines DEF Warm, Running, Server, TypeOK
    <3>4. OneResident' /\ Evicted'
      BY <3>1, <3>2, <3>3, Engines DEF Placed, OneResident, Evicted
    <3>5. AtHome'
      BY <3>2, <3>3, Engines DEF Placed, AtHome, Running
    <3> QED
      BY <1>0, <3>4, <3>5 DEF Placed
  <2> QED
    BY <1>6, <2>1, <2>3, <2>4, <2>5, <2>6 DEF ensure_serving
<1>7. ASSUME NEW c \in Call, Take(c) \/ Done(c) PROVE Placed'
  BY <1>2, <1>7 DEF Take, Done, Places
<1>8. ASSUME NEW s \in Stopper, NEW c \in Call, LoadDone(s, c) PROVE Placed'
  BY <1>2, <1>8 DEF LoadDone, Places
<1>9. ASSUME NEW c \in Call, Abort(c) PROVE Placed'
  BY <1>1, <1>9 DEF Abort
<1>10. ASSUME NEW s \in Stopper, StopServer(s) PROVE Placed'
  <2>1. \A e \in Engine : server'[e] = NoServer
    BY <1>10 DEF StopServer, Empty
  <2> QED
    BY <1>0, <1>10, <2>1, Engines
       DEF StopServer, Placed, OneResident, Evicted, AtHome, Running, Other, Home, Engine
<1>11. ASSUME NEW s \in Stopper,
              \/ \E c \in Call : CancelLoad(s, c)
              \/ \E why \in {"ask", "delete"} : AskStop(s, why)
              \/ ReleaseThread(s) \/ Check(s) \/ Flag(s) \/ ReadPending(s) \/ Settle(s)
       PROVE Placed'
  BY <1>1, <1>11 DEF CancelLoad, AskStop, ReleaseThread, Check, Flag, ReadPending, Settle
<1> QED
  BY <1>1, <1>4, <1>5, <1>6, <1>7, <1>8, <1>9, <1>10, <1>11 DEF Next, Caller, stop_if_idle

(* At most one local model is resident, across both engines, with any      *)
(* number of calls, stops and aborts.                                      *)
THEOREM OnlyOneResident == Spec => []OneResident
<1>1. Init => Base /\ Placed
  <2>1. Init => Base
    BY InitBase
  <2>2. Init => Placed
    BY DEF Init, Placed, ClaimHeld, OneResident, Evicted, AtHome, Running, Empty, Claiming, Engine
  <2> QED
    BY <2>1, <2>2
<1> QED
  BY <1>1, BaseKept, PlacedKept, PTL DEF Spec, Placed

-----------------------------------------------------------------------------
(* Only calls that will hold a mark reach for one. *)
MarkKinds == \A c \in Call : pc[c] \in {"mark", "reread"} => Marks(c)

(* Only a turn or a load that is under way has been aborted. *)
AbortKinds == \A c \in aborted : pc[c] # "idle" /\ job[c].kind \in {"turn", "load"}

(* The call that a stop spares is a load, or over. *)
OwnerKinds ==
    \A s \in Stopper, c \in Call :
        stopper[s].owner = c => pc[c] = "idle" \/ job[c].kind = "load"

(* A call that counts on a server: it holds a mark, or a claim that will   *)
(* become one.                                                             *)
InPlay(c) ==
    pc[c] # "idle" /\ Marks(c)
    /\ pc[c] \in Claiming \cup {"reread", "leaving", "returned", "using"}

(* A stop is under way only while there is none. *)
StopExclusive == stopping > 0 => \A c \in Call : ~InPlay(c)

Quiet == MarkKinds /\ AbortKinds /\ OwnerKinds /\ BusyIsMarks /\ StopExclusive

(* The count of marks when the mark of one call stays, comes or goes. *)
LEMMA MarkMoves ==
    ASSUME TypeOK, BusyIsMarks, NEW c \in Call,
           \A d \in Call \ {c} : pc'[d] = pc[d] /\ job'[d] = job[d],
           \/ (Marked(c)' <=> Marked(c)) /\ busy' = busy
           \/ ~Marked(c) /\ Marked(c)' /\ BeginTurn
           \/ Marked(c) /\ ~Marked(c)' /\ EndTurn
    PROVE  BusyIsMarks'
<1> DEFINE M == {d \in Call : Marked(d)}
<1>1. \A d \in Call \ {c} : Marked(d)' <=> Marked(d)
  BY DEF Marked, Marks
<1>2. busy = Cardinality(M) /\ M \in SUBSET Call /\ M' \in SUBSET Call
  BY DEF BusyIsMarks
<1>3. CASE (Marked(c)' <=> Marked(c)) /\ busy' = busy
  <2>1. M' = M
    BY <1>1, <1>3
  <2> QED
    BY <1>2, <1>3, <2>1 DEF BusyIsMarks
<1>4. CASE ~Marked(c) /\ Marked(c)' /\ BeginTurn
  <2>1. c \notin M /\ M' = M \cup {c}
    BY <1>1, <1>4
  <2> HIDE DEF M
  <2>2. Cardinality(M') = Cardinality(M) + 1
    BY <1>2, <2>1, Calls, Counting
  <2>3. busy' = Cardinality(M')
    BY <1>2, <1>4, <2>2 DEF BeginTurn
  <2> QED
    BY <2>3 DEF BusyIsMarks, M
<1>5. CASE Marked(c) /\ ~Marked(c)' /\ EndTurn
  <2>1. c \in M /\ M' = M \ {c}
    BY <1>1, <1>5
  <2> HIDE DEF M
  <2>2. Cardinality(M) > 0 /\ Cardinality(M') = Cardinality(M) - 1
    BY <1>2, <2>1, Calls, Counting
  <2>3. busy' = Cardinality(M')
    BY <1>2, <1>5, <2>2 DEF EndTurn
  <2> QED
    BY <2>3 DEF BusyIsMarks, M
<1> QED
  BY <1>3, <1>4, <1>5

(* Nobody holds a mark when no turn is busy. *)
LEMMA NoMarks ==
    ASSUME BusyIsMarks, busy = 0, NEW c \in Call
    PROVE  ~Marked(c)
<1>1. {d \in Call : Marked(d)} = {}
  BY Calls, FS_Subset, FS_EmptySet DEF BusyIsMarks
<1> QED
  BY <1>1

(* What a step of one call leaves of the marks, the kinds and the stops:   *)
(* it comes into play only while nothing is being stopped.                 *)
LEMMA QuietMove ==
    ASSUME Base, Quiet, NEW c \in Call, NEW place \in Places, Goto(c, place), pc[c] # "idle",
           stopping' = stopping, stopper' = stopper,
           place \in {"mark", "reread"} => Marks(c),
           InPlay(c)' => InPlay(c) \/ stopping = 0,
           \/ (Marked(c)' <=> Marked(c)) /\ busy' = busy
           \/ ~Marked(c) /\ Marked(c)' /\ BeginTurn
           \/ Marked(c) /\ ~Marked(c)' /\ EndTurn
    PROVE  Quiet'
<1> USE DEF Base, Quiet
<1>1. /\ pc'[c] = place
      /\ \A d \in Call \ {c} : pc'[d] = pc[d] /\ job'[d] = job[d]
      /\ place # "idle" => UNCHANGED <<job, aborted>>
      /\ place = "idle" => aborted' = aborted \ {c}
  BY GotoFacts
<1>2. MarkKinds'
  BY <1>1 DEF MarkKinds, Marks
<1>3. AbortKinds'
  BY <1>1 DEF AbortKinds, TypeOK
<1>4. OwnerKinds'
  BY <1>1 DEF OwnerKinds
<1>5. BusyIsMarks'
  BY <1>1, MarkMoves
<1>6. StopExclusive'
  <2>1. \A d \in Call \ {c} : InPlay(d)' => InPlay(d)
    BY <1>1 DEF InPlay, Marks
  <2> QED
    BY <2>1 DEF StopExclusive, TypeOK
<1> QED
  BY <1>2, <1>3, <1>4, <1>5, <1>6

(* A mark is taken and given back once, and no stop begins beside one. *)
LEMMA QuietKept == Base /\ ClaimHeld /\ Quiet /\ [Next]_vars => Quiet'
<1> SUFFICES ASSUME Base, ClaimHeld, Quiet, [Next]_vars PROVE Quiet'
  OBVIOUS
<1> USE DEF Base, busyVars, callVars, engineVars, vars
(* What moves no call. *)
<1>1. ASSUME UNCHANGED <<pc, job, busy, aborted>>, OwnerKinds', StopExclusive' PROVE Quiet'
  BY <1>1 DEF Quiet, MarkKinds, AbortKinds, BusyIsMarks, Marked, Marks
<1>2. ASSUME UNCHANGED <<pc, job, stopper, stopping>> PROVE OwnerKinds' /\ StopExclusive'
  BY <1>2 DEF Quiet, OwnerKinds, StopExclusive, InPlay, Marks
<1>3. ASSUME NEW n \in Ctx, RequestSize(n) PROVE Quiet'
  BY <1>1, <1>2, <1>3 DEF RequestSize
<1>4. ASSUME NEW c \in Call, NEW j \in Job, Ask(c, j) PROVE Quiet'
  <2>1. /\ pc[c] = "idle" /\ pc'[c] = "fast"
        /\ \A d \in Call \ {c} : pc'[d] = pc[d] /\ job'[d] = job[d]
        /\ \A s \in Stopper : stopper[s].owner # c
        /\ UNCHANGED <<busy, aborted, stopper, stopping>>
    BY <1>4 DEF Ask, TypeOK
  <2>2. MarkKinds' /\ AbortKinds' /\ OwnerKinds'
    BY <2>1 DEF Quiet, MarkKinds, AbortKinds, OwnerKinds, Marks, TypeOK
  <2>3. BusyIsMarks'
    BY <2>1, MarkMoves DEF Marked, Quiet
  <2>4. StopExclusive'
    BY <2>1 DEF Quiet, StopExclusive, InPlay, Marks, Claiming
  <2> QED
    BY <2>2, <2>3, <2>4 DEF Quiet
<1>5. ASSUME NEW c \in Call, ensure_serving(c) PROVE Quiet'
  <2> USE DEF Places
  <2>0. pc[c] # "idle" /\ UNCHANGED <<stopping, stopper>>
    BY <1>5 DEF ensure_serving, FastPath, Mark, Reread, Fetch, WaitOver, Claim, EvictOther,
                StartEngine, Spawn, Warm, Landed, EndTransition, BeginTurn, EndTurn
  (* A step between two places where no mark is held. *)
  <2>1. ASSUME NEW place \in Places \ {"mark", "reread", "leaving", "returned", "using"},
               Goto(c, place), busy' = busy,
               pc[c] \notin {"reread", "leaving", "returned", "using"},
               place \in Claiming => pc[c] \in Claiming \/ stopping = 0
        PROVE  Quiet'
    <3>1. pc'[c] = place /\ (place # "idle" => job' = job)
      BY <2>1, GotoFacts
    <3>2. ~Marked(c) /\ ~Marked(c)'
      BY <2>1, <3>1 DEF Marked
    <3>3. InPlay(c)' => InPlay(c) \/ stopping = 0
      BY <2>0, <2>1, <3>1 DEF InPlay, Marks
    <3> QED
      BY <2>0, <2>1, <3>2, <3>3, QuietMove
  <2>2. CASE FastPath(c)
    <3>1. CASE Goto(c, "mark")
      <4>1. pc'[c] = "mark" /\ Marks(c)
        BY <2>2, <3>1, GotoFacts DEF FastPath, Otherwise
      <4> QED
        BY <2>0, <2>2, <3>1, <4>1, QuietMove DEF FastPath, Marked, InPlay, Claiming
    <3>2. CASE Goto(c, "returned")
      <4>1. pc'[c] = "returned" /\ job' = job /\ ~Marks(c)
        BY <2>2, <3>2, GotoFacts DEF FastPath, Otherwise
      <4>2. ~Marks(c)'
        BY <4>1 DEF Marks
      <4> QED
        BY <2>0, <2>2, <3>2, <4>1, <4>2, QuietMove DEF FastPath, Marked, InPlay
    <3>3. CASE \E place \in {"idle", "fetch"} : Goto(c, place)
      BY <2>1, <2>2, <3>3 DEF FastPath, Claiming
    <3> QED
      BY <2>2, <3>1, <3>2, <3>3 DEF FastPath, Otherwise
  <2>3. CASE Mark(c)
    <3>1. CASE NoTransition
      <4>1. pc'[c] = "reread" /\ job' = job /\ Marks(c) /\ pc[c] = "mark"
        BY <2>3, <3>1, GotoFacts DEF Mark, Quiet, MarkKinds
      <4>2. Marked(c)' /\ ~Marked(c)
        BY <4>1 DEF Marked, Marks
      <4> QED
        BY <2>0, <2>3, <3>1, <4>1, <4>2, QuietMove DEF Mark, NoTransition
    <3>2. CASE ~NoTransition
      BY <2>1, <2>3, <3>2 DEF Mark, Otherwise, Claiming
    <3> QED
      BY <3>1, <3>2
  <2>4. CASE Reread(c)
    <3>0. Marked(c) /\ Marks(c) /\ InPlay(c)
      BY <2>4 DEF Reread, Quiet, MarkKinds, Marked, InPlay
    <3>1. CASE Served(c)
      <4>1. pc'[c] = "returned" /\ job' = job
        BY <2>4, <3>1, GotoFacts DEF Reread
      <4>2. Marked(c)'
        BY <3>0, <4>1 DEF Marked, Marks
      <4> QED
        BY <2>0, <2>4, <3>0, <3>1, <4>2, QuietMove DEF Reread
    <3>2. CASE ~Served(c)
      <4>1. pc'[c] \in {"idle", "fetch"}
        BY <2>4, <3>2, GotoFacts DEF Reread, Otherwise
      <4>2. ~Marked(c)'
        BY <4>1 DEF Marked
      <4> QED
        BY <2>0, <2>4, <3>0, <3>2, <4>2, QuietMove DEF Reread, Otherwise
    <3> QED
      BY <3>1, <3>2
  <2>5. CASE Fetch(c) \/ WaitOver(c)
    BY <2>1, <2>5 DEF Fetch, WaitOver, Claiming
  <2>6. CASE Claim(c)
    <3>1. CASE Goto(c, "claimed") /\ ~HeldOff(c)
      <4>1. stopping = 0
        BY <3>1 DEF HeldOff, TypeOK
      <4> QED
        BY <2>1, <2>6, <3>1, <4>1 DEF Claim, Claiming
    <3>2. CASE \E place \in {"idle", "wait"} : Goto(c, place)
      BY <2>1, <2>6, <3>2 DEF Claim, Claiming
    <3> QED
      BY <2>6, <3>1, <3>2 DEF Claim
  <2>7. CASE EvictOther(c) \/ StartEngine(c) \/ Spawn(c) \/ Warm(c)
    BY <2>1, <2>7 DEF EvictOther, StartEngine, Spawn, Warm, Claiming
  <2>8. CASE Landed(c)
    <3>1. pc'[c] = "leaving" /\ job' = job /\ pc[c] = "landed"
      BY <2>8, GotoFacts DEF Landed
    <3>2. InPlay(c)' => InPlay(c)
      BY <3>1 DEF InPlay, Marks, Claiming
    <3>3. ~Marked(c) /\ (Marked(c)' <=> Marks(c))
      BY <3>1 DEF Marked, Marks
    <3> QED
      BY <2>0, <2>8, <3>2, <3>3, QuietMove DEF Landed
  <2>9. CASE EndTransition(c)
    <3>1. CASE pc[c] = "leaving"
      <4>1. pc'[c] = "returned" /\ job' = job /\ Goto(c, "returned")
        BY <2>9, <3>1, GotoFacts DEF EndTransition
      <4>2. (InPlay(c)' <=> InPlay(c)) /\ (Marked(c)' <=> Marked(c))
        BY <3>1, <4>1 DEF InPlay, Marked, Marks
      <4> QED
        BY <2>0, <2>9, <4>1, <4>2, QuietMove DEF EndTransition
    <3>2. CASE pc[c] = "raising"
      BY <2>1, <2>9, <3>2 DEF EndTransition, Claiming
    <3> QED
      BY <2>9, <3>1, <3>2 DEF EndTransition
  <2> QED
    BY <1>5, <2>2, <2>3, <2>4, <2>5, <2>6, <2>7, <2>8, <2>9 DEF ensure_serving
<1>6. ASSUME NEW c \in Call, Take(c) PROVE Quiet'
  <2>1. pc[c] = "returned" /\ UNCHANGED <<stopping, stopper>>
    BY <1>6 DEF Take, Abandon, EndTurn
  <2>2. CASE c \in aborted
    <3>1. Goto(c, "idle") /\ EndTurn /\ pc'[c] = "idle"
      BY <1>6, <2>2, GotoFacts DEF Take, Abandon, Places
    <3>2. Marked(c) /\ ~Marked(c)' /\ ~InPlay(c)'
      BY <1>6, <2>1, <2>2, <3>1 DEF Take, Quiet, AbortKinds, Marked, Marks, InPlay
    <3> QED
      BY <2>1, <3>1, <3>2, QuietMove DEF Places
  <2>3. CASE c \notin aborted
    <3>1. Goto(c, "using") /\ UNCHANGED busy /\ pc'[c] = "using" /\ job' = job
      BY <1>6, <2>3, GotoFacts DEF Take, Places
    <3>2. (Marked(c)' <=> Marked(c)) /\ (InPlay(c)' <=> InPlay(c))
      BY <2>1, <3>1 DEF Marked, Marks, InPlay
    <3> QED
      BY <2>1, <3>1, <3>2, QuietMove DEF Places
  <2> QED
    BY <2>2, <2>3
<1>7. ASSUME NEW c \in Call, Done(c) PROVE Quiet'
  <2>1. /\ pc[c] = "using" /\ UNCHANGED <<stopping, stopper>>
        /\ Goto(c, "idle") /\ pc'[c] = "idle"
    BY <1>7, GotoFacts DEF Done, EndTurn, Places
  <2>2. ~Marked(c)' /\ ~InPlay(c)' /\ (Marked(c) <=> Marks(c))
    BY <2>1 DEF Marked, InPlay
  <2> QED
    BY <1>7, <2>1, <2>2, QuietMove DEF Done, Places
<1>8. ASSUME NEW s \in Stopper, NEW c \in Call, LoadDone(s, c) PROVE Quiet'
  <2>1. /\ pc[c] = "returned" /\ job[c].kind = "load" /\ pc'[c] = "idle"
        /\ \A d \in Call \ {c} : pc'[d] = pc[d] /\ job'[d] = job[d]
        /\ aborted' = aborted \ {c} /\ UNCHANGED <<busy, stopping>>
    BY <1>8, GotoFacts DEF LoadDone, Places
  <2>2. \A t \in Stopper, d \in Call : stopper'[t].owner = d => d = c \/ stopper[t].owner = d
    BY <1>8 DEF LoadDone, BeginStop, TypeOK
  <2>3. MarkKinds' /\ AbortKinds'
    BY <2>1 DEF Quiet, MarkKinds, AbortKinds, Marks, TypeOK
  <2>4. OwnerKinds'
    BY <2>1, <2>2 DEF Quiet, OwnerKinds
  <2>5. BusyIsMarks'
    <3>1. ~Marked(c) /\ ~Marked(c)'
      BY <2>1 DEF Marked, Marks
    <3> QED
      BY <2>1, <3>1, MarkMoves DEF Quiet
  <2>6. StopExclusive'
    BY <2>1 DEF Quiet, StopExclusive, InPlay, Marks
  <2> QED
    BY <2>3, <2>4, <2>5, <2>6 DEF Quiet
<1>9. ASSUME NEW c \in Call, Abort(c) PROVE Quiet'
  <2>1. OwnerKinds' /\ StopExclusive'
    BY <1>2, <1>9 DEF Abort
  <2> QED
    BY <1>9, <2>1 DEF Abort, Quiet, MarkKinds, AbortKinds, BusyIsMarks, Marked, Marks
(* The stops. *)
<1>10. ASSUME NEW s \in Stopper, NEW c \in Call, CancelLoad(s, c) PROVE Quiet'
  <2>1. \A t \in Stopper, d \in Call : stopper'[t].owner = d => d = c \/ stopper[t].owner = d
    BY <1>10 DEF CancelLoad, BeginStop, TypeOK
  <2>2. OwnerKinds'
    BY <1>10, <2>1 DEF CancelLoad, Quiet, OwnerKinds
  <2>3. StopExclusive'
    BY <1>10 DEF CancelLoad, Quiet, StopExclusive, InPlay, Marks
  <2> QED
    BY <1>1, <1>10, <2>2, <2>3 DEF CancelLoad
<1>11. ASSUME NEW s \in Stopper,
              \/ \E why \in {"ask", "delete"} : AskStop(s, why)
              \/ ReleaseThread(s) \/ Flag(s) \/ ReadPending(s) \/ Settle(s) \/ StopServer(s)
              \/ Check(s) /\ ~MayStop(s)
       PROVE Quiet'
  <2>1. UNCHANGED <<pc, job, busy, aborted>> /\ stopping' <= stopping
    BY <1>11 DEF AskStop, ReleaseThread, Flag, ReadPending, Settle, StopServer, Check, TypeOK
  <2>2. \A t \in Stopper, d \in Call : stopper'[t].owner = d => stopper[t].owner = d
    <3>1. \/ StopDone(s) \/ \E at \in StopPlaces : StopStep(s, at)
          \/ \E at, why, k : BeginStop(s, at, why, k, NoCall)
          \/ stopper' = [stopper EXCEPT ![s].at = "settle", ![s].ok = TRUE]
          \/ stopper' = [stopper EXCEPT ![s].at = "pending", ![s].why = "release"]
          \/ stopper' = [stopper EXCEPT ![s].at = "check", ![s].key = pending]
      BY <1>11 DEF AskStop, ReleaseThread, Flag, ReadPending, Settle, StopServer, Check, StopPlaces
    <3>2. \A t \in Stopper : stopper'[t].owner \in {stopper[t].owner, NoCall}
      BY <3>1 DEF BeginStop, StopStep, StopDone, NoStop, TypeOK
    <3> QED
      BY <3>2, Calls
  <2>3. OwnerKinds'
    BY <2>1, <2>2 DEF Quiet, OwnerKinds
  <2>4. stopping' \in Nat
    BY BaseKept DEF TypeOK
  <2>5. StopExclusive'
    BY <2>1, <2>4 DEF Quiet, StopExclusive, InPlay, Marks, TypeOK
  <2> QED
    BY <1>1, <2>1, <2>3, <2>5
<1>12. ASSUME NEW s \in Stopper, Check(s), MayStop(s) PROVE Quiet'
  <2>1. \A c \in Call : ~InPlay(c)
    <3>1. SUFFICES ASSUME NEW c \in Call, InPlay(c) PROVE FALSE
      OBVIOUS
    <3>2. ~Marked(c)
      BY <1>12, NoMarks DEF MayStop, Quiet
    <3>3. pc[c] \in Claiming
      BY <3>1, <3>2 DEF InPlay, Marked
    <3>4. c \in claims
      BY <3>3 DEF ClaimHeld
    <3>5. stopper[s].owner = c
      BY <1>12, <3>4 DEF MayStop, ForeignClaim
    <3>6. job[c].kind = "load"
      BY <3>1, <3>5 DEF Quiet, OwnerKinds, InPlay
    <3> QED
      BY <3>1, <3>6 DEF InPlay, Marks
  <2>2. UNCHANGED <<pc, job, busy, aborted>>
    BY <1>12 DEF Check
  <2>3. \A t \in Stopper : stopper'[t].owner = stopper[t].owner
    BY <1>12 DEF Check, StopStep, TypeOK
  <2>4. OwnerKinds'
    BY <2>2, <2>3 DEF Quiet, OwnerKinds
  <2>5. StopExclusive'
    BY <2>1, <2>2 DEF StopExclusive, InPlay, Marks
  <2> QED
    BY <1>1, <2>2, <2>4, <2>5
<1>13. CASE UNCHANGED vars
  BY <1>1, <1>2, <1>13
<1> QED
  BY <1>3, <1>4, <1>5, <1>6, <1>7, <1>8, <1>9, <1>10, <1>11, <1>12, <1>13
     DEF Next, Caller, stop_if_idle

(* Nothing holds a mark at the start. *)
LEMMA InitQuiet == Init => Base /\ ClaimHeld /\ Quiet
<1> SUFFICES ASSUME Init PROVE Base /\ ClaimHeld /\ Quiet
  OBVIOUS
<1>1. ClaimHeld
  BY DEF Init, ClaimHeld, Claiming
<1>2. {c \in Call : Marked(c)} = {}
  BY DEF Init, Marked
<1>3. BusyIsMarks
  BY <1>2, FS_EmptySet DEF Init, BusyIsMarks
<1> QED
  BY <1>1, <1>3, InitBase, Calls
     DEF Init, Quiet, MarkKinds, AbortKinds, OwnerKinds, StopExclusive, InPlay, NoStop

(* The count of busy turns is the number of calls that hold a mark. *)
THEOREM MarksCounted == Spec => []BusyIsMarks
  BY InitQuiet, BaseKept, ClaimKept, QuietKept, PTL DEF Spec, Quiet

(* While a server is being stopped nobody streams from one. *)
THEOREM StopsAlone == Spec => []StopAlone
<1>1. Quiet => StopAlone
  BY DEF Quiet, StopExclusive, StopAlone, Streams, InPlay, Claiming
<1> QED
  BY <1>1, InitQuiet, BaseKept, ClaimKept, QuietKept, PTL DEF Spec

-----------------------------------------------------------------------------
(* A server that has yet to answer is being warmed up. *)
Unanswered ==
    \A e \in Engine :
        Running(e) /\ ~server[e].ready => \E c \in Call : pc[c] = "warming" /\ Home(c) = e

(* What a call warms up is its own model. *)
WarmsOwn ==
    \A c \in Call : pc[c] = "warming" /\ Running(Home(c)) =>
        server[Home(c)].key = job[c].key /\ ~server[Home(c)].ready

(* The engine of a call serves its model, and has answered. *)
Serves(c) == Running(Home(c)) /\ server[Home(c)].key = job[c].key /\ server[Home(c)].ready

LandedReady == \A c \in Call : pc[c] \in {"landed", "leaving"} /\ Marks(c) => Serves(c)

(* What is resident is what the call asks for. *)
Suits(c) ==
    \A e \in Engine : Running(e) => server[e].key = job[c].key
                                    /\ job[c].size \in {NoSize, server[e].ctx}

(* A claim made while others hold marks displaces nothing. *)
ClaimSuits ==
    \A c \in Call : pc[c] \in {"claimed", "start"} /\ (\E d \in Call \ {c} : Marked(d)) => Suits(c)

Ready == Unanswered /\ WarmsOwn /\ LandedReady /\ ClaimSuits

IInv == Base /\ Placed /\ Quiet /\ Ready

-----------------------------------------------------------------------------
(* What is resident is found on the engine that runs it. *)
LEMMA ResidentFacts ==
    ASSUME Base, Placed, NEW e \in Engine, Running(e)
    PROVE  ResidentEngine = e /\ Resident = server[e].key /\ Resident # NoKey
<1>1. server # Empty
  BY DEF Running, Empty
<1>2. ResidentEngine = e
  BY DEF ResidentEngine, Placed, OneResident, Running, Engine
<1>3. server[e] \in Server
  BY DEF Base, TypeOK, Running
<1> QED
  BY <1>1, <1>2, <1>3, Models DEF Resident, Server

(* A claim that is granted beside a mark suits what is resident. *)
LEMMA GrantSuits ==
    ASSUME Base, Placed, Quiet, NEW c \in Call, ~HeldOff(c), NEW d \in Call, Marked(d)
    PROVE  Suits(c)
<1>1. busy > 0
  BY NoMarks DEF Base, TypeOK, Quiet
<1>2. ~WouldDisplace(c)
  BY <1>1 DEF HeldOff
<1> QED
  BY <1>2, ResidentFacts DEF WouldDisplace, Suits

(* A step that leaves the engines alone. *)
LEMMA ReadyMove ==
    ASSUME IInv, NEW c \in Call, NEW place \in Places, Goto(c, place), UNCHANGED server,
           pc[c] # "warming", place \notin {"warming", "start"},
           place \in {"landed", "leaving"} /\ Marks(c) => Serves(c),
           place = "claimed" => ~HeldOff(c),
           Marked(c)' => Marked(c) \/ \A d \in Call \ {c} : pc[d] \notin {"claimed", "start"}
    PROVE  Ready'
<1> USE DEF IInv, Base
<1>1. /\ pc'[c] = place
      /\ \A d \in Call \ {c} : pc'[d] = pc[d] /\ job'[d] = job[d]
      /\ place # "idle" => job' = job
  BY GotoFacts
<1>2. Unanswered'
  <2>1. \A d \in Call : pc[d] = "warming" => pc'[d] = "warming" /\ Home(d)' = Home(d)
    BY <1>1 DEF Home
  <2> QED
    BY <2>1 DEF Ready, Unanswered, Running
<1>3. WarmsOwn'
  BY <1>1 DEF Ready, WarmsOwn, Running, Home
<1>4. LandedReady'
  <2>1. \A d \in Call : (d # c \/ place # "idle") => (Serves(d)' <=> Serves(d)) /\ (Marks(d)' <=> Marks(d))
    BY <1>1 DEF Serves, Running, Home, Marks
  <2> QED
    BY <1>1, <2>1 DEF Ready, LandedReady
<1>5. ClaimSuits'
  <2> SUFFICES ASSUME NEW d \in Call, pc'[d] \in {"claimed", "start"},
                      NEW o \in Call \ {d}, Marked(o)'
               PROVE  Suits(d)'
    BY DEF ClaimSuits
  <2>1. job'[d] = job[d]
    BY <1>1
  <2>2. Suits(d)' <=> Suits(d)
    BY <2>1 DEF Suits, Running
  <2>3. CASE d = c
    <3>1. Marked(o)
      BY <1>1, <2>3 DEF Marked, Marks
    <3> QED
      BY <1>1, <2>2, <2>3, <3>1, GrantSuits
  <2>4. CASE d # c
    <3>1. Marked(o)
      BY <1>1, <2>4 DEF Marked, Marks
    <3> QED
      BY <1>1, <2>2, <2>4, <3>1 DEF Ready, ClaimSuits
  <2> QED
    BY <2>3, <2>4
<1> QED
  BY <1>2, <1>3, <1>4, <1>5 DEF Ready

(* What the holder of the lock may count on: it is alone. *)
LEMMA HolderAlone ==
    ASSUME ClaimHeld, NEW c \in Call, pc[c] \in Claiming
    PROVE  \A d \in Call : pc[d] \in Claiming => d = c
  BY DEF ClaimHeld

(* Each step of the holder of the lock on the engines. *)
LEMMA EngineKept ==
    ASSUME IInv, NEW c \in Call, EvictOther(c) \/ StartEngine(c) \/ Spawn(c) \/ Warm(c)
    PROVE  Ready'
<1> USE DEF IInv, Base, Placed, engineVars, busyVars
<1>1. \E place \in {"start", "spawn", "warming", "landed", "raising"} :
          Goto(c, place) /\ pc'[c] = place
  BY GotoFacts DEF EvictOther, StartEngine, Spawn, Warm, Places
<1>2. job' = job /\ \A d \in Call \ {c} : pc'[d] = pc[d]
  BY <1>1, GotoFacts DEF Places
<1>3. pc[c] \in Claiming /\ \A d \in Call \ {c} : pc[d] \notin Claiming
  <2>1. pc[c] \in Claiming
    BY DEF EvictOther, StartEngine, Spawn, Warm, Claiming
  <2> QED
    BY <2>1, HolderAlone
<1>4. \A d \in Call \ {c} : pc'[d] \notin {"claimed", "start", "warming", "landed", "leaving"}
  BY <1>2, <1>3 DEF Claiming
<1>5. (\A d \in Call : Marks(d)' <=> Marks(d)) /\ Home(c)' = Home(c) /\ Other(c)' = Other(c)
  BY <1>2 DEF Marks, Home, Other
<1>6. \A d \in Call \ {c} : Marked(d)' <=> Marked(d)
  BY <1>2, <1>5 DEF Marked
<1>7. server[Home(c)] \in Server \cup {NoServer} /\ DOMAIN server = Engine
  BY Engines DEF TypeOK
<1>8. CASE EvictOther(c)
  <2>1. /\ pc[c] = "claimed" /\ pc'[c] = "start"
        /\ server'[Other(c)] = NoServer /\ server'[Home(c)] = server[Home(c)]
    BY <1>7, <1>8, Engines, GotoFacts DEF EvictOther, Places
  <2>2. Unanswered'
    <3>1. ~(Running(Home(c)) /\ ~server[Home(c)].ready)
      BY <1>3, <2>1, Engines DEF Ready, Unanswered, Claiming
    <3> QED
      BY <2>1, <3>1, Engines DEF Unanswered, Running
  <2>3. WarmsOwn' /\ LandedReady'
    BY <1>4, <2>1 DEF WarmsOwn, LandedReady
  <2>4. ClaimSuits'
    <3>1. Suits(c) => Suits(c)'
      BY <1>2, <2>1, Engines DEF Suits, Running
    <3> QED
      BY <1>4, <1>6, <2>1, <3>1 DEF Ready, ClaimSuits
  <2> QED
    BY <2>2, <2>3, <2>4 DEF Ready
<1>9. CASE StartEngine(c)
  <2>1. pc[c] = "start" /\ server[Other(c)] = NoServer
    BY <1>9 DEF StartEngine, Evicted
  <2>2. server'[Other(c)] = NoServer
    BY <1>7, <1>9, <2>1, Engines DEF StartEngine
  <2>3. CASE Reuses(c)
    <3>1. /\ server'[Home(c)] = [server[Home(c)] EXCEPT !.ctx = Size(c)]
          /\ pc'[c] = "landed"
      BY <1>7, <1>9, <2>3, Engines, GotoFacts DEF StartEngine, Places
    <3>2. server[Home(c)] \in Server /\ server[Home(c)].key = job[c].key /\ Running(Home(c))
      BY <1>7, <2>3 DEF Reuses, Running
    <3>3. server[Home(c)].ready
      BY <1>3, <2>1, <3>2, Engines DEF Ready, Unanswered, Claiming, Server
    <3>4. /\ server'[Home(c)] \in Server /\ server'[Home(c)].key = job[c].key
          /\ server'[Home(c)].ready
      <4>1. server[Home(c)] = [key |-> server[Home(c)].key, ctx |-> server[Home(c)].ctx,
                               ready |-> server[Home(c)].ready]
        BY <3>2 DEF Server
      <4>2. Size(c) \in Ctx
        BY <2>1, JobFields DEF Size, HasJob, TypeOK
      <4> QED
        BY <3>1, <3>2, <3>3, <4>2 DEF Server
    <3>5. Unanswered'
      BY <2>2, <3>4, Engines DEF Unanswered, Running
    <3>6. WarmsOwn' /\ ClaimSuits'
      BY <1>4, <3>1 DEF WarmsOwn, ClaimSuits
    <3>7. LandedReady'
      BY <1>2, <1>4, <1>5, <3>4, NoServerIsNoServer DEF LandedReady, Serves, Running
    <3> QED
      BY <3>5, <3>6, <3>7 DEF Ready
  <2>4. CASE ~Reuses(c)
    <3>1. server'[Home(c)] = NoServer /\ pc'[c] = "spawn"
      BY <1>7, <1>9, <2>4, Engines, GotoFacts DEF StartEngine, Places
    <3>2. Unanswered'
      BY <2>2, <3>1, Engines DEF Unanswered, Running
    <3>3. WarmsOwn' /\ LandedReady' /\ ClaimSuits'
      BY <1>4, <3>1 DEF WarmsOwn, LandedReady, ClaimSuits
    <3> QED
      BY <3>2, <3>3 DEF Ready
  <2> QED
    BY <2>3, <2>4
<1>10. CASE Spawn(c)
  <2>1. pc[c] = "spawn" /\ server[Other(c)] = NoServer
    BY <1>10 DEF Spawn, Evicted
  <2>2. server'[Other(c)] = NoServer
    BY <1>7, <1>10, <2>1, Engines DEF Spawn
  <2>3. CASE Goto(c, "warming")
    <3>1. /\ pc'[c] = "warming"
          /\ server'[Home(c)] = [key |-> job[c].key, ctx |-> target, ready |-> FALSE]
      <4>1. pc'[c] = "warming"
        BY <2>3, GotoFacts DEF Places
      <4>2. ~Goto(c, "raising")
        BY <4>1, GotoFacts DEF Places
      <4> QED
        BY <1>7, <1>10, <4>1, <4>2, Engines DEF Spawn
    <3>2. Unanswered'
      BY <1>5, <2>2, <3>1, Engines DEF Unanswered, Running
    <3>3. WarmsOwn'
      BY <1>2, <1>4, <1>5, <3>1 DEF WarmsOwn
    <3>4. LandedReady' /\ ClaimSuits'
      BY <1>4, <3>1 DEF LandedReady, ClaimSuits
    <3> QED
      BY <3>2, <3>3, <3>4 DEF Ready
  <2>4. CASE ~Goto(c, "warming")
    <3>1. server' = server /\ pc'[c] = "raising"
      BY <1>10, <2>4, GotoFacts DEF Spawn, Places
    <3>2. Unanswered'
      BY <1>3, <2>1, <3>1 DEF Ready, Unanswered, Running, Claiming
    <3>3. WarmsOwn' /\ LandedReady' /\ ClaimSuits'
      BY <1>4, <3>1 DEF WarmsOwn, LandedReady, ClaimSuits
    <3> QED
      BY <3>2, <3>3 DEF Ready
  <2> QED
    BY <2>3, <2>4
<1>11. CASE Warm(c)
  <2>1. pc[c] = "warming" /\ server'[Other(c)] = server[Other(c)]
    BY <1>7, <1>11, Engines DEF Warm
  <2>2. ~(Running(Other(c)) /\ ~server[Other(c)].ready)
    BY <1>3, <2>1, Engines DEF Ready, Unanswered, Claiming
  <2>3. CASE Goto(c, "landed")
    <3>1. /\ pc'[c] = "landed" /\ Running(Home(c))
          /\ server'[Home(c)] = [server[Home(c)] EXCEPT !.ready = TRUE]
      <4>1. pc'[c] = "landed"
        BY <2>3, GotoFacts DEF Places
      <4>2. ~Goto(c, "raising")
        BY <4>1, GotoFacts DEF Places
      <4> QED
        BY <1>7, <1>11, <4>1, <4>2, Engines DEF Warm
    <3>2. server[Home(c)] \in Server /\ server[Home(c)].key = job[c].key
      BY <1>7, <2>1, <3>1 DEF Ready, WarmsOwn, Running
    <3>3. server'[Home(c)] \in Server /\ server'[Home(c)].key = job[c].key /\ server'[Home(c)].ready
      BY <3>1, <3>2 DEF Server
    <3>4. Unanswered'
      BY <2>1, <2>2, <3>3, Engines DEF Unanswered, Running
    <3>5. WarmsOwn' /\ ClaimSuits'
      BY <1>4, <3>1 DEF WarmsOwn, ClaimSuits
    <3>6. LandedReady'
      BY <1>2, <1>4, <1>5, <3>3, NoServerIsNoServer DEF LandedReady, Serves, Running
    <3> QED
      BY <3>4, <3>5, <3>6 DEF Ready
  <2>4. CASE ~Goto(c, "landed")
    <3>1. server'[Home(c)] = NoServer /\ pc'[c] = "raising"
      BY <1>7, <1>11, <2>4, Engines, GotoFacts DEF Warm, Places
    <3>2. Unanswered'
      BY <2>1, <2>2, <3>1, Engines DEF Unanswered, Running
    <3>3. WarmsOwn' /\ LandedReady' /\ ClaimSuits'
      BY <1>4, <3>1 DEF WarmsOwn, LandedReady, ClaimSuits
    <3> QED
      BY <3>2, <3>3 DEF Ready
  <2> QED
    BY <2>3, <2>4
<1> QED
  BY <1>8, <1>9, <1>10, <1>11

(* Every step keeps what makes a landed turn ready and a claim harmless. *)
LEMMA ReadyKept == IInv /\ [Next]_vars => Ready'
<1> SUFFICES ASSUME IInv, [Next]_vars PROVE Ready'
  OBVIOUS
<1> USE DEF IInv, Base, busyVars, callVars, engineVars, vars
<1>1. ASSUME UNCHANGED <<server, pc, job>> PROVE Ready'
  BY <1>1 DEF Ready, Unanswered, WarmsOwn, LandedReady, ClaimSuits, Serves, Suits, Running, Home,
              Marked, Marks
<1>2. ASSUME NEW n \in Ctx, RequestSize(n) PROVE Ready'
  BY <1>1, <1>2 DEF RequestSize
<1>3. ASSUME NEW c \in Call, NEW j \in Job, Ask(c, j) PROVE Ready'
  <2>1. /\ pc[c] = "idle" /\ pc'[c] = "fast" /\ server' = server
        /\ \A d \in Call \ {c} : pc'[d] = pc[d] /\ job'[d] = job[d]
    BY <1>3 DEF Ask, TypeOK
  <2>2. Unanswered' /\ WarmsOwn'
    BY <2>1 DEF Ready, Unanswered, WarmsOwn, Running, Home
  <2>3. LandedReady'
    BY <2>1 DEF Ready, LandedReady, Serves, Running, Home, Marks
  <2>4. ClaimSuits'
    <3>1. \A d \in Call : Marked(d)' => Marked(d)
      BY <2>1 DEF Marked, Marks
    <3>2. \A d \in Call \ {c} : Suits(d) => Suits(d)'
      BY <2>1 DEF Suits, Running
    <3> QED
      BY <2>1, <3>1, <3>2 DEF Ready, ClaimSuits
  <2> QED
    BY <2>2, <2>3, <2>4 DEF Ready
<1>4. ASSUME NEW c \in Call, ensure_serving(c) PROVE Ready'
  <2> USE DEF Places
  <2>1. CASE FastPath(c)
    <3>1. /\ pc[c] = "fast"
          /\ \E place \in {"mark", "returned", "idle", "fetch"} :
                Goto(c, place) /\ (place = "returned" => ~Marks(c))
      BY <2>1 DEF FastPath, Otherwise
    <3>2. ~Marked(c)'
      BY <3>1, GotoFacts DEF Marked, Marks
    <3> QED
      BY <2>1, <3>1, <3>2, ReadyMove DEF FastPath
  <2>2. CASE Mark(c)
    <3>1. CASE NoTransition
      <4>1. \A d \in Call \ {c} : pc[d] \notin {"claimed", "start"}
        BY <3>1 DEF NoTransition, Placed, ClaimHeld, Claiming
      <4> QED
        BY <2>2, <3>1, <4>1, ReadyMove DEF Mark
    <3>2. CASE ~NoTransition
      <4>1. \E place \in {"idle", "fetch"} : Goto(c, place)
        BY <2>2, <3>2 DEF Mark, Otherwise
      <4>2. ~Marked(c)'
        BY <4>1, GotoFacts DEF Marked
      <4> QED
        BY <2>2, <4>1, <4>2, ReadyMove DEF Mark
    <3> QED
      BY <3>1, <3>2
  <2>3. CASE Reread(c)
    <3>1. Marked(c)
      BY <2>3 DEF Reread, Quiet, MarkKinds, Marked
    <3>2. \E place \in {"idle", "fetch", "returned"} : Goto(c, place)
      BY <2>3 DEF Reread, Otherwise
    <3> QED
      BY <2>3, <3>1, <3>2, ReadyMove DEF Reread
  <2>4. CASE Fetch(c) \/ WaitOver(c)
    <3>1. /\ pc[c] # "warming"
          /\ \E place \in {"wait", "idle", "queue"} : Goto(c, place)
      BY <2>4 DEF Fetch, WaitOver
    <3>2. ~Marked(c)'
      BY <3>1, GotoFacts DEF Marked
    <3> QED
      BY <2>4, <3>1, <3>2, ReadyMove DEF Fetch, WaitOver
  <2>5. CASE Claim(c)
    <3>1. /\ pc[c] = "queue"
          /\ \E place \in {"wait", "idle", "claimed"} :
                Goto(c, place) /\ (place = "claimed" => ~HeldOff(c))
      BY <2>5 DEF Claim
    <3>2. ~Marked(c)'
      BY <3>1, GotoFacts DEF Marked
    <3> QED
      BY <2>5, <3>1, <3>2, ReadyMove DEF Claim
  <2>6. CASE EvictOther(c) \/ StartEngine(c) \/ Spawn(c) \/ Warm(c)
    BY <2>6, EngineKept
  <2>7. CASE Landed(c)
    <3>1. pc[c] = "landed" /\ (Marks(c) => Serves(c))
      BY <2>7 DEF Landed, Ready, LandedReady
    <3>2. \A d \in Call \ {c} : pc[d] \notin {"claimed", "start"}
      BY <3>1, HolderAlone DEF Placed, Claiming
    <3> QED
      BY <2>7, <3>1, <3>2, ReadyMove DEF Landed
  <2>8. CASE EndTransition(c)
    <3>1. \A d \in Call \ {c} : pc[d] \notin {"claimed", "start"}
      BY <2>8, HolderAlone DEF EndTransition, Placed, Claiming
    <3> QED
      BY <2>8, <3>1, ReadyMove DEF EndTransition
  <2> QED
    BY <1>4, <2>1, <2>2, <2>3, <2>4, <2>5, <2>6, <2>7, <2>8 DEF ensure_serving
<1>5. ASSUME NEW c \in Call, Take(c) \/ Done(c) PROVE Ready'
  <2>1. /\ pc[c] \in {"returned", "using"}
        /\ \E place \in {"idle", "using"} : Goto(c, place) /\ pc'[c] = place
        /\ pc'[c] # "idle" => pc[c] = "returned" /\ job' = job
    BY <1>5, GotoFacts DEF Take, Done, Places
  <2>2. Marked(c)' => Marked(c)
    BY <2>1 DEF Marked, Marks
  <2> QED
    BY <1>5, <2>1, <2>2, ReadyMove DEF Take, Done, Places
<1>6. ASSUME NEW s \in Stopper, NEW c \in Call, LoadDone(s, c) PROVE Ready'
  <2>1. pc[c] = "returned" /\ Goto(c, "idle") /\ pc'[c] = "idle" /\ server' = server
    BY <1>6, GotoFacts DEF LoadDone, Places
  <2>2. ~Marked(c)'
    BY <2>1 DEF Marked
  <2> QED
    BY <2>1, <2>2, ReadyMove DEF Places
<1>7. ASSUME NEW c \in Call, Abort(c) PROVE Ready'
  BY <1>1, <1>7 DEF Abort
<1>8. ASSUME NEW s \in Stopper, StopServer(s) PROVE Ready'
  <2>1. UNCHANGED <<pc, job>> /\ \A e \in Engine : server'[e] = NoServer
    BY <1>8 DEF StopServer, Empty
  <2>2. stopping > 0
    <3>1. s \in AtStop /\ AtStop \in SUBSET Stopper
      BY <1>8 DEF StopServer, AtStop
    <3>2. Cardinality(AtStop) > 0
      BY <3>1, Stoppers, Counting
    <3> QED
      BY <3>2 DEF StopsCounted
  <2>3. \A c \in Call : pc[c] \in {"landed", "leaving"} => ~Marks(c)
    BY <2>2 DEF Quiet, StopExclusive, InPlay, Claiming
  <2>4. Unanswered' /\ ClaimSuits'
    BY <2>1 DEF Unanswered, ClaimSuits, Suits, Running
  <2>5. WarmsOwn'
    BY <2>1, Engines DEF WarmsOwn, Running, Home
  <2>6. LandedReady'
    BY <2>1, <2>3 DEF LandedReady, Marks
  <2> QED
    BY <2>4, <2>5, <2>6 DEF Ready
<1>9. ASSUME NEW s \in Stopper,
             \/ \E c \in Call : CancelLoad(s, c)
             \/ \E why \in {"ask", "delete"} : AskStop(s, why)
             \/ ReleaseThread(s) \/ Check(s) \/ Flag(s) \/ ReadPending(s) \/ Settle(s)
      PROVE Ready'
  BY <1>1, <1>9 DEF CancelLoad, AskStop, ReleaseThread, Check, Flag, ReadPending, Settle
<1>10. CASE UNCHANGED vars
  BY <1>1, <1>10
<1> QED
  BY <1>2, <1>3, <1>4, <1>5, <1>6, <1>7, <1>8, <1>9, <1>10 DEF Next, Caller, stop_if_idle

(* The invariant behind both action properties. *)
LEMMA Inductive == Spec => []IInv
<1>1. Init => IInv
  <2>1. Init => Placed /\ Ready
    BY DEF Init, Placed, ClaimHeld, OneResident, Evicted, AtHome, Running, Empty, Claiming, Engine,
           Ready, Unanswered, WarmsOwn, LandedReady, ClaimSuits
  <2> QED
    BY <2>1, InitQuiet DEF IInv
<1>2. IInv /\ [Next]_vars => IInv'
  BY BaseKept, PlacedKept, QuietKept, ReadyKept DEF IInv, Placed
<1> QED
  BY <1>1, <1>2, PTL DEF Spec

(* A turn whose call loaded the model gets the URL of a server of its      *)
(* model that has answered.                                                *)
THEOREM LoadedServes == Spec => LoadedIsReady
<1>1. IInv /\ [Next]_vars =>
        [\A c \in Call :
            pc[c] = "leaving" /\ Marks(c) /\ pc'[c] = "returned" =>
               Running(Home(c)) /\ server[Home(c)].key = job[c].key /\ server[Home(c)].ready]_vars
  BY DEF IInv, Ready, LandedReady, Serves
<1> QED
  BY <1>1, Inductive, PTL DEF Spec, LoadedIsReady

(* A step that takes the server of a live answer away is the start of a    *)
(* call that gave no size.                                                 *)
LEMMA CutUnsized ==
    ASSUME IInv, Next, NEW c \in Call, Cut(c)
    PROVE  \E u \in Call : Unsized(u) /\ pc[u] = "start"
<1> USE DEF IInv, Base
<1>1. /\ server[Home(c)] # NoServer /\ server'[Home(c)] = NoServer
      /\ server[Home(c)].ready /\ Streams(c) /\ Home(c) \in Engine
  BY Engines DEF Cut, Running
<1>2. ASSUME NEW s \in Stopper, StopServer(s) PROVE FALSE
  <2>1. s \in AtStop /\ AtStop \in SUBSET Stopper
    BY <1>2 DEF StopServer, AtStop
  <2>2. Cardinality(AtStop) > 0
    BY <2>1, Stoppers, Counting
  <2> QED
    BY <1>1, <2>2 DEF StopsCounted, Quiet, StopExclusive, Streams, InPlay, Claiming
<1>3. PICK u \in Call : EvictOther(u) \/ StartEngine(u) \/ Spawn(u) \/ Warm(u)
  <2>1. server' # server
    BY <1>1
  <2> QED
    BY <1>2, <2>1
       DEF Next, RequestSize, Ask, ensure_serving, FastPath, Mark, Reread, Fetch, WaitOver, Claim,
           Landed, EndTransition, Caller, Take, Done, LoadDone, Abort, CancelLoad, AskStop,
           ReleaseThread, stop_if_idle, Check, Flag, ReadPending, Settle, engineVars
<1>4. pc[u] \in Claiming /\ pc[u] \in {"claimed", "start", "spawn", "warming"}
  BY <1>3 DEF EvictOther, StartEngine, Spawn, Warm, Claiming
<1>5. c # u /\ Marked(c)
  <2>1. c # u
    BY <1>1, <1>4 DEF Streams
  <2>2. pc[c] \notin Claiming
    BY <1>4, <2>1, HolderAlone DEF Placed
  <2> QED
    BY <1>1, <2>1, <2>2 DEF Streams, Marked, Claiming
<1>6. DOMAIN server = Engine /\ server[Home(u)] \in Server \cup {NoServer}
  BY Engines DEF TypeOK
<1>7. CASE EvictOther(u)
  <2>1. Home(c) = Other(u)
    BY <1>1, <1>6, <1>7, Engines DEF EvictOther
  <2>2. server[Home(c)].key = job[u].key
    BY <1>1, <1>5, <1>7 DEF EvictOther, Ready, ClaimSuits, Suits, Running
  <2>3. EngineOf(server[Home(c)].key) = Home(c)
    BY <1>1 DEF Placed, AtHome, Running
  <2> QED
    BY <2>1, <2>2, <2>3, Engines DEF Home
<1>8. CASE StartEngine(u)
  <2>1. pc[u] = "start" /\ Home(c) = Home(u)
    BY <1>1, <1>6, <1>8, Engines DEF StartEngine
  <2>2. server[Home(u)].key = job[u].key /\ job[u].size \in {NoSize, server[Home(u)].ctx}
    BY <1>1, <1>5, <2>1 DEF Ready, ClaimSuits, Suits, Running
  <2>3. CASE job[u].size = NoSize
    BY <2>1, <2>3 DEF Unsized
  <2>4. CASE job[u].size # NoSize
    <3>1. Reuses(u)
      BY <1>1, <2>1, <2>2, <2>4 DEF Reuses, Running, Size
    <3>2. server'[Home(u)] = [server[Home(u)] EXCEPT !.ctx = Size(u)]
      BY <1>6, <1>8, <3>1, Engines DEF StartEngine
    <3>3. server[Home(u)] \in Server
      BY <1>1, <1>6, <2>1
    <3>4. Size(u) \in Ctx
      BY <2>1, JobFields DEF Size, HasJob, TypeOK
    <3>5. server'[Home(u)] \in Server
      BY <3>2, <3>3, <3>4 DEF Server
    <3> QED
      BY <1>1, <2>1, <3>5, NoServerIsNoServer
  <2> QED
    BY <2>3, <2>4
<1>9. CASE Spawn(u)
  <2>1. server[Other(u)] = NoServer
    BY <1>9 DEF Spawn, Placed, Evicted
  <2>2. Home(c) = Home(u)
    BY <1>1, <2>1, Engines
  <2>3. [key |-> job[u].key, ctx |-> target, ready |-> FALSE] \in Server
    <3>1. job[u] \in Job
      BY <1>9 DEF Spawn, HasJob
    <3> QED
      BY <3>1, JobFields DEF Server, TypeOK
  <2>4. server' = server \/ server'[Home(u)] \in Server
    BY <1>6, <1>9, <2>3, Engines DEF Spawn
  <2> QED
    BY <1>1, <2>2, <2>4, NoServerIsNoServer
<1>10. CASE Warm(u)
  <2>1. Home(c) = Home(u)
    BY <1>1, <1>6, <1>10, Engines DEF Warm
  <2> QED
    BY <1>1, <1>10, <2>1 DEF Warm, Ready, WarmsOwn, Running
<1> QED
  BY <1>3, <1>7, <1>8, <1>9, <1>10
(* The one step that cuts a live answer is the restart by a call that left *)
(* the size to the engine.                                                 *)
THEOREM CutsUnsized == Spec => OnlyUnsizedCuts
<1>1. IInv /\ [Next]_vars =>
        [(\E c \in Call : Cut(c)) => \E u \in Call : Unsized(u) /\ pc[u] = "start"]_vars
  BY CutUnsized DEF Cut, Streams, Running, vars, engineVars
<1> QED
  BY <1>1, Inductive, PTL DEF Spec, OnlyUnsizedCuts

=============================================================================
