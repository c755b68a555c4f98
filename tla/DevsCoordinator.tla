--------------------------- MODULE DevsCoordinator ---------------------------
(***************************************************************************)
(* The DEVS coordinator of vle (src/vle/devs/Coordinator.cpp): the flat    *)
(* coordinator that owns the simulators, the event table and the views,    *)
(* and that advances simulated time one instant per call of run().         *)
(*                                                                         *)
(* A call of run() is split into the steps the code takes in order, each   *)
(* of which runs without interruption (the engine is single threaded):     *)
(*   RunPop      pop the complete bag of the earliest time (lines 94-101)  *)
(*   DrainStep   one turn of the bag-draining loop (lines 103-129), i.e.   *)
(*               one processInternalEvent / processExternalEvents /        *)
(*               processRequestEvents with the dispatch and the executive  *)
(*               calls the model makes inside its transition               *)
(*   EndDrain    free the simulators of the two-phase delete (131-139)     *)
(*   ObserveStep one observation of processObservationEvents (535-553)     *)
(*   EndRun      bags.clear(); return (142-143)                            *)
(* The driver calls run() while the next time is within the horizon and    *)
(* then finish() (Finish).                                                 *)
(*                                                                         *)
(* Data is abstracted: an atomic model is a simulator identity, its ports  *)
(* are collapsed into one output port, an event carries no attributes, and *)
(* the callbacks of the model (output, ta, confluentTransitions, request,  *)
(* observation) are nondeterministic choices.  Time is 0..MaxTime, a       *)
(* time past the horizon is Horizon and +oo is Infinity.                   *)
(***************************************************************************)
EXTENDS Naturals, SequencesExt, BagsExt

CONSTANTS
  Sims,            \* atomic models, each with its Simulator
  InitSims,        \* atomic models of the initial graph (init / addModels)
  Exec,            \* executive models: may call the executive API
  Conn,            \* connections <<src, dst>> of the flat coupled model
  TimedViews,      \* views of type TIMED
  EventViews,      \* views of type EVENT
  FinishViews,     \* views of type FINISH
  Period,          \* [TimedViews -> positive time step]
  InitObs,         \* initial observables: set of <<view, model>>
  TaSet,           \* finite time advances a model may return
  MaxTime,         \* end of the simulation: the driver runs while next <= MaxTime
  AllowSelfDelete, \* may an executive delete itself inside its transition?
  MaxCalls,        \* bound on the executive calls of one behaviour
  NoSim            \* no bag under draining

ASSUME
  /\ InitSims \subseteq Sims /\ Exec \subseteq Sims
  /\ Conn \subseteq Sims \X Sims
  /\ Period \in [TimedViews -> Nat \ {0}]
  /\ InitObs \subseteq (TimedViews \cup EventViews \cup FinishViews) \X InitSims
  /\ TaSet \subseteq Nat /\ MaxTime \in Nat /\ AllowSelfDelete \in BOOLEAN
  /\ MaxCalls \in Nat
  /\ NoSim \notin Sims

Horizon  == MaxTime + 1     \* any finite time after the end of the run
Infinity == MaxTime + 2     \* devs::Time::infinity
Time     == 0..Horizon
TimeOrInf == Time \cup {Infinity}

VARIABLES
  phase,       \* "idle" between run() calls, "drain", "observe", "finished"
  now,         \* m_currentTime
  live,        \* domain of m_modelList: models with a registered simulator
  tN,          \* Simulator's next internal time (its last ta from now)
  intEv,       \* time of the pending InternalEvent of each simulator, or Infinity
  bagInt,      \* simulators whose InternalEvent is in the current bag
  bagExt,      \* simulators with a non-empty ExternalEventList in the bag
  bagReq,      \* simulators with a non-empty RequestEventList in the bag
  obsEv,       \* bag of pending ObservationEvents [t, v, m] in the table
  bagObs,      \* bag of ObservationEvents [v, m] of the current instant
  subs,        \* observables of the views: set of <<view, model>>
  cur,         \* simulator whose EventBagModel the inner loop drains
  deleted,     \* m_deletedSimulator
  toDelete,    \* m_toDelete
  oldToDelete, \* run()'s local oldToDelete
  freed,       \* simulators destroyed by the two-phase delete
  confl,       \* history: confluentTransitions' answer in the bag of cur
  did,         \* history: transitions each simulator made in its bag
  calls        \* executive calls made so far (bounded by MaxCalls)

vars == <<phase, now, live, tN, intEv, bagInt, bagExt, bagReq, obsEv, bagObs,
          subs, cur, deleted, toDelete, oldToDelete, freed, confl, did,
          calls>>

Views == TimedViews \cup EventViews \cup FinishViews

-----------------------------------------------------------------------------
(* Helpers over the event table and the model graph.                       *)

MinTime(S) == IF S = {} THEN Infinity ELSE CHOOSE t \in S : \A u \in S : t <= u

\* EventTable::topEvent: the earliest pending internal or observation time.
TopTime == MinTime({intEv[m] : m \in Sims} \cup {o.t : o \in BagToSet(obsEv)})

\* The time of the InternalEvent a Simulator builds from a ta returned by
\* its model: now + ta cut at the horizon; +oo stays Infinity.
After(d) == IF d = Infinity THEN Infinity
            ELSE IF now + d > MaxTime THEN Horizon ELSE now + d

TaChoice == TaSet \cup {Infinity}

\* getTargetPortList + getModel: the simulators connected to m's output.
Targets(m) == {d \in live : <<m, d>> \in Conn}

HasBag(m) == m \in bagInt \cup bagExt \cup bagReq

ObsOf(b, m) == RestrictDomain(b, LAMBDA o : o.m = m)

\* addModel: a model that has no simulator yet and never had one.
Unborn == Sims \ (live \cup ToSet(deleted) \cup freed)

-----------------------------------------------------------------------------
(* Executive API calls a model may make inside its transition.             *)

NoCall == [op |-> "none", m |-> NoSim]

ExecCalls(s) ==
  IF s \notin Exec \/ s \notin live \/ calls >= MaxCalls THEN {NoCall}
  ELSE {NoCall}
       \cup {[op |-> "del", m |-> d] :
               d \in live \ (IF AllowSelfDelete THEN {} ELSE {s})}
       \cup {[op |-> "new", m |-> n] : n \in Unborn}
       \cup {[op |-> "obs", m |-> d, v |-> v] : d \in live, v \in Views}

\* Fault variant: delAtomicModel without m_eventTable.delModelEvents(satom).
DelModelEventsSkipped(call) == {}

\* The simulators whose events delAtomicModel erases (delModelEvents).
DelModelEvents(call) == IF call.op = "del" THEN {call.m} ELSE {}

\* delAtomicModel: the simulators leaving m_modelList.
Removed(call) == IF call.op = "del" THEN {call.m} ELSE {}

\* ModelFactory::createModel: the first internal event, at now + init's ta.
InitSchedule(ta0) == After(ta0)

\* The state a transition of s leaves, given the bag after the handler's
\* own changes (int1, ext1, req1), the new ta of s and the executive call
\* made by the model in its transition (with ta0 the ta of a created model).
\* The callback runs first; the coordinator then puts s's new InternalEvent
\* (put: the handler calls putInternalEvent on a non-null result).
AfterTransition(s, ta, put, call, ta0, int1, ext1, req1) ==
  LET gone   == Removed(call)
      purged == DelModelEvents(call)
      born   == IF call.op = "new" THEN {call.m} ELSE {}
      sub    == IF call.op = "obs" THEN {<<call.v, call.m>>} ELSE {}
      tick   == IF call.op = "obs" /\ call.v \in TimedViews
                THEN SetToBag({[t |-> now, v |-> call.v, m |-> call.m]})
                ELSE EmptyBag
  IN
  /\ live'   = (live \ gone) \cup born
  /\ bagInt' = int1 \ purged
  /\ bagExt' = ext1 \ purged
  /\ bagReq' = req1 \ purged
  /\ tN'     = [m \in Sims |-> IF m = s THEN After(ta)
                               ELSE IF m \in born THEN InitSchedule(ta0)
                               ELSE tN[m]]
  /\ intEv'  = [m \in Sims |-> IF m = s /\ put /\ ta # Infinity THEN After(ta)
                               ELSE IF m \in purged THEN Infinity
                               ELSE IF m \in born THEN InitSchedule(ta0)
                               ELSE intEv[m]]
  /\ subs'   = {o \in subs : o[2] \notin gone} \cup sub
  /\ obsEv'  = (IF purged = {} THEN obsEv
                ELSE RestrictDomain(obsEv, LAMBDA o : o.m \notin purged)) (+) tick
  /\ bagObs' = IF purged = {} THEN bagObs
               ELSE RestrictDomain(bagObs, LAMBDA o : o.m \notin purged)
  /\ deleted' = IF gone = {} THEN deleted ELSE Append(deleted, call.m)
  /\ calls' = IF call.op = "none" THEN calls ELSE calls + 1

-----------------------------------------------------------------------------
(* The handlers of one turn of the draining loop.                          *)

\* processInternalEvent: output, dispatch, internal transition, put.  The
\* output list holds ExternalEvents or RequestEvents (one kind per call: the
\* targets are the same for both, only the bag they join differs).
ProcessInternal(s) ==
  \E out \in {{}, {"event"}, {"request"}}, ta \in TaChoice,
     call \in ExecCalls(s), ta0 \in TaChoice :
    AfterTransition(s, ta, TRUE, call, ta0,
                    bagInt \ {s},
                    IF "event" \in out THEN bagExt \cup Targets(s) ELSE bagExt,
                    IF "request" \in out THEN bagReq \cup Targets(s) ELSE bagReq)

\* Fault variant: the InternalEvent returned by externalTransition is dropped.
ProcessExternalNoPut(s) ==
  \E ta \in TaChoice, call \in ExecCalls(s), ta0 \in TaChoice :
    AfterTransition(s, ta, FALSE, call, ta0, bagInt, bagExt \ {s}, bagReq)

\* processExternalEvents: external transition, put, drop the externals.
ProcessExternal(s) ==
  \E ta \in TaChoice, call \in ExecCalls(s), ta0 \in TaChoice :
    AfterTransition(s, ta, TRUE, call, ta0, bagInt, bagExt \ {s}, bagReq)

\* Fault variant: the request list is not cleared after its replies.
ProcessRequestKept(s) ==
  \E out \in SUBSET {"event", "request"} :
    /\ bagReq' = IF "request" \in out THEN bagReq \cup Targets(s) ELSE bagReq
    /\ bagExt' = IF "event" \in out THEN bagExt \cup Targets(s) ELSE bagExt
    /\ UNCHANGED <<live, tN, intEv, bagInt, subs, obsEv, bagObs, deleted,
                   calls>>

\* processRequestEvents: request() is called on s for its requests; the
\* replies are dispatched from s, an ExternalEvent to the targets' externals
\* and a reply that is itself a request to their requests of the same bag
\* (dispatchExternalEvent, line 381); then s's request list is cleared.
ProcessRequest(s) ==
  \E out \in SUBSET {"event", "request"} :
    /\ bagReq' = (IF "request" \in out THEN bagReq \cup Targets(s)
                  ELSE bagReq) \ {s}
    /\ bagExt' = IF "event" \in out THEN bagExt \cup Targets(s) ELSE bagExt
    /\ UNCHANGED <<live, tN, intEv, bagInt, subs, obsEv, bagObs, deleted,
                   calls>>

-----------------------------------------------------------------------------
(* The steps of run() and finish().                                        *)

Init ==
  /\ phase = "idle"
  /\ now = 0
  /\ live = InitSims
  /\ \E ta \in [InitSims -> TaChoice] :
       /\ tN = [m \in Sims |-> IF m \in InitSims THEN After(ta[m]) ELSE Infinity]
       /\ intEv = tN
  /\ bagInt = {} /\ bagExt = {} /\ bagReq = {}
  /\ obsEv = SetToBag({[t |-> 0, v |-> o[1], m |-> o[2]] :
                         o \in {p \in InitObs : p[1] \in TimedViews}})
  /\ bagObs = EmptyBag
  /\ subs = InitObs
  /\ cur = NoSim
  /\ deleted = <<>> /\ toDelete = 0 /\ oldToDelete = 0 /\ freed = {}
  /\ confl = [m \in Sims |-> "none"]
  /\ did = [m \in Sims |-> {}]
  /\ calls = 0

\* run(), lines 96-101: remember m_toDelete, pop the earliest complete bag.
RunPop ==
  LET t == TopTime IN
  /\ phase = "idle"
  /\ t <= MaxTime
  /\ oldToDelete' = toDelete
  /\ bagInt' = {m \in Sims : intEv[m] = t}
  /\ intEv' = [m \in Sims |-> IF intEv[m] = t THEN Infinity ELSE intEv[m]]
  /\ bagObs' = LET due == RestrictDomain(obsEv, LAMBDA o : o.t = t)
               IN [o \in {[v |-> e.v, m |-> e.m] : e \in DOMAIN due} |->
                     due[[t |-> t, v |-> o.v, m |-> o.m]]]
  /\ obsEv' = RestrictDomain(obsEv, LAMBDA o : o.t # t)
  /\ now' = t
  /\ phase' = "drain"
  /\ UNCHANGED <<live, tN, bagExt, bagReq, subs, cur, deleted, toDelete, freed,
                 confl, did, calls>>

\* run(), lines 103-129: one turn of the inner loop on topBag().  The loop
\* keeps draining the same bag (cur) until it is empty.  When the bag holds
\* both an internal and external events, confluentTransitions chooses.
DrainStep ==
  /\ phase = "drain"
  /\ \E s \in (IF cur # NoSim /\ HasBag(cur) THEN {cur}
               ELSE {m \in Sims : HasBag(m)}) :
       LET c0 == IF cur = s THEN confl[s] ELSE "none"
           Record(k) == /\ did' = [did EXCEPT ![s] =
                                     IF confl'[s] = "none" THEN {}
                                     ELSE (IF cur = s THEN did[s] ELSE {}) \cup {k}]
       IN
       /\ cur' = s
       /\ \/ /\ s \in bagInt /\ s \in bagExt
             /\ \E c \in {"int", "ext"} :
                  /\ confl' = [confl EXCEPT ![s] = c]
                  /\ Record(c)
                  /\ IF c = "int" THEN ProcessInternal(s) ELSE ProcessExternal(s)
          \/ /\ s \in bagInt /\ s \notin bagExt
             /\ confl' = [confl EXCEPT ![s] = c0]
             /\ Record("int")
             /\ ProcessInternal(s)
          \/ /\ s \notin bagInt /\ s \in bagExt
             /\ confl' = [confl EXCEPT ![s] = c0]
             /\ Record("ext")
             /\ ProcessExternal(s)
          \/ /\ s \notin bagInt /\ s \notin bagExt
             /\ confl' = [confl EXCEPT ![s] = c0]
             /\ Record("req")
             /\ ProcessRequest(s)
  /\ UNCHANGED <<phase, now, toDelete, oldToDelete, freed>>

\* Fault variant: the two-phase delete without its "oldToDelete > 0" test,
\* and m_toDelete read from m_deletedSimulator.size() before the erase.
EndDrainSizeBeforeErase ==
  /\ phase = "drain"
  /\ \A m \in Sims : ~HasBag(m)
  /\ freed' = freed \cup ToSet(SubSeq(deleted, 1, oldToDelete))
  /\ deleted' = SubSeq(deleted, oldToDelete + 1, Len(deleted))
  /\ toDelete' = Len(deleted)
  /\ phase' = "observe"
  /\ cur' = NoSim
  /\ confl' = [m \in Sims |-> "none"]
  /\ did' = [m \in Sims |-> {}]
  /\ UNCHANGED <<now, live, tN, intEv, bagInt, bagExt, bagReq, obsEv, bagObs,
                 subs, oldToDelete, calls>>

\* run(), lines 131-139: destroy the first oldToDelete queued simulators.
EndDrain ==
  /\ phase = "drain"
  /\ \A m \in Sims : ~HasBag(m)
  /\ IF oldToDelete > 0
     THEN /\ freed' = freed \cup ToSet(SubSeq(deleted, 1, oldToDelete))
          /\ deleted' = SubSeq(deleted, oldToDelete + 1, Len(deleted))
          /\ toDelete' = Len(deleted) - oldToDelete
     ELSE UNCHANGED <<freed, deleted, toDelete>>
  /\ phase' = "observe"
  /\ cur' = NoSim
  /\ confl' = [m \in Sims |-> "none"]
  /\ did' = [m \in Sims |-> {}]
  /\ UNCHANGED <<now, live, tN, intEv, bagInt, bagExt, bagReq, obsEv, bagObs,
                 subs, oldToDelete, calls>>

\* processObservationEvents: one ObservationEvent of the instant.  The model
\* may return no value; a TimedView answers with its next tick.
ObserveStep ==
  /\ phase = "observe"
  /\ \E o \in BagToSet(bagObs), valued \in BOOLEAN :
       /\ bagObs' = BagRemove(bagObs, o)
       /\ obsEv' = IF valued /\ o.v \in TimedViews
                   THEN BagAdd(obsEv, [t |-> After(Period[o.v]), v |-> o.v, m |-> o.m])
                   ELSE obsEv
  /\ UNCHANGED <<phase, now, live, tN, intEv, bagInt, bagExt, bagReq, subs,
                 cur, deleted, toDelete, oldToDelete, freed, confl, did,
                 calls>>

\* run(), lines 142-143: clear the bag and return to the driver.
EndRun ==
  /\ phase = "observe"
  /\ bagObs = EmptyBag
  /\ phase' = "idle"
  /\ UNCHANGED <<now, live, tN, intEv, bagInt, bagExt, bagReq, obsEv, bagObs,
                 subs, cur, deleted, toDelete, oldToDelete, freed, confl, did,
                 calls>>

\* finish(): the driver stops once the next time is past the end.  The
\* simulators' finish(), the FinishView observations and the closing of
\* the streams write output only; the views are deleted.
Finish ==
  /\ phase = "idle"
  /\ TopTime > MaxTime
  /\ phase' = "finished"
  /\ subs' = {}
  /\ UNCHANGED <<now, live, tN, intEv, bagInt, bagExt, bagReq, obsEv, bagObs,
                 cur, deleted, toDelete, oldToDelete, freed, confl, did,
                 calls>>

Done == phase = "finished" /\ UNCHANGED vars

Next == RunPop \/ DrainStep \/ EndDrain \/ ObserveStep \/ EndRun \/ Finish \/ Done

\* Once run() is called it runs to its end: its inner steps are weakly fair.
\* Whether the driver calls run() again is its own choice.
Fairness == WF_vars(DrainStep) /\ WF_vars(EndDrain) /\ WF_vars(ObserveStep)
            /\ WF_vars(EndRun)

Spec == Init /\ [][Next]_vars /\ Fairness

-----------------------------------------------------------------------------
(* Properties.                                                             *)

TypeOK ==
  /\ phase \in {"idle", "drain", "observe", "finished"}
  /\ now \in 0..MaxTime
  /\ live \subseteq Sims
  /\ tN \in [Sims -> TimeOrInf] /\ intEv \in [Sims -> TimeOrInf]
  /\ bagInt \subseteq Sims /\ bagExt \subseteq Sims /\ bagReq \subseteq Sims
  /\ IsABag(obsEv) /\ IsABag(bagObs)
  /\ subs \subseteq Views \X Sims
  /\ cur \in Sims \cup {NoSim}
  /\ deleted \in Seq(Sims)
  /\ toDelete \in 0..Len(deleted) /\ oldToDelete \in 0..Len(deleted)
  /\ freed \subseteq Sims
  /\ calls \in 0..MaxCalls

\* Spec 3 / 8.2, the half that the code keeps: a simulator whose last ta was
\* finite always has its InternalEvent pending at exactly tN, or (in the
\* instant of tN) in the bag.  Confluent paths, deletions, creations and the
\* replacement of internal events by put must all agree for this to hold.
InternalBacksTN ==
  \A m \in live :
    tN[m] # Infinity => (intEv[m] = tN[m] \/ (m \in bagInt /\ tN[m] = now))

\* Spec 3 / 8.3: once delModel has removed a simulator from the model table
\* no event of the table or of the current bag refers to it, so that no
\* later run() dispatches to a deleted simulator.
NoEventForDeletedSim ==
  \A m \in Sims \ live :
    /\ intEv[m] = Infinity
    /\ m \notin bagInt \cup bagExt \cup bagReq
    /\ ObsOf(obsEv, m) = EmptyBag /\ ObsOf(bagObs, m) = EmptyBag

\* Spec 4.3 step 3 and scenario S2: when a simulator has both an internal and
\* external events, confluentTransitions decides which ONE transition runs;
\* the draining loop of run() must not run the other one on the same bag.
ConfluenceExclusive ==
  \A m \in Sims : confl[m] # "none" => did[m] = {confl[m]}

\* A request handled in the drain loop of run(): some simulator gets a new
\* RequestEvent in the current bag (an output or a reply that is a request).
NewRequest == bagReq' \ bagReq # {}

\* Spec 4.3 step 3 and S5: run() drains the bag of the instant and returns.
\* Outputs, replies and executive calls all add to the bag being drained;
\* the loop of lines 103-129 ends, and run() returns, in every behaviour in
\* which request() does not go on answering requests with requests.
StepTerminates ==
  ~[]<><<NewRequest>>_vars => ((phase \in {"drain", "observe"}) ~> (phase = "idle"))

\* Spec 5 ("ObservationEvents at time t always run after transitions at
\* time t") and scenario S6: when processObservationEvents observes a
\* model, no internal event of that model at the current time is pending.
ObservationAfterTransitions ==
  phase = "observe" =>
    \A o \in BagToSet(bagObs) : intEv[o.m] # now /\ o.m \notin bagInt

====
