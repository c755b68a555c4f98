# TLA+ models of the vle DEVS engine (SDQI_VLE)

This directory holds TLA+ models of the simulation engine of vle. vle is a
discrete-event (DEVS) simulator written in C++. The models are checked with
TLC.

## 1. The system

Only part of the repository is under `src/`. The rest (`Simulator`,
`EventTable`, `View`, `ModelFactory`, the graph library and the XML
parser) is described by `spec.md` alone.

| Part | Source | State | Operations |
|---|---|---|---|
| Coordinator (C1) | `src/vle/devs/Coordinator.cpp` | `m_modelList`, `m_eventTable`, `m_currentTime`, `m_deletedSimulator`, `m_toDelete`, the view lists | `init`, `run`, `finish`, `dispatchExternalEvent`, `process*Event(s)`, executive API (`createModel`, `addObservableToView`, `delModel`, `delAtomicModel`, `delCoupledModel`) |
| EventTable (C3) | spec 4.1 | internal events, one per simulator; external, request and observation events; the complete bag of the current instant | `topEvent`, `popEvent`, `put*Event`, `delModelEvents` |
| Simulator / dynamics (C4) | spec 4.2 | tN of each model | `output`, `internalTransition`, `externalTransition`, `confluentTransitions`, `request`, `observation` |
| Views (C5) | spec 4.5 | observables of each view; the TimedView's tick | `addObservable`, `removeObservable`, `processObservationEvent` |
| ModelFactory (C6) | spec 4.2 | none kept by the model | `createModel` (init of a new simulator) |
| DifferentialEquation | `src/vle/extension/DifferentialEquation.cpp` | mState, mSigma, external-variable maps | init, output, internalTransition, externalTransition |
| PackageTable | `src/vle/utils/PackageTable.cpp` | package set, current package | `get`, `current`, `remove` |
| Condition, NoVLEs | `src/vle/vpz/*.cpp` | port→values map; translator list | `add`, `del`, `addValueToPort`, `fusion` |
| PetriNet, Template, ladybird, vpz.hpp | headers only | none | none |

How the parts interact:

- The driver (the Root coordinator, not in `src/`) calls `run()` while the
  next event time is before the end. It then calls `finish()`.
- `run()` pops the complete bag of the earliest time. It drains the bag one
  simulator at a time. Outputs and replies are routed by
  `dispatchExternalEvent` into the bag of the same instant.
- An executive model's transition may call the executive API. That API
  creates models, deletes models (purging their events and queueing the
  simulator for a two-phase delete) and subscribes models to views.
- Observation events come back from the views as new events in the table.

## 2. Modules

| Module | Models | Status |
|---|---|---|
| `DevsCoordinator` | C1 together with the parts of C3-C6 that C1 drives | done |
| `MCDevsCoordinator` | a 4-model instance for TLC | done |
| `PackageTable`, `MCPackageTable` | `utils/PackageTable.cpp` | done |
| `DifferentialEquation`, `MCDifferentialEquation` | the phase machine of `extension/DifferentialEquation.cpp` | done (open environment) |
| `ValueBuffer`, `MCValueBuffer` | the delayed-value buffer of `DifferentialEquation.cpp` (`pushValue`, `getValue`) | done |
| `Condition`, `MCCondition` | `vpz/Condition.cpp`: the port→values map and `m_last_port` | done |
| `NoVLEs`, `MCNoVLEs` | `vpz/NoVLEs.cpp`: the translator registry and `fusion()` | done |
| `CoupledDelete`, `MCCoupledDelete` | `delModel` on a coupled model: `delCoupledModel`'s walk of the model list, with `delAtomicModel`'s effect on `m_modelList` | done |

In `DevsCoordinator`:

- One call of `run()` is split into the steps the code takes in order:
  - `RunPop` (lines 94-101);
  - `DrainStep`, one turn of the inner `while` (103-129);
  - `EndDrain`, the two-phase delete (131-139);
  - `ObserveStep`, one turn of `processObservationEvents` (535-553);
  - `EndRun` (142-144).

  `Finish` is `finish()` (146-179).
- A `DrainStep` is one whole handler:
  - `ProcessInternal` is `processInternalEvent`, with `output`, the
    dispatch and the executive call made by the transition.
  - `ProcessExternal` is `processExternalEvents`.
  - `ProcessRequest` is `processRequestEvents`. Its replies may be
    ExternalEvents, requests, or both; `dispatchExternalEvent` (line 381)
    routes a reply that is a request into the targets' request lists of
    the bag being drained.
  - `ProcessInternal`'s output list holds one kind of event per call
    (none, events or requests). Mixed lists are left out to keep
    `core_safety` under five minutes; the targets are the same for both.
  - The effect of an executive call is `AfterTransition`, which follows
    `delAtomicModel`, `createModel` and `addObservableToView`. It is
    applied before the handler puts the new internal event, as in the code.
- Data is abstracted:
  - a model is a model value;
  - ports are collapsed into the connection relation `Conn`;
  - the callbacks (ta, output kind, confluence answer, executive call,
    whether observation returns a value) are choices over small sets.
- `Targets(m)` is the set of live models connected to m.
- `intEv` is the time of each simulator's pending internal event;
  `Infinity` stands for no event. `obsEv` is a bag of timed observation
  events.
- `deleted`, `toDelete` and `oldToDelete` are `m_deletedSimulator`,
  `m_toDelete` and the local `oldToDelete`.
- `confl` and `did` are history variables that the properties
  read.

The EventTable keeps one internal event per simulator, and `put` replaces
it (spec 4.1). Externals and requests routed during the instant join the
current bag (spec 4.3).

## 3. Runs

| Run | Cfg | Expect | Shows |
|---|---|---|---|
| core_safety | `MCDevsCoordinator.cfg` | pass | `InternalBacksTN`: every finite tN has its internal event. `NoEventForDeletedSim`: no event remains for a model deleted by another executive. These hold over every bag order, every confluence answer and one executive call. |
| core_liveness | `MCDevsLiveness.cfg` | pass | `StepTerminates`: every `run()` returns, unless `request()` goes on answering requests with requests forever. |
| confluence_both_run | `MCDevsConfluence.cfg` | violation | `ConfluenceExclusive`: the drain loop runs the transition that confluence did not choose as well. |
| self_delete_requeued | `MCDevsSelfDelete.cfg` | violation | `NoEventForDeletedSim` with `AllowSelfDelete`: an executive that deletes itself is given a new internal event. |
| observation_before_zero_ta | `MCDevsObservationAfterTransitions.cfg` | violation | `ObservationAfterTransitions`: a model with ta = 0 is observed before its second transition at the same time. |
| package_table | `MCPackageTable.cfg` | pass | `TypeOK` over `get`/`current`/`remove` calls, with names erased and inserted again. |
| integrator_phases | `MCDifferentialEquation.cfg` | pass | `TypeOK` over every bag of updates and perturbations, in every phase. |
| value_buffer_window | `MCValueBuffer.cfg` | pass | `DelayedValueAtPush`: with a window of one or two steps, `pushValue`'s trimming keeps what `getValue` needs at the time of the last push. |
| delayed_value_later | `MCValueBufferLater.cfg` | violation | `DelayedValueIsValueAt`: read after the last push, `getValue` runs off the deque with a size, and returns the later neighbour without one. |
| condition_values | `MCCondition.cfg` | pass | `TypeOK` over any sequence of `add`, `del`, `addValueToPort`, `lastAddedPort` appends, `firstValues`, `rebuildValueSet` and the getters. |
| translator_fusion | `MCNoVLEs.cfg` | pass | `OriginalsTranslated`: `fusion()` translates every model that named a translator when it began. `PlainModelsKept`: it erases no model that named none. |
| coupled_delete_stops_early | `MCCoupledDelete.cfg` | violation | `CoupledDeletionComplete`: when `++it` on the erased element ends the loop, the coupled model is removed while atomic descendants keep their simulators. |

`CoupledDelete` keeps one frame per active `delCoupledModel` call: the
coupled model, its iterator, and whether the iterator's element is still
in the list. Models are numbers in name order, so the `std::map` order is
`<`. Every child that the loop visits is erased from the list being walked:
`delAtomicModel` ends with `parent->delModel(atom)`, and the recursive call
ends with `parent->delModel(mdl)`. The following `++it` (line 329) is
therefore undefined. `Step` gives it three outcomes: the next child (the
freed node still links to it), `end()`, or a crash. `MCCoupledDelete`
deletes coupled model 2 from the top model 1. Model 2 holds atomic models
3 and 6 and coupled model 4, and model 4 holds atomic model 5. Atomic
model 7 stays under the top model. The graph library, the model lists and
`delModel` of a coupled model, is not under `src/`, so `Children`, `First`
and `After` are modelled from the spec (model graph, line 137) and the
`std::map` contract.

### Termination of run()

`StepTerminates` says that a call of `run()` returns in every behaviour in
which, from some point on, no step adds a new request to the bag. Without
that premise TLC finds a lasso: `a` and `b` are connected both ways, and
each answers the other's request with a request. `dispatchExternalEvent`
routes every such reply back into the bag of the same instant, so the
drain loop never ends. Neither the code nor spec.md (4.3.C, S5) bounds
that chain; it is recorded as hazard `Coordinator.cpp:103`. Every other
source of feedback is shown to stop: outputs, replies that are events,
external transitions, confluence and executive calls. The premise does
not hide the mutant `ProcessRequestKept`, which leaves the request list
in place: the loop then spins without any new request.

### Findings

The first six are shown by the violation runs above. The other nine were
found while modelling and are recorded as hazards in PROJECT.json; no run
checks them.

- **Confluent transitions (Coordinator.cpp:105).** Both transitions of a
  confluent bag run. The spec (4.3, scenario S2) says one runs.
- **Self-deleting executive (Coordinator.cpp:491 and 508).** It is
  rescheduled after its deletion.
- **Observation order (Coordinator.cpp:141).** Observations at t run at
  the end of the first `run()` at t, before the zero-ta transitions of the
  same instant. Spec 5 and S6 say they run after them.
- **Delayed value, bounded (DifferentialEquation.cpp:114-120).** When no
  entry is at or after the looked-up time, `getValue` dereferences
  `rend()`.
- **Delayed value, unbounded (DifferentialEquation.cpp:129-136).** It
  returns the value pushed after the looked-up time. TLC shows this trace
  with `mSize = -1` alone; with both sizes it reports the `rend()` one.
- **Coupled deletion (Coordinator.cpp:329).** `delCoupledModel` increments
  an iterator whose element was just erased. When that stops the loop,
  atomic descendants keep their simulators; spec line 137 says all are
  deleted.
- **Nested translators (NoVLEs.cpp:78).** Whether a translator-built model
  is translated depends on its address.
- **Two-phase delete (Coordinator.cpp:131).** It never frees anything.
- **POST wait (DifferentialEquation.cpp:427).** The integrator leaves POST on
  the first bag it receives, whatever that bag holds.
- **Stale internal event (Coordinator.cpp:506 and 489).** A transition
  that returns ta = +oo leaves the earlier internal event in the table. That
  breaks spec invariant 8.2, and the table API in the spec offers no way to
  cancel the event.
- **Extrapolation (DifferentialEquation.cpp:242).** An off-by-one skips
  extrapolation when exactly one external variable is linear.
- **TimedView cadence (Coordinator.cpp:541).** A null `observation()` ends
  the view's ticks; spec 4.5 says it observes every period.
- **`m_last_port` (Condition.cpp:98).** `del` leaves it naming an erased
  port, and `lastAddedPort` then fails its Assert.
- **Perturbation in POST_INIT (DifferentialEquation.cpp:373).** Every event
  of the first bag is taken as an initial value, so a perturbation makes
  the model's own variable a non-linear external variable. The model then
  waits in POST although every external variable sends a gradient; the
  comment of line 349 says it waits for its external variables.
- **Request chains (Coordinator.cpp:103, 381).** Replies that are requests
  go back into the bag being drained. Two models answering each other's
  requests with requests keep `run()` from returning (see "Termination of
  run()").

### Bounds

The instance has four models:

- a and b are connected both ways, so outputs generate externals inside the
  current instant;
- e is an executive;
- n is not yet born and feeds b.

It also has one timed view (period 1) observing a, and one event view
observing b.

With `TaSet = {0,1}` and `MaxTime = 1`, each run covers:

- two instants;
- zero-ta chains inside one instant;
- internal and external events of the same model meeting in one bag
  (confluence);
- requests and replies.

`MaxCalls = 1` allows one executive call per behaviour. Any of the three
kinds can target any model, including a model that already has events in
the bag. Each violation is found with these bounds.

The safety run has about 1.8 M states and takes under 2 minutes. The
liveness run has no executive calls. The executive API only adds work that
is finite once `MaxCalls` is reached, and leaving it out keeps the
temporal check small.

`MCCondition` has two ports, two values and `MaxLen = 2`: enough for a
port to be deleted, re-added, given a second value and rebuilt, in both
orders. `MCNoVLEs` has two translator names and four addresses, so a model
can be built below, between and above the existing ones.

### Fairness

The engine is single threaded. Once `run()` is called, the code runs the
drain loop, the delete and the observation loop to the end without waiting
for anything. Weak fairness is therefore assumed on `DrainStep`,
`EndDrain`, `ObserveStep` and `EndRun`.

No fairness is assumed for `RunPop` or `Finish`. The driver may stop
calling `run()`.

## 4. Not modelled

| Part | Why |
|---|---|
| `processEventView` | It only writes to the views' streams. |
| `buildViews` | Replaced by the constant view sets. |
| `createModelFromClass`, `addPermanent` | They act on `ModelFactory` and the graph library, which are not under `src/`. |
| `delAllConnection` in `delCoupledModel` | Connections are not part of `CoupledDelete`'s state: no property is about them. |
| The reference `bag` held across `delModelEvents` (line 104) | The storage of the complete bag is not under `src/`. |
| `PetriNet.hpp`, `Template.hpp`, `vpz.hpp`, `ladybird.hpp` | Declarations only. Their code (`PetriNet.cpp`, `Template.cpp`) is not in the repository, and spec.md lists Petri nets among the external collaborators. A model would be written from names alone. |
| `getValue(name, now, delay)`, `pushExternalValue`'s buffer | The same code as `getValue` and `pushValue` (modelled in `ValueBuffer`), run on the buffer of each external variable. |
| Several pushes at one instant, and the unit of `delay` without a size | The integrator that calls `pushValue` is not in the repository. The unit of `delay` is listed as a hazard (line 128). |
| An abstract event calendar and a refinement to it | The calendar of spec 4.1 and 8.1 lets a transition reschedule any simulator at or after the clock. A refinement mapping to it holds whatever the handlers do, so it would check nothing about `Coordinator.cpp`. An abstract specification that constrains the handlers more would be written from spec.md alone. |

## 5. Plan for later sittings

1. Compose `DifferentialEquation` instances with the coordinator's drain
   order: the INIT-bag hazard (line 221) and threshold deferral in RUN2
   (line 430) in a coupled system.
2. Larger coordinator instances (`MaxTime = 2`).
3. Checked runs for the findings that have none (perturbation in
   POST_INIT, `m_last_port`, stale iterators in `PackageTable::remove`)
   once the run budget allows.
