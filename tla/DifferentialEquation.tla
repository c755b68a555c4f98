------------------------- MODULE DifferentialEquation -------------------------
(***************************************************************************)
(* vle::extension::DifferentialEquation                                    *)
(* (src/vle/extension/DifferentialEquation.cpp): the DEVS wrapper of one   *)
(* integrated variable.  Its phase machine (mState, mSigma) and the        *)
(* bookkeeping of its external variables are modelled; the numbers        *)
(* (values, gradients, buffers' contents) are not.  compute, updateSigma,  *)
(* updateValue and updateGradient belong to the concrete integrator (not   *)
(* in this repository): the sigma they leave is a choice from SigmaSet.    *)
(*                                                                         *)
(* The model is open: the coordinator may call output+internalTransition   *)
(* when sigma is finite, and may deliver a bag of external events at any   *)
(* time, also at the instant of an internal event (confluentTransitions    *)
(* always answers EXTERNAL, line 319).                                     *)
(***************************************************************************)
EXTENDS Naturals, FiniteSets

CONSTANTS
  Vars,        \* names of the external variables sending "update" events
  Self,        \* mVariableName
  GradVars,    \* senders whose update events carry a "gradient" attribute
  Active,      \* mActive ("active" init event)
  Dependance,  \* mDependance ("dependance" init event)
  Buffered,    \* mBuffer ("bufferized" init event)
  SigmaSet     \* sigmas the integrator's updateSigma/updateGradient may set

ASSUME
  /\ Self \notin Vars /\ GradVars \subseteq Vars
  /\ {Active, Dependance, Buffered} \subseteq BOOLEAN
  /\ SigmaSet \subseteq {"zero", "finite", "inf"}

States == {"INIT", "POST_INIT", "RUN", "RUN2", "POST", "POST2", "POST3"}

\* The events of an ExternalEventList: updates of an external variable on
\* port "update" and perturbations of the own variable on port "perturb".
Update(x) == [port |-> "update", name |-> x]
Perturb   == [port |-> "perturb", name |-> Self]
Events    == {Update(x) : x \in Vars} \cup {Perturb}
Bags      == SUBSET Events \ {{}}

\* existAttributeValue("gradient") on an event.
HasGradient(ev) == ev.name \in GradVars

VARIABLES
  state,      \* mState
  sigma,      \* mSigma
  known,      \* keys of mExternalVariableValue
  buffers,    \* keys of mExternalValueBuffer
  isGrad,     \* names n with mIsGradient[n] true
  extValues,  \* mExternalValues
  linear,     \* mExternalVariableNumber
  failed,     \* std::out_of_range thrown by mExternalValueBuffer.at(name)
  out         \* history: outputs of the last output() call

vars == <<state, sigma, known, buffers, isGrad, extValues, linear, failed,
          out>>

\* output(), lines 270-307: an "update" of the variable, and an "out"
\* event when a threshold is crossed (a comparison of values: a choice).
Outputs ==
  IF \/ state = "INIT" /\ Active
     \/ state = "POST3" /\ extValues
     \/ state = "RUN" /\ Active
  THEN {{"update"}}
  ELSE IF state \in {"RUN2", "POST2"} THEN {{}, {"out"}} ELSE {{}}

\* pushExternalValue(name, ...), lines 214-238: mExternalVariableValue[name]
\* is set; with mBuffer the buffer of name is reached through .at(name).
PushFails(names) == Buffered /\ ~(names \subseteq buffers)

\* DifferentialEquation::init: state INIT, sigma 0 (lines 256-266).
Init ==
  /\ state = "INIT" /\ sigma = "zero"
  /\ known = {} /\ buffers = {} /\ isGrad = {}
  /\ extValues = FALSE /\ linear = 0 /\ failed = FALSE
  /\ out = {}

\* output() then internalTransition(), as the coordinator calls them.
Internal ==
  /\ ~failed /\ sigma # "inf"
  /\ \E o \in Outputs : out' = o
  /\ \/ /\ state = "INIT" /\ Dependance
        /\ state' = "POST_INIT" /\ sigma' = "inf"
     \/ /\ state = "INIT" /\ ~Dependance
        /\ state' = "RUN" /\ sigma' \in SigmaSet
     \/ /\ state \in {"POST2", "POST3", "RUN2"}
        /\ state' = "RUN" /\ sigma' \in SigmaSet
     \/ /\ state = "RUN" /\ Active /\ extValues
        /\ state' = "POST" /\ sigma' = "inf"
     \/ /\ state = "RUN" /\ ~(Active /\ extValues)
        /\ state' = "RUN2" /\ sigma' = "zero"
  /\ UNCHANGED <<known, buffers, isGrad, extValues, linear, failed>>

\* Line 391: mExternalValues = (linear < mExternalVariableValue.size()).
ExtValues(lin, size) == lin < size

\* Fault variant: mExternalVariableNumber = index, the count of all events.
ExternalInitIndex(bag) ==
  LET names == {ev.name : ev \in bag}
      grads == {ev.name : ev \in {e \in bag : HasGradient(e)}}
  IN
  /\ state = "POST_INIT"
  /\ buffers' = buffers \cup names
  /\ known' = known \cup names
  /\ isGrad' = (isGrad \ names) \cup grads
  /\ linear' = Cardinality(bag)
  /\ extValues' = ExtValues(Cardinality(grads), Cardinality(known'))
  /\ state' = "RUN" /\ sigma' \in SigmaSet
  /\ UNCHANGED failed

\* externalTransition in POST_INIT, lines 371-396: every event of the bag,
\* whatever its port, gives the initial value of a variable.
ExternalInit(bag) ==
  LET names == {ev.name : ev \in bag}
      grads == {ev.name : ev \in {e \in bag : HasGradient(e)}}
  IN
  /\ state = "POST_INIT"
  /\ buffers' = buffers \cup names
  /\ known' = known \cup names
  /\ isGrad' = (isGrad \ names) \cup grads
  /\ linear' = Cardinality(grads)
  /\ extValues' = ExtValues(Cardinality(grads), Cardinality(known'))
  /\ state' = "RUN" /\ sigma' \in SigmaSet
  /\ UNCHANGED failed

\* externalTransition in the other states, lines 397-438.
ExternalRun(bag) ==
  LET upd   == {ev.name : ev \in {e \in bag : e.port = "update"}}
      reset == Perturb \in bag
  IN
  /\ state # "POST_INIT"
  /\ IF PushFails(upd)
     THEN /\ failed' = TRUE
          /\ UNCHANGED <<state, sigma, known>>
     ELSE /\ failed' = FALSE
          /\ known' = known \cup upd
          /\ CASE state = "POST" ->
                    /\ state' = "POST2" /\ sigma' = "zero"
               [] state \in {"RUN", "RUN2"} /\ reset ->
                    /\ sigma' = "zero"
                    /\ UNCHANGED state
               [] state \in {"RUN", "RUN2"} ->
                    /\ sigma' \in SigmaSet
                    /\ UNCHANGED state
               [] OTHER ->
                    UNCHANGED <<state, sigma>>
  /\ UNCHANGED <<buffers, isGrad, extValues, linear>>

External ==
  /\ ~failed
  /\ out' = {}
  /\ \E bag \in Bags : ExternalInit(bag) \/ ExternalRun(bag)

\* The exception ends the simulation run.
Aborted == failed /\ UNCHANGED vars

Next == Internal \/ External \/ Aborted

Spec == Init /\ [][Next]_vars

-----------------------------------------------------------------------------
TypeOK ==
  /\ state \in States /\ sigma \in {"zero", "finite", "inf"}
  /\ known \subseteq Vars \cup {Self} /\ buffers \subseteq Vars \cup {Self}
  /\ isGrad \subseteq known /\ extValues \in BOOLEAN
  /\ linear \in 0..Cardinality(Vars) /\ failed \in BOOLEAN
  /\ out \subseteq {"update", "out"}

====
