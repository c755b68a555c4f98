------------------------------ MODULE CoupledDelete ----------------------------
(***************************************************************************)
(* Deletion of a model from the running simulation by the coordinator     *)
(* (src/vle/devs/Coordinator.cpp): delModel finds the model in its parent *)
(* and, for a coupled model, delCoupledModel walks the model's ModelList  *)
(* (a std::map from name to model) with an iterator, deleting each atomic *)
(* child through delAtomicModel and each coupled child by recursion, then *)
(* removes the coupled model from its own parent.                          *)
(*                                                                         *)
(* Both deletions end with parent->delModel(child), which erases the child *)
(* from the list the caller's loop is iterating, and the loop then does   *)
(* ++it on the erased iterator.  That increment is undefined: it may reach *)
(* the next child (the freed node still links to it), stop the loop as if *)
(* at end(), or crash.                                                     *)
(*                                                                         *)
(* Models are numbers, in the order of their names.  The recursion is a   *)
(* stack of frames, one per active delCoupledModel call.                  *)
(***************************************************************************)
EXTENDS Naturals, Sequences, SequencesExt, FiniteSets

CONSTANTS
  Models,    \* every model of the graph
  Atomic,    \* the atomic ones; the others are coupled
  Up,        \* the parent of every model but the top one
  Top,       \* the top coupled model
  Target,    \* the coupled model whose deletion is requested
  End        \* the iterator lst.end()

Coupled == Models \ Atomic

ASSUME /\ Top \in Coupled /\ Target \in Coupled \ {Top}
       /\ Up \in [Models \ {Top} -> Coupled]
       /\ End \notin Models

VARIABLES
  lists,     \* getModelList() of every coupled model
  live,      \* the atomic models with a simulator in m_modelList
  frames,    \* the delCoupledModel calls: model, iterator, iterator valid
  phase      \* "run", "done" once delModel returned, "crash"

vars == <<lists, live, frames, phase>>

\* The children of a coupled model in the graph before the deletion.
Children(c) == {m \in Models \ {Top} : Up[m] = c}

\* The models below c.
RECURSIVE Below(_)
Below(c) == Children(c) \cup UNION {Below(k) : k \in Children(c) \cap Coupled}

\* The std::map iterator: begin() and the next key after a.
First(keys) == IF keys = {} THEN End ELSE CHOOSE k \in keys : \A j \in keys : k <= j
After(a, keys) == First({k \in keys : k > a})

\* A new delCoupledModel call on mdl, at lst.begin() (lines 325-328).
Frame(mdl) == [m |-> mdl, it |-> First(lists[mdl]), ok |-> TRUE]

\* delModel(parent, modelname), lines 237-250, for a coupled model: the
\* model is found in its parent and delCoupledModel starts on it.
Init ==
  /\ lists = [c \in Coupled |-> Children(c)]
  /\ live = Atomic
  /\ Target \in lists[Up[Target]]
  /\ frames = <<Frame(Target)>>
  /\ phase = "run"

Current == Last(frames)

\* delAtomicModel(parent, atom), lines 300-320: the simulator leaves
\* m_modelList (its events, observables and the deleted list are the
\* business of the coordinator module), then parent->delModel(atom) erases
\* it from the parent's list.
DelAtomicModel(parent, atom) ==
  /\ live' = live \ {atom}
  /\ lists' = [lists EXCEPT ![parent] = @ \ {atom}]

\* The body of the loop, lines 330-334, on an atomic child: after the call
\* the iterator points at an erased node.
VisitAtomic ==
  /\ phase = "run" /\ Current.ok /\ Current.it \in Atomic
  /\ DelAtomicModel(Current.m, Current.it)
  /\ frames' = [frames EXCEPT ![Len(frames)].ok = FALSE]
  /\ UNCHANGED phase

\* The body of the loop, lines 332-333, on a coupled child: the recursive
\* call begins.
VisitCoupled ==
  /\ phase = "run" /\ Current.ok /\ Current.it \in Coupled
  /\ frames' = Append(frames, Frame(Current.it))
  /\ UNCHANGED <<lists, live, phase>>

\* ++it, line 329, on the erased iterator: the next child, end(), or a
\* crash.
Step ==
  /\ phase = "run" /\ ~Current.ok /\ Current.it # End
  /\ \/ \E nxt \in {After(Current.it, lists[Current.m]), End} :
          /\ frames' = [frames EXCEPT ![Len(frames)].it = nxt,
                                      ![Len(frames)].ok = TRUE]
          /\ UNCHANGED phase
     \/ phase' = "crash" /\ UNCHANGED frames
  /\ UNCHANGED <<lists, live>>

\* The loop ends, lines 335-337: the connections of the model are removed
\* and its parent erases it; the caller's iterator is now on an erased node.
Return ==
  /\ phase = "run" /\ Current.it = End
  /\ lists' = [lists EXCEPT ![Up[Current.m]] = @ \ {Current.m}]
  /\ frames' = IF Len(frames) = 1 THEN <<>>
               ELSE [Front(frames) EXCEPT ![Len(frames) - 1].ok = FALSE]
  /\ phase' = IF Len(frames) = 1 THEN "done" ELSE "run"
  /\ UNCHANGED live

\* The deletion is over, or the process is gone.
Stopped == phase # "run" /\ UNCHANGED vars

Next == VisitAtomic \/ VisitCoupled \/ Step \/ Return \/ Stopped

Spec == Init /\ [][Next]_vars

-----------------------------------------------------------------------------
\* Deleting a coupled model deletes all its atomic descendants (spec, model
\* graph): when delModel returns, no atomic model below the target still has
\* a simulator in m_modelList.
CoupledDeletionComplete ==
  phase = "done" => (Below(Target) \cap Atomic) \cap live = {}

====
