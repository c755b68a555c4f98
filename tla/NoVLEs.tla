------------------------------- MODULE NoVLEs -------------------------------
(***************************************************************************)
(* vle::vpz::NoVLEs (src/vle/vpz/NoVLEs.cpp): the registry of translators *)
(* (NoVLE) of a project, and fusion(), which walks the atomic models of    *)
(* the project and replaces each one that names a translator by what the  *)
(* translator builds.                                                      *)
(*                                                                         *)
(* model.atomicModels() is a std::map keyed by graph::Model*, so its order *)
(* is the order of the models' addresses.  An atomic model is an address   *)
(* in Addr; its entry is the name of its translator or NoTrl.  What       *)
(* NoVLE::callTranslator builds (NoVLE.cpp, not in this repository) is a   *)
(* choice: at most one new atomic model, at an address the allocator       *)
(* picks, with or without a translator of its own.                         *)
(***************************************************************************)
EXTENDS Naturals, FiniteSets

CONSTANTS
  Names,     \* translator names
  NoTrl,     \* the empty translator() of an atomic model
  NAddr      \* number of addresses models may have

ASSUME NoTrl \notin Names /\ NAddr \in Nat \ {0}

Addr == 1..NAddr
End  == NAddr + 1          \* model.atomicModels().end()

VARIABLES
  registry,  \* the names of the map NoVLEs
  atoms,     \* model.atomicModels(): [addresses present -> translator]
  phase,     \* "parse" (add/del), "fusion", "done" or "failed"
  it,        \* fusion's iterator: an address, or End
  orig,      \* history: models with a translator when fusion began
  plain,     \* history: models without a translator when fusion began
  made       \* history: addresses ever used by an atomic model

vars == <<registry, atoms, phase, it, orig, plain, made>>

\* The first key of the map after a, or End (std::map iterator increment).
After(a, keys) ==
  LET later == {k \in keys : k > a}
  IN IF later = {} THEN End ELSE CHOOSE k \in later : \A j \in later : k <= j

Init ==
  /\ registry = {}
  /\ \E keys \in SUBSET Addr, t \in [Addr -> Names \cup {NoTrl}] :
       atoms = [a \in keys |-> t[a]]
  /\ phase = "parse" /\ it = End /\ orig = {} /\ plain = {}
  /\ made = DOMAIN atoms

\* add(novle), lines 46-54: Assert that the name is new, then insert.
Add(n) ==
  /\ phase = "parse"
  /\ IF n \in registry
     THEN phase' = "failed" /\ UNCHANGED registry
     ELSE registry' = registry \cup {n} /\ UNCHANGED phase
  /\ UNCHANGED <<atoms, it, orig, plain, made>>

\* del(modelname), lines 56-62: erase the entry when there is one.
Del(n) ==
  /\ phase = "parse"
  /\ registry' = registry \ {n}
  /\ UNCHANGED <<atoms, phase, it, orig, plain, made>>

\* fusion(), line 70: the iterator starts at begin().
StartFusion ==
  /\ phase = "parse"
  /\ phase' = "fusion"
  /\ it' = After(0, DOMAIN atoms)
  /\ orig' = {a \in DOMAIN atoms : atoms[a] # NoTrl}
  /\ plain' = {a \in DOMAIN atoms : atoms[a] = NoTrl}
  /\ UNCHANGED <<registry, atoms, made>>

\* What callTranslator may add to model.atomicModels(): nothing, or one
\* model at an address no model had, with or without a translator.
Built == {<<>>} \cup {<<a, t>> : a \in Addr, t \in Names \cup {NoTrl}}

\* Fault variant: after the erase the loop also steps past the next model.
TranslateSkip(b) ==
  LET keys == IF b = <<>> THEN DOMAIN atoms ELSE DOMAIN atoms \cup {b[1]}
      next == After(it, keys)
  IN
  /\ b # <<>> => b[1] \notin made
  /\ atoms' = [a \in keys \ {it} |->
                 IF b # <<>> /\ a = b[1] THEN b[2] ELSE atoms[a]]
  /\ it' = IF next = End THEN End ELSE After(next, keys)
  /\ made' = made \cup (keys \ DOMAIN atoms)

\* Fault variant: the entry erased is the one the iterator has moved to.
TranslateEraseNext(b) ==
  LET keys == IF b = <<>> THEN DOMAIN atoms ELSE DOMAIN atoms \cup {b[1]}
      next == After(it, keys)
  IN
  /\ b # <<>> => b[1] \notin made
  /\ atoms' = [a \in keys \ {next} |->
                 IF b # <<>> /\ a = b[1] THEN b[2] ELSE atoms[a]]
  /\ it' = IF next = End THEN End ELSE After(next, keys)
  /\ made' = made \cup (keys \ DOMAIN atoms)

\* Lines 73-79: get(trl) (an Assert that the translator is registered),
\* callTranslator, then ++it past the new map and erase of the old entry.
Translate(b) ==
  LET keys == IF b = <<>> THEN DOMAIN atoms ELSE DOMAIN atoms \cup {b[1]}
  IN
  /\ b # <<>> => b[1] \notin made
  /\ atoms' = [a \in keys \ {it} |->
                 IF b # <<>> /\ a = b[1] THEN b[2] ELSE atoms[a]]
  /\ it' = After(it, keys)
  /\ made' = made \cup (keys \ DOMAIN atoms)

\* One turn of the while loop of fusion(), lines 71-83.
FusionStep ==
  /\ phase = "fusion" /\ it # End
  /\ \/ /\ atoms[it] = NoTrl
        /\ it' = After(it, DOMAIN atoms)
        /\ UNCHANGED <<atoms, phase, made>>
     \/ /\ atoms[it] \in registry
        /\ \E b \in Built : Translate(b)
        /\ UNCHANGED phase
     \/ /\ atoms[it] \in Names \ registry
        /\ phase' = "failed"
        /\ UNCHANGED <<atoms, it, made>>
  /\ UNCHANGED <<registry, orig, plain>>

\* The loop ends at end().
EndFusion ==
  /\ phase = "fusion" /\ it = End
  /\ phase' = "done"
  /\ UNCHANGED <<registry, atoms, it, orig, plain, made>>

Stopped == phase \in {"done", "failed"} /\ UNCHANGED vars

Next ==
  \/ \E n \in Names : Add(n) \/ Del(n)
  \/ StartFusion \/ FusionStep \/ EndFusion \/ Stopped

Spec == Init /\ [][Next]_vars

-----------------------------------------------------------------------------
\* Every atomic model that named a translator when fusion() began has been
\* translated and erased from the list when the loop ends, whatever the
\* translators insert into the map while it is walked.
OriginalsTranslated ==
  phase = "done" => orig \cap DOMAIN atoms = {}

\* fusion() erases only the models it translates: every atomic model that
\* named no translator when the loop began is still in the list, whatever
\* the translators insert and however the iterator steps past the erase.
PlainModelsKept ==
  phase \in {"fusion", "done"} => plain \subseteq DOMAIN atoms


====
