---------------------------- MODULE PackageTable ----------------------------
(***************************************************************************)
(* vle::utils::PackageTable (src/vle/utils/PackageTable.cpp): a set of     *)
(* package names with a "current" entry.  An index is a std::set iterator: *)
(* it designates one insertion of a name and dies when that element is     *)
(* erased.  An index is modelled as <<name, generation>>, the generation   *)
(* counting the insertions of the name.                                    *)
(***************************************************************************)
EXTENDS Naturals

CONSTANTS
  Packages,   \* package names
  Default,    \* std::string(), the entry the constructor inserts
  MaxGen      \* bound on the insertions of one name

ASSUME Default \in Packages /\ MaxGen \in Nat \ {0}

VARIABLES
  table,      \* m_table: the names in the set
  gen,        \* generation of the last insertion of each name
  current,    \* m_current
  held        \* indices returned by get() and kept by callers

vars == <<table, gen, current, held>>

Index == Packages \X (1..MaxGen)

\* An iterator is valid while the element it designates was not erased.
Valid(i) == i[1] \in table /\ gen[i[1]] = i[2]

\* std::set::insert(p): the element's index and whether it was inserted;
\* a name already in the set keeps its element.
Inserted(p) == p \notin table
IndexOf(p)  == <<p, IF Inserted(p) THEN gen[p] + 1 ELSE gen[p]>>

DoInsert(p) ==
  /\ table' = table \cup {p}
  /\ gen' = IF Inserted(p) THEN [gen EXCEPT ![p] = @ + 1] ELSE gen

\* PackageTable(): m_current = m_table.insert(std::string()).first
Init ==
  /\ table = {Default}
  /\ gen = [p \in Packages |-> IF p = Default THEN 1 ELSE 0]
  /\ current = <<Default, 1>>
  /\ held = {}

\* current(package): insert; m_current moves only when the name was new.
Current(p) ==
  /\ Inserted(p) => gen[p] < MaxGen
  /\ DoInsert(p)
  /\ current' = IF Inserted(p) THEN IndexOf(p) ELSE current
  /\ UNCHANGED held

\* Fault variant: get() as m_table.find(package), which returns end() (an
\* index of generation 0 here) for an absent name.
GetFind(p) ==
  /\ Inserted(p) => gen[p] < MaxGen
  /\ held' = held \cup {<<p, gen[p]>>}
  /\ UNCHANGED <<table, gen, current>>

\* get(package): insert and return the element's index to the caller.
Get(p) ==
  /\ Inserted(p) => gen[p] < MaxGen
  /\ DoInsert(p)
  /\ held' = held \cup {IndexOf(p)}
  /\ UNCHANGED current

\* remove(index): refuse the current entry (ArgError), else erase it.  The
\* caller passes an index it holds; callers keep their copies, and erasing
\* through an erased one is undefined behaviour of std::set::erase, so the
\* model passes only valid indices.
Remove(i) ==
  /\ Valid(i)
  /\ current # i
  /\ table' = table \ {i[1]}
  /\ UNCHANGED <<gen, current, held>>

Next ==
  \/ \E p \in Packages : Current(p) \/ Get(p)
  \/ \E i \in held : Remove(i)

Spec == Init /\ [][Next]_vars

-----------------------------------------------------------------------------
TypeOK ==
  /\ table \subseteq Packages
  /\ gen \in [Packages -> 0..MaxGen]
  /\ current \in Index /\ held \subseteq Index
  /\ \A p \in table : gen[p] > 0

====
