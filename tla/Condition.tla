------------------------------ MODULE Condition ------------------------------
(***************************************************************************)
(* vle::vpz::Condition (src/vle/vpz/Condition.cpp): a std::map from port   *)
(* names to a value::Set (a vector of values), with m_last_port, the port  *)
(* the SAX parser appends values to through lastAddedPort().  The map is   *)
(* a function over the ports present; a value is a model value.           *)
(* A failed Assert or Throw ends the operation and the parsing: "failed".  *)
(***************************************************************************)
EXTENDS Naturals, Sequences

CONSTANTS
  Ports,     \* port names
  Vals,      \* values
  NoPort,    \* m_last_port of a new Condition (the empty string)
  MaxLen     \* bound on the values of one port

ASSUME NoPort \notin Ports /\ MaxLen \in Nat \ {0}

VARIABLES
  cond,      \* the map: [present ports -> sequence of values]
  last,      \* m_last_port
  failed,    \* an Assert or Throw of the last call
  firsts     \* the ValueList the last firstValues() returned

vars == <<cond, last, failed, firsts>>

\* std::map::insert / erase on the function cond.
Insert(p, s) == [q \in DOMAIN cond \cup {p} |-> IF q = p THEN s ELSE cond[q]]
Erase(p)     == [q \in DOMAIN cond \ {p} |-> cond[q]]

Init ==
  /\ cond = <<>> /\ last = NoPort /\ failed = FALSE
  /\ firsts = <<>>

\* add(portname), lines 87-94: a new port gets an empty set; the port
\* becomes m_last_port whether it was new or not.
Add(p) ==
  /\ cond' = IF p \in DOMAIN cond THEN cond ELSE Insert(p, <<>>)
  /\ last' = p
  /\ UNCHANGED <<failed, firsts>>

\* del(portname), lines 96-99: erase; m_last_port is left as it was.
Del(p) ==
  /\ cond' = Erase(p)
  /\ UNCHANGED <<last, failed, firsts>>

\* addValueToPort(portname, value), lines 101-116: a new port is created
\* with the value and becomes m_last_port; an existing one gets the value
\* appended and m_last_port is left as it was.
AddValueToPort(p, v) ==
  /\ p \in DOMAIN cond => Len(cond[p]) < MaxLen
  /\ IF p \notin DOMAIN cond
     THEN /\ cond' = Insert(p, <<v>>)
          /\ last' = p
     ELSE /\ cond' = [cond EXCEPT ![p] = Append(@, v)]
          /\ UNCHANGED last
  /\ UNCHANGED <<failed, firsts>>

\* Fault variant: lastAddedPort() without its Assert, so the value goes to
\* find(m_last_port) whether or not that port exists.
AddToLastPortUnchecked(v) ==
  /\ last \in DOMAIN cond => Len(cond[last]) < MaxLen
  /\ cond' = Insert(last, IF last \in DOMAIN cond THEN Append(cond[last], v) ELSE <<v>>)
  /\ UNCHANGED <<last, failed, firsts>>

\* lastAddedPort(), lines 157-166, then addValue on the set it returns, as
\* the parser does for each value of a port: the Assert fails when
\* m_last_port is not a port of the map.
AddToLastPort(v) ==
  \/ /\ last \in DOMAIN cond /\ Len(cond[last]) < MaxLen
     /\ cond' = [cond EXCEPT ![last] = Append(@, v)]
     /\ UNCHANGED <<last, failed, firsts>>
  \/ /\ last \notin DOMAIN cond
     /\ failed' = TRUE
     /\ UNCHANGED <<cond, last, firsts>>

\* firstValues(), lines 118-133: the first value of each port; a port with
\* an empty set throws SaxParserError.
FirstValues ==
  \/ /\ \A p \in DOMAIN cond : cond[p] # <<>>
     /\ firsts' = [p \in DOMAIN cond |-> Head(cond[p])]
     /\ UNCHANGED <<cond, last, failed>>
  \/ /\ \E p \in DOMAIN cond : cond[p] = <<>>
     /\ failed' = TRUE
     /\ UNCHANGED <<cond, last, firsts>>

\* rebuildValueSet(), lines 168-173: every port gets a new empty set.
RebuildValueSet ==
  /\ cond' = [p \in DOMAIN cond |-> <<>>]
  /\ UNCHANGED <<last, failed, firsts>>

\* getSetValues(portname), lines 135-144, which firstValue and nValue
\* (lines 146-155) read through: its Assert fails on a port the map does
\* not have.  A read that succeeds changes nothing.
GetSetValues(p) ==
  /\ p \notin DOMAIN cond
  /\ failed' = TRUE
  /\ UNCHANGED <<cond, last, firsts>>

\* ValueList::get(name), lines 35-53, on the list firstValues() returned:
\* it throws on a name the list does not have.
ValueListGet(p) ==
  /\ p \notin DOMAIN firsts
  /\ failed' = TRUE
  /\ UNCHANGED <<cond, last, firsts>>

\* The exception ends the parsing of the project.
Failed == failed /\ UNCHANGED vars

Next ==
  \/ /\ ~failed
     /\ \/ \E p \in Ports : Add(p) \/ Del(p)
        \/ \E p \in Ports, v \in Vals : AddValueToPort(p, v)
        \/ \E v \in Vals : AddToLastPort(v)
        \/ FirstValues
        \/ RebuildValueSet
        \/ \E p \in Ports : GetSetValues(p) \/ ValueListGet(p)
  \/ Failed

Spec == Init /\ [][Next]_vars

-----------------------------------------------------------------------------
TypeOK ==
  /\ DOMAIN cond \subseteq Ports
  /\ \A p \in DOMAIN cond : cond[p] \in Seq(Vals) /\ Len(cond[p]) <= MaxLen
  /\ last \in Ports \cup {NoPort} /\ failed \in BOOLEAN
  /\ DOMAIN firsts \subseteq Ports

====
