------------------------------ MODULE ValueBuffer ------------------------------
(***************************************************************************)
(* The delayed-value buffer of vle::extension::DifferentialEquation        *)
(* (src/vle/extension/DifferentialEquation.cpp): a std::deque of          *)
(* (time, value) pairs, the newest at the front, filled by pushValue and   *)
(* read by getValue(now, delay), the value of the variable delay steps    *)
(* ago.  With a "size" init event the deque keeps a window of            *)
(* mSize * mDelay time units; without one (mSize = -1) it keeps all.       *)
(*                                                                         *)
(* Times are integers; a value is a model value.  pushValue is called by  *)
(* init() and by the integrator's updateValue (not in this repository),   *)
(* at strictly increasing times.  pushExternalValue and                    *)
(* getValue(name, now, delay) run the same code on the buffer of each     *)
(* external variable.                                                      *)
(***************************************************************************)
EXTENDS Integers, Sequences, SequencesExt

CONSTANTS
  Vals,      \* values of the variable
  SizeSet,   \* mSize as the init events may set it (-1: no "size" event)
  DelaySet,  \* mDelay as the init events may set it
  MaxT,      \* last time at which the variable is pushed or read
  NoValue    \* what dereferencing the end of the deque yields

ASSUME NoValue \notin Vals /\ MaxT \in Nat

VARIABLES
  size,      \* mSize
  delay,     \* mDelay
  buf,       \* mValueBuffer: <<time, value>> pairs, Head is front()
  now,       \* time of the last pushValue
  hist       \* history: every push, in order

vars == <<size, delay, buf, now, hist>>

\* The constructor, lines 79-95: "size" must be positive (Assert), and is
\* -1 when absent.
Configured(s) == s = -1 \/ s > 0

\* init(time), lines 256-260: mStartTime is time and the initial value is
\* pushed.  The start time is 0.
Start == 0

Init ==
  /\ size \in {s \in SizeSet : Configured(s)} /\ delay \in DelaySet
  /\ \E v \in Vals : buf = <<<<Start, v>>>> /\ hist = <<<<Start, v>>>>
  /\ now = Start

\* Fault variant: the trimming loop without the push_back of line 209.
RECURSIVE TrimBackNoRestore(_, _, _)
TrimBackNoRestore(s, last, removed) ==
  IF Last(s)[1] < last THEN TrimBackNoRestore(Front(s), last, Last(s)) ELSE s

\* The trimming loop of pushValue, lines 199-209: pop from the back while
\* its time is before last, then push back the last entry popped.
RECURSIVE TrimBack(_, _, _)
TrimBack(s, last, removed) ==
  IF Last(s)[1] < last
  THEN TrimBack(Front(s), last, Last(s))
  ELSE IF removed = <<>> THEN s ELSE Append(s, removed)

\* pushValue(now, value), lines 191-211, with mBuffer set.
PushValue(t, v) ==
  LET full == <<<<t, v>>>> \o buf IN
  buf' = IF size < 0 \/ t - Start < size * delay
         THEN full
         ELSE TrimBack(full, t - size * delay, <<>>)

Push(t, v) ==
  /\ t > now
  /\ PushValue(t, v)
  /\ now' = t /\ hist' = Append(hist, <<t, v>>)
  /\ UNCHANGED <<size, delay>>

Done == now = MaxT /\ UNCHANGED vars

Next == (\E t \in (now + 1)..MaxT, v \in Vals : Push(t, v)) \/ Done

Spec == Init /\ [][Next]_vars

-----------------------------------------------------------------------------
\* The loop of lines 114-121: from the back (the oldest entry) towards the
\* front while the entry is before time.  Running off the front
\* dereferences rend(): undefined, any value or none.
RECURSIVE FromBack(_, _, _)
FromBack(i, time, value) ==
  IF i = 0 THEN Vals \cup {NoValue}
  ELSE IF buf[i][1] < time THEN FromBack(i - 1, time, buf[i][2])
  ELSE IF buf[i][1] = time THEN {buf[i][2]} ELSE {value}

\* The loop of lines 129-136: from the front (the newest entry) towards the
\* back while the entry is after time.
RECURSIVE FromFront(_, _, _)
FromFront(i, time, value) ==
  IF i > Len(buf) THEN Vals \cup {NoValue}
  ELSE IF buf[i][1] > time THEN FromFront(i + 1, time, buf[i][2])
  ELSE IF buf[i][1] = time THEN {buf[i][2]} ELSE {value}

\* The time getValue(q, -d) looks up: d steps of mDelay with a size, d time
\* units without one (lines 113 and 128).
Target(q, d) == IF size > 0 THEN q - d * delay ELSE q - d

\* getValue(q, -d), lines 98-140, for 0 < d (the Assert of line 101 bounds
\* d by mSize): the set of values it may return.
GetValue(q, d) ==
  IF size > 0
  THEN IF q - Start < d * delay THEN {Last(buf)[2]}
       ELSE FromBack(Len(buf), Target(q, d), Last(buf)[2])
  ELSE IF q - Start < d THEN {Last(buf)[2]}
       ELSE FromFront(1, Target(q, d), buf[1][2])

\* The delays the Assert of line 101 lets through.
Delays == IF size > 0 THEN 1..size ELSE 1..MaxT

-----------------------------------------------------------------------------
\* Reference: the value of the variable at time u, the last value pushed at
\* or before u (the initial value before the start).
ValueAt(u) ==
  LET before == SelectSeq(hist, LAMBDA e : e[1] <= u) IN
  IF before = <<>> THEN hist[1][2] ELSE Last(before)[2]

\* pushValue's trimming keeps what getValue needs: a delayed value read at
\* the time of the last push, as the integrator's compute does right after
\* updateValue, is the value the variable had at that earlier time.
DelayedValueAtPush ==
  \A d \in Delays : GetValue(now, d) = {ValueAt(Target(now, d))}

\* getValue(q, delay) read at any time q not before the last push (by
\* compute in an external transition, or by output between two steps)
\* returns the value the variable had delay before q.
DelayedValueIsValueAt ==
  \A q \in now..MaxT, d \in Delays : GetValue(q, d) = {ValueAt(Target(q, d))}

====
