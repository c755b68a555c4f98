\* A bufferized variable with a window of one or two steps of one or two
\* time units, pushed with two values at the times 0..6.
CONSTANTS
  v1 = v1  v2 = v2  none = none
  Vals = {v1, v2}
  SizeSet = {1, 2}
  DelaySet = {1, 2}
  MaxT = 6
  NoValue = none
SPECIFICATION Spec
INVARIANT DelayedValueAtPush
