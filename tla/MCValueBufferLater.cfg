\* getValue read after the last push, with and without a "size" event.
CONSTANTS
  v1 = v1  v2 = v2  none = none
  Vals = {v1, v2}
  SizeSet <- MCBothSizes
  DelaySet = {1}
  MaxT = 4
  NoValue = none
SPECIFICATION Spec
INVARIANT DelayedValueIsValueAt
