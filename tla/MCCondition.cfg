\* Two ports, two values, at most two values per port.
CONSTANTS
  p1 = p1  p2 = p2  v1 = v1  v2 = v2  none = none
  Ports = {p1, p2}
  Vals = {v1, v2}
  NoPort = none
  MaxLen = 2
SPECIFICATION Spec
INVARIANT TypeOK

