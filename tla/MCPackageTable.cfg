CONSTANTS
  none = none  p1 = p1  p2 = p2
  Packages = {none, p1, p2}
  Default = none
  MaxGen = 2
SPECIFICATION Spec
INVARIANT TypeOK
