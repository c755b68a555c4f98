\* An integrator with three external variables, one of them without gradient.
CONSTANTS
  x = x  y = y  z = z  self = self
  Vars = {x, y, z}
  Self = self
  GradVars = {x, z}
  Active = TRUE
  Dependance = TRUE
  Buffered = TRUE
  SigmaSet = {"zero", "finite", "inf"}
SPECIFICATION Spec
INVARIANT TypeOK
