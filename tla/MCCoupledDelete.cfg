CONSTANTS
  Models = {1, 2, 3, 4, 5, 6, 7}
  Atomic = {3, 5, 6, 7}
  Up <- MCUp
  Top = 1
  Target = 2
  End = End
SPECIFICATION Spec
INVARIANT CoupledDeletionComplete
