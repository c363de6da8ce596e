SPECIFICATION Spec
CONSTANTS
  Activations = {a}
  MaxStarts = 2
CHECK_DEADLOCK FALSE
INVARIANTS
  HealthIsFresh
