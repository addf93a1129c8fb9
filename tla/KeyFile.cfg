SPECIFICATION Spec
SYMMETRY Symmetry
CONSTANTS
  c1 = c1
  c2 = c2
  k1 = k1
  k2 = k2
  k3 = k3
  env = env
  Command <- MCCommand
  Argument = {"a", " a", "b", " "}
  Trim <- MCTrim
  Key <- MCKey
  StaticKey = {env}
  Faults = TRUE
INVARIANTS
  NamesAreUnique
  UndisturbedLedger
PROPERTIES
  StartsWithLedger
CHECK_DEADLOCK FALSE
