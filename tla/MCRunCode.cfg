SPECIFICATION MCSpec
CONSTANTS
  c1 = c1
  c2 = c2
  c3 = c3
  Calls = {c1, c2, c3}
  Requests <- OfEachKind
  Bindings <- Names
  Kind <- Bound
  MaxContexts = 2
  Unset = Unset
  NoCall = NoCall
SYMMETRY Symmetry
CHECK_DEADLOCK FALSE
INVARIANTS
  ToldIsTrue
  ErrorsKeepTheirIdentity
  OneDefaultContext
  EnvIsConfirmed
  NobodyIsStuck
