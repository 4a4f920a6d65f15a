CONSTANTS
  MaxCalls = 3
  Lens <- MCLens
  Nil = Nil
INIT Init
NEXT Next
\* the calls are bounded by MaxCalls: the request stops there
CHECK_DEADLOCK FALSE
INVARIANTS
  DefaultsOnce
  NoOrphanFilter
