CONSTANTS
  Waiters = {w1}
  Flags = {f1, f2}
  TimeOuts = {"NO_SUSPEND", "SUSPEND", "TIMED"}
  Users = {u1, u2, u3}
  MaxArg = 2
  Procs = {p1, p2}
  Capacity = 2
  Lens = {1, 2}
  MaxBytes = 3
  MaxFails = 1
SPECIFICATION MCSpec
SYMMETRY ProcSymmetry
INVARIANTS
  TypesOK
  NobodySleepsThrough
  UntimedIsReported
  SemNoLostWakeup
  ShmHoldsUnread
