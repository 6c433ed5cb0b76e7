CONSTANTS
  Waiters = {w1}
  Flags = {f1, f2}
  TimeOuts = {"NO_SUSPEND", "SUSPEND", "TIMED"}
SPECIFICATION Spec
INVARIANT ConsumedIsReported
