CONSTANTS
  Threads = {t1, t2, t3}
  Values = {a, b}
  NoValue = none
  MaxLen = 2
SPECIFICATION Spec
INVARIANTS
  TypeOK
  NoLostWakeup
PROPERTY FifoSpec
