CONSTANTS
  Producers = {p1}
  Consumers = {c1, c2}
  Switching = {p1, c1}
  NumBuf = 5
SPECIFICATION FairSpec
INVARIANTS
  TypeOK
  EachBufferOnce
  PutNeverWaits
PROPERTY BuffersCirculate
