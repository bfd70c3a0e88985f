SPECIFICATION FairSpec
CONSTANT
  Message = {m1, m2, m3, m4}
INVARIANTS CountedOnce ReportedSettled
PROPERTY SessionEnds
\* A session ends.
CHECK_DEADLOCK FALSE
