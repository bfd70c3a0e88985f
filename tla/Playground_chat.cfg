SPECIFICATION Spec
CONSTANTS
  MaxKeys = 2
  MaxIds = 2
  MaxOps = 2
  MaxMessages = 2
  MaxChanges = 1
  UserWaits = TRUE
  MAX_SESSIONS = 1
INVARIANTS RepliesTheirOwn StreamsAttended RestoredSettled HistoryAgrees RepliesAwaited
\* A user who has nothing more to ask, and a closed browser, do nothing.
CHECK_DEADLOCK FALSE
