CONSTANTS
  Task = {t1}
  Platforms = {"gemini", "video"}
  Poller = {p1, p2}
  Client = {c1}
  Quotas = {2}
  UnsettledQuotas = {}
  ActualQuotas = {0, 3}
  PerCalls = {FALSE}
  ChannelLoss = TRUE
  MaxFaults = 1
  MaxCrashes = 1
SPECIFICATION FairSpec
INVARIANTS PaidByOutcome FailedTasksRefunded
PROPERTIES TerminalIsFinal TimedOutEnds
