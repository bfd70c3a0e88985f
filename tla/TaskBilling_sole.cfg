CONSTANTS
  Task = {t1, t2}
  Platforms = {"suno"}
  Poller = {p1}
  Client = {}
  Quotas = {2}
  UnsettledQuotas = {}
  ActualQuotas = {0}
  PerCalls = {FALSE}
  ChannelLoss = TRUE
  MaxFaults = 1
  MaxCrashes = 1
SPECIFICATION Spec
INVARIANT RefundsByFaults
