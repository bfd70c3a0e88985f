CONSTANTS
  Task = {t1}
  Platforms = {"gemini"}
  Poller = {p1}
  Client = {c1}
  Quotas = {2}
  UnsettledQuotas = {}
  ActualQuotas = {0}
  PerCalls = {FALSE}
  ChannelLoss = FALSE
  MaxFaults = 0
  MaxCrashes = 0
SPECIFICATION Spec
INVARIANT NoDoubleRefund
