CONSTANTS
  Req = {1, 2}
  Kinds <- SomeKinds
  ActualQuotas = {0, 3}
  Reserves = {3}
  Fees = {1}
  WalletInit = 4
  TokenInit = 4
  TokenUnlimited = FALSE
  SubTotal = 3
  TrustQuota = 3
  RetryTimes = 1
  MaxFaults = 1
SPECIFICATION FairSpec
INVARIANTS TypeOK BooksBalance PaysExactly WalletConserved NeverOverRefunded SettledOrRefunded
PROPERTIES SettledIsFinal Completes
