SPECIFICATION Spec
CONSTANTS
  Tokens = {k1, k2, k3}
  NoTokens = NoTokens
  MaxQueuedStatusMessages = 2
INVARIANTS TypeOK RejectedTokensNotResent OldDataOnlyInFirstRefresh RestartAdviceExcludesData QueueHoldsAllItCan
PROPERTIES ImplementsFeed HookRecovers HookLetsGo
