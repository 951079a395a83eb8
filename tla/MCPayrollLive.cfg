CONSTANTS
  Workers = {w1, w2}
  Txs = {t1}
  NoTx = NoTx
  MaxCalls = 4
  MaxKey = 3
  Aborts = FALSE
SPECIFICATION FairSpec
CHECK_DEADLOCK FALSE
PROPERTY SuccessIsPosted
