CONSTANTS
  Workers = {w1}
  Txs = {t1}
  NoTx = NoTx
  MaxCalls = 5
  MaxKey = 3
  Aborts = FALSE
SPECIFICATION Spec
CHECK_DEADLOCK FALSE
INVARIANT PaidAtMostOnce
