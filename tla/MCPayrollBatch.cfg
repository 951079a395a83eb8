CONSTANTS
  Workers = {w1, w2}
  Txs = {t1, t2}
  NoTx = NoTx
  MaxCalls = 3
  MaxKey = 2
  Aborts = TRUE
SPECIFICATION Spec
SYMMETRY Symmetry
CHECK_DEADLOCK FALSE
PROPERTY HonestReconciliation
