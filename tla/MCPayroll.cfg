CONSTANTS
  Workers = {w1, w2}
  Txs = {t1}
  NoTx = NoTx
  MaxCalls = 5
  MaxKey = 3
  Aborts = TRUE
SPECIFICATION Spec
SYMMETRY HandlerSymmetry
CHECK_DEADLOCK FALSE
INVARIANTS TypeOK ProviderEvidence LedgerEvidence RetryNeedsRefusal SubmittedOnce
  OneOpenPayment
PROPERTIES ImplementsPromise StrandedByDeath
