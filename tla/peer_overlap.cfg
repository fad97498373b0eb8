SPECIFICATION Spec
CONSTANTS
  Tasks = {t1, t2, t3, t4}
  MaxExchanges = 3
  MaxQuestions = 3
INVARIANT OneExchangePending
CHECK_DEADLOCK FALSE
