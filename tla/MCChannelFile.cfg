SPECIFICATION FairSpec
CONSTANTS
  Write = {w1, w2}
  Old = {old}
  Principal = {author, operator}
  Operator = {operator}
  Process = {p1, p2}
  None = None
INVARIANTS NothingForgotten HistoryAccountsForRevisions AuditIsTrue
PROPERTIES WritesAreAtomic EveryWriteIsAnswered
