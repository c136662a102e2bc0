\* The thresholds scaled down; three memories of every length around them.
SPECIFICATION Spec
CONSTANTS
  MemoryLimit = 20
  UserLimit = 8
  Frame = 6
  Overhead = 2
  MinRemaining = 8
  MinText = 4
  Marker = 3
  Lengths <- MCLengths
  TokenBudgets = {2, 9, 12, 30}
  NoBudget = NoBudget
  Authority = 6
  Sections = {7, 14, 25}
  MaxItems = 3
INVARIANTS BudgetInv WithinBudget WellFilled BestIsShown
\* The computation ends.
CHECK_DEADLOCK FALSE
