SPECIFICATION Spec
CONSTANTS
  Workers = {w1, w2}
  Steps = 1
  Asks = {1}
  Questions = 1
  Length = 1
  Second = 2
  Presses <- MCPresses
  AppKinds <- MCAppKinds
  MayDie = TRUE
  MaxLog = 3
  MaxAsks = 1
  MaxApp = 1
  MaxTime = 2
SYMMETRY MCSymmetry
INVARIANTS NeverWrong SomebodyComes ThreadHeard
PROPERTIES QuestionKept
CHECK_DEADLOCK FALSE
