CONSTANTS
  Proc = {p1, p2}
  Engine = {e1, e2}
  Token = {t1}
  NoProc = NoProc
  NoEngine = NoEngine
  NoToken = NoToken
  NoJournal = NoJournal
  t1 = t1
  e1 = e1
  TakenNames <- MCTakenNames
  MaxFaults = 3
  LateAfterExit = FALSE
SPECIFICATION Spec
SYMMETRY Symmetry
INVARIANTS NoOrphan CleanVerdict
PROPERTIES ForeignUntouched
