CONSTANTS
  Proc = {p1, p2}
  Engine = {e1}
  Token = {t1, t2}
  NoProc = NoProc
  NoEngine = NoEngine
  NoToken = NoToken
  NoJournal = NoJournal
  t1 = t1
  e1 = e1
  TakenNames <- MCTakenNames
  MaxFaults = 2
  LateAfterExit = FALSE
SPECIFICATION Spec
SYMMETRY Symmetry
INVARIANTS TypeOK NoOrphan CleanVerdict ObservedIsSettled PendingMeansUnpublished
PROPERTIES PublishedOnEvidence LedgerSpec
