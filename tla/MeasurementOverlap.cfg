CONSTANTS
  Proc = {p1, p2}
  Engine = {e1, e2}
  Token = {t1, t2}
  NoToken = NoToken
  NoEngine = NoEngine
  NoJournal = NoJournal
  MaxFaults = 0
  Alone = FALSE
SPECIFICATION Spec
PROPERTY UncertainKeepsJournal
CHECK_DEADLOCK FALSE
