CONSTANTS
  Proc = {p1, p2}
  Engine = {e1, e2}
  Token = {t1, t2}
  NoToken = NoToken
  NoEngine = NoEngine
  NoJournal = NoJournal
  MaxFaults = 1
  Alone = TRUE
SPECIFICATION FairSpec
PROPERTY EveryJournalResolved
CHECK_DEADLOCK FALSE
