CONSTANTS
  Proc = {p1, p2}
  Engine = {e1, e2}
  Token = {t1, t2, t3}
  NoToken = NoToken
  NoEngine = NoEngine
  NoJournal = NoJournal
  MaxFaults = 2
  Alone = TRUE
SPECIFICATION FairSpec
INVARIANTS NoOrphan
PROPERTIES EvidenceLast JournalResolved
CHECK_DEADLOCK FALSE
