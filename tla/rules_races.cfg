SPECIFICATION FairSpec
CONSTANTS
  s1 = s1  s2 = s2  p1 = p1  p2 = p2  f = f  Nil = Nil
  SessRule = {s1, s2}
  PermRule = {p1}
  Flow = {f}
  Covers <- MCCovers
  Timeout = 1
  MinRefresh = 0
  MaxRules = 3
  Number = {0}
  Junk <- MCJunkAny
INVARIANTS TypeOK SessionFirst MatchedWasLive ScanReadsRules FirstMatchWhenStable
PROPERTIES LookupAnswered
CHECK_DEADLOCK FALSE
