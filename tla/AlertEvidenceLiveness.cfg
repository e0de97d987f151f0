SPECIFICATION FairSpec
CONSTANTS
  t1 = t1
  t2 = t2
  x1 = x1
  x2 = x2
  Tasks = {t1, t2}
  Targets = {x1, x2}
  Inventories <- MCAnalyses
  Items = {}
  Workers = {w1, w2}
  Reliable = {w1}
  Poison = {x1}
  Limit = 1
  NoResult = NoResult
  NoSummary = NoSummary
PROPERTIES
  EvidenceSettles
  SummaryIsMade
