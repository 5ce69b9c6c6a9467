SPECIFICATION DFairSpec
CONSTANTS
  UEs = {u1}
  Tasks = {t1}
  Uid <- OneUe
  Cells = {c1, c2}
  Sites = {s1}
  SiteOf <- OneSite
  Links <- LinksOfSites
  SiteOfLink <- OwnSite
  FirstLink <- First
  Uus = {1, 2}
  AttachFlow <- ShortestFlow
  TotalPrbs = 1
  Required = {1}
  NoCoverage = NoCoverage
  None = None
  MaxLosses = 1
INVARIANTS NoLeak RepliesInStep NoGhostRow
PROPERTIES NothingHangs AbandonedIsReclaimed InStepInTheEnd
