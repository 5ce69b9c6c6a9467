SPECIFICATION DSpec
CONSTANTS
  UEs = {u1}
  Tasks = {t1, t2}
  Uid <- OneUe
  Cells = {c1, c2}
  Sites <- SitePerCell
  SiteOf <- ItsOwnSite
  Links <- LinksOfSites
  SiteOfLink <- OwnSite
  FirstLink <- First
  Uus = {1, 2}
  AttachFlow <- ShortFlow
  TotalPrbs = 1
  Required = {1}
  NoCoverage = NoCoverage
  None = None
  MaxLosses = 1
SYMMETRY Symmetry
INVARIANTS DTypeOK NoLeak RepliesInStep NoGhostRow
