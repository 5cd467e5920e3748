SPECIFICATION FairCrawlSpec
CONSTANTS
  loop = loop
  panel = panel
  Loop = loop
  Panel = panel
  Last = 3
  Replies = {2}
  Others = {2}
  Lead = 1
  Cap = 2
  Page = 2
  Batch = 2
  ContextBatch = 5
  ContextFrom = 1
  Neighbours = 1
  Newest = 1
  Radius = 1
  Stride = 2
  TroubleLimit = 1
INVARIANTS
  CrawlTypeOK
  CrawledIsQueued
PROPERTIES
  CrawlerOpensNoHole
  CatchesUp
CHECK_DEADLOCK FALSE
