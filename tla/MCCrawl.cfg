SPECIFICATION FairSpec
CONSTANTS
  home = home  blog = blog  news = news  shop = shop  tags = tags  post = post
  Urls <- MCUrls
  Seed = home
  Links <- MCLinks
  Body <- MCBody
  Sitemap <- MCSitemap
  FollowLinks = TRUE
  MaxDepth = 2
  MaxPages = 1
  Concurrency = 2
  CapFactor = 3
  BudgetKeys = {"*", "/n"}
  Limits <- MCLimits
  Prefix <- MCPrefix
INVARIANTS
  NothingLost ExhaustedMeansDone NoDoubleFetch LinkBudgetHolds DeliveryAccounting
PROPERTIES
  KeepsPromise CrawlEnds
