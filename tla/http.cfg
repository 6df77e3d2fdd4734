\* A site with three filters; two clients of one connection object.
SPECIFICATION FairSpec
CONSTANTS
  Filters <- SiteFilters
  Routers <- SiteRouters
  Files <- SiteFiles
  Shrinking <- SiteShrinking
  Requests <- SiteRequests
  Paths <- SitePaths
  Fresh <- FreshFields
  Chop <- SiteChop
  MaxRequests = 2
  MaxConns = 2
INVARIANTS MatchIsLast InTurn BodyAsAnnounced NotForgotten HeadRight FormRight
PROPERTIES Answered
CHECK_DEADLOCK FALSE
