SPECIFICATION Spec
CONSTANTS
  Boards <- FiveBoards
  Created <- CreatedAt
  TieOrders <- TwoOrders
  Site <- SiteOf
  Url <- UrlOf
  Title <- TitleOf
  Tags <- TagsOf
  TextOfTitle <- TextOf
  Summary <- SummaryOf
  Today = {1, 2, 3, 4, 5}
  Scores = {5, 6}
  Bodies <- TwoBodies
  Starts <- TwoStarts
  PageSizes = {1, 2}
  Filters <- TwoSites
  Limit = 2
  MaxChanges = 2
  TopLimit = 3
  MaxHashtags = 4
  FixedHashtags <- ThreeFixed
INVARIANT PagesComplete
CHECK_DEADLOCK FALSE
