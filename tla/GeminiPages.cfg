SPECIFICATION FairSpec
CONSTANTS
  MaxSegs = 3
  Refs <- SomeRefs
  Urls <- AllUrls
  Start <- Here
  Pages <- SomePages
  Answers = {"typed"}
  MaxLinks = 2
  MaxHops = 2
  MaxMoves = 2
INVARIANTS TypeOK TableOfPage ResolvesRight
PROPERTIES FollowsShown PromptReturns
