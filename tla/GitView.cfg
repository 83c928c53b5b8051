SPECIFICATION FairSpec
CONSTANTS
  Domains <- AllDomains
  Background <- BackgroundDomains
  Kinds <- LogsRefsConfig
  Budgets <- Profiles
INVARIANTS
  TypeOK
  BindingFollowsWish
  FreshOrMarked
  CacheFollowsWatch
  DemandedIsScheduled
PROPERTIES
  CatchesUp
CHECK_DEADLOCK FALSE
