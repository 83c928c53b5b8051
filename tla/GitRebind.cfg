SPECIFICATION Spec
CONSTANTS
  Domains <- AllDomains
  Background <- BackgroundDomains
  Kinds <- LogsRefsConfig
  Budgets <- Rebind
INVARIANTS
  NoNewsIgnored
CHECK_DEADLOCK FALSE
