SPECIFICATION FairSpec
CONSTANTS
  MaxAttach = 2
  MaxChunks = 3
  Ring = 2
  Window = 1
  Slack = 1
  Nobody = Nobody
INVARIANTS
  TypeOK
  MountedIsSubscriber
  NoSilentLoss
  NeverBackwards
  NoOverflow
PROPERTIES
  EndIsFinal
  ImplementsFeed
  OutputIsShown
  EndIsShown
  ReaderIsFree
CHECK_DEADLOCK FALSE
