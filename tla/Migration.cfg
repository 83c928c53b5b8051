SPECIFICATION FairSpec
CONSTANT Namespaces = {n1, n2}
INVARIANTS
  TypeOK
  ServedIsSettled
  ServedIsComplete
  RecoversVerified
PROPERTIES
  AcknowledgedIsFinal
  OldKeptUntilVerified
  ImplementsStore
  OpensInTheEnd
