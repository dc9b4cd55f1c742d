SPECIFICATION FairSpec
CONSTANTS
  NULL = NULL
  Receivers = {r1, r2}
  Fds = {f1, f2}
  Datagrams <- MCDatagrams
  Errnos = {"EIO", "EACCES"}
  QueueLimit = 1
  MaxSequence = 1
INVARIANTS
  TypeOK
  DescriptorsAreOwned
  ResultTellsTheTruth
PROPERTY
  StopIsObeyed
