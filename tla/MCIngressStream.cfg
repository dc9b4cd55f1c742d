SPECIFICATION StreamSpec
CONSTANTS
  NULL = NULL
  Receivers = {r1}
  Fds = {f1}
  Datagrams <- MCDatagrams
  Errnos = {"EIO"}
  QueueLimit = 2
  MaxSequence = 4
  MaxSent = 4
INVARIANT
  EventsAreNumbered
PROPERTY
  DatagramsAreTaken
