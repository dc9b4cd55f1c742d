SPECIFICATION Spec
CONSTANTS
  QueueCapacity = 3
  MaxRoom = 4
  NoEvent = NoEvent
  Event = {e1, e2}
INVARIANTS
  TypeOK
  
  RetainedAreReal
PROPERTY
  ImplementsChannel
