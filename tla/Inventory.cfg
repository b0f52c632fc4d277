SPECIFICATION MCSpec
CONSTANTS
  a1 = a1
  a2 = a2
  i1 = i1
  i2 = i2
  allow = allow
  block = block
  Absent = Absent
  NoId = NoId
  NoActor = NoActor
  Actors <- TwoActors
  Ids <- TwoIds
  Bodies <- TwoBodies
  UrlOf <- SameUrl
INVARIANTS
  SnapshotCurrent
  ListsReflectAcknowledged
PROPERTY
  InventoryCallsReturn
