SPECIFICATION MCSpec
CONSTANTS
  r1 = r1
  r2 = r2
  i1 = i1
  i2 = i2
  allow = allow
  block = block
  opaque = opaque
  Absent = Absent
  NoId = NoId
  NoActor = NoActor
  Actors <- TwoResources
  Ids <- TwoIds
  Bodies <- ThreeBodies
  Unreadable <- OpaqueUnreadable
  UrlOf <- SameUrl
VIEW View
SYMMETRY ResourceSymmetry
INVARIANTS
  NoSilentOrphan
  DeletesOnlyItsOwn
  DriftDetected
PROPERTY
  ImplementsStateContract
