\* Four sets and one definition; lists of at most two entries, three ids.
SPECIFICATION LegacySpec
CONSTANTS
  Folders = {1, 2, 3, 4}
  Definitions = {d1}
  Root = Root
  Gone = Gone
  NoDefinition = NoDefinition
  MaxMoves = 1
  Ids = {1, 2, 3}
  Contents <- SomeContents
  NoComment = 0
  Earlier <- SomeOrder
  MaxLength = 2
  MaxChanges = 1
INVARIANTS LegacyTypeOK MissedOnlyWhenDisturbed FolderIDIsHome FolderAskedOnce
           StateShowsService
PROPERTIES ApplyAsPlanned RefreshKeepsOrder
