SPECIFICATION Spec
CONSTANTS
  Sector = 2
  MaxFiles = 2
  MaxEntries = 2
  Gather = 4
  Images <- MCImages
  NoImage = NoImage
  ReplyMax = 4
  Header = 2
  LineSize = 3
  InfoSize = 4
  Capacities = {1, 2, 3, 5}
INVARIANTS ReadExact EofWhole ListComplete CatalogueTrue
CHECK_DEADLOCK FALSE
