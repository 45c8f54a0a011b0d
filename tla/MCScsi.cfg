SPECIFICATION FairSpec
CONSTANTS
  SectorSize = 2
  ImageSize = 5
  Short = 3
  Long = 4
  WholeCount = 4
  SenseSize = 2
  GeometrySize = 2
  ModeSize = 1
  Track = 1
  Word = 6
  Operations <- Requests
  Sectors = {0, 3}
  Counts = {0, 2, 3}
  Sidecars = {"none", "short"}
  MaxCommands = 2
INVARIANTS
  ReadExact
  WriteExact
  StatusTrue
PROPERTIES
  IrqLatched
  CommandEnds
