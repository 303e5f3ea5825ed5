\* Two modules of two and three sections, reads of one and three
\* bytes; the target changes three times.
SPECIFICATION FairSpec
CONSTANTS
  m1 = m1
  m2 = m2
  Modules = {m1, m2}
  Sections <- TwoModules
  NoModule = NoModule
  Bases = {0, 1, 4}
  NotLoaded = NotLoaded
  FirstFlags <- VolatileRange
  MaxOffset = 6
  ReadSizes = {1, 3}
  MaxEvents = 3
INVARIANTS
  TypeOK
  RangesDisjoint
  MarkedWasUnwritable
  UnwritableIsMarked
  BufferDefined
  OneSnapshot
PROPERTIES
  VolatileKept
  Returns
