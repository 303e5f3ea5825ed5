\* Reads of up to three bytes; the process changes its state four times.
SPECIFICATION Spec
CONSTANTS
  m1 = m1
  m2 = m2
  Modules = {}
  Sections <- NoModules
  NoModule = NoModule
  Bases = {0}
  NotLoaded = NotLoaded
  FirstFlags <- NoFlags
  MaxOffset = 0
  ReadSizes = {1, 2, 3}
  MaxEvents = 4
INVARIANT
  UnavailableReported
