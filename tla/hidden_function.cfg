\* A table that does not change; function entries of one byte.
SPECIFICATION Spec
CONSTANTS
  MaxOffset = 2
  EntrySize = 1
  CodeSpace = "ram"
  Spaces = {"ram", "register"}
  Nothing = Nothing
  Names = {"counter", "run"}
  SymbolTables <- OneTable
  Sizes = {1, 3}
  Globals = {0, 1, 2}
INVARIANT
  SmallestContainer
