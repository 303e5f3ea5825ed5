\* The target loads and unloads modules; function entries of two bytes, as
\* the four of AArch64.
SPECIFICATION CommandSpec
CONSTANTS
  MaxOffset = 9
  EntrySize = 2
  CodeSpace = "ram"
  Spaces = {"ram", "register"}
  Nothing = Nothing
  Names <- MCNames
  SymbolTables <- MCTables
  Sizes = {1, 3}
  Globals = {0, 1, 2, 3}
  Arguments <- MCArguments
  NoArgument = NoArgument
  Invalid = 10
  Images <- MCImages
  Extent <- MCExtent
  Symbols <- MCSymbols
  Matches <- MCMatches
  Lists <- MCLists
  NoImage = NoImage
  TripleArchs <- MCTripleArchs
  Asked = {0, 1, 2}
  MaxSymbols = 4
INVARIANTS
  TypeOK
  OneFunctionPerAddress
PROPERTIES
  ImplementsLookup
  NoGlobalOnFunction
  DecompilesWhatWasAsked
  LoadedModuleFound
CHECK_DEADLOCK FALSE
