\* Two debuggers in one process, commands do not nest.
SPECIFICATION FairSpec
CONSTANTS
  Threads = {t1, t2}
  NoThread = NoThread
  Dangling = Dangling
  NoLanguage = NoLanguage
  Languages <- X86AndArm
  SpecFiles <- OneFile
  MaxDepth = 1
  MaxScans = 1
INVARIANTS
  TypeOK
  TranslatorServesRunner
  DecodesTargetLanguage
PROPERTIES
  DescriptionAppendOnly
  EntryPointReturns
