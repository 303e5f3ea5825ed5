\* One debugger whose commands nest; two .ldefs files, scanned up to twice.
SPECIFICATION Spec
CONSTANTS
  Threads = {t1}
  NoThread = NoThread
  Dangling = Dangling
  NoLanguage = NoLanguage
  Languages <- ThreeLanguages
  SpecFiles <- TwoFiles
  MaxDepth = 2
  MaxScans = 2
INVARIANTS
  MutexBalanced
  LoaderLives
