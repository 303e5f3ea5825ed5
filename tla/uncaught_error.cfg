\* One debugger, commands one after the other.
SPECIFICATION Spec
CONSTANTS
  Threads = {t1}
  NoThread = NoThread
  Dangling = Dangling
  NoLanguage = NoLanguage
  Languages <- X86AndArm
  SpecFiles <- OneFile
  MaxDepth = 1
  MaxScans = 1
INVARIANT
  EveryErrorCaught
