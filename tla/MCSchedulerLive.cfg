SPECIFICATION FairSpec
CONSTANTS
  kernel = kernel
  t1 = t1
  t2 = t2
  Threads <- AllThreads
  Kernel <- kernel
  None = None
  MaxMillis = 1
  Joiners = {t1}
  Faulty <- AllThreads
CHECK_DEADLOCK FALSE
PROPERTIES RunsAloneFairly
