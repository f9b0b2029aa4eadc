SPECIFICATION BSpec
CONSTANTS
  kernel = kernel
  t1 = t1
  t2 = t2
  Threads <- AllThreads
  Kernel <- kernel
  None = None
  MaxMillis = 3
  Joiners <- OnlyWorkers
  Faulty <- OnlyWorkers
SYMMETRY WorkerSymmetry
INVARIANTS OnCPU HeapExclusion FindTerminates JoinSound BoundedWait
PROPERTIES NeverUnlinked NoWastedSlice RunsAlone
