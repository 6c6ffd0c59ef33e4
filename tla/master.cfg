\* three workers: two can die behind the same pending signal while the third
\* still runs
CONSTANTS
  WorkerProcesses = 3
SPECIFICATION FairMasterSpec
INVARIANT ZombieNoticed
PROPERTY EveryDeadWorkerReaped
