SPECIFICATION FairSpec
CONSTANTS
  Workers = {w1}
  Drainers = {}
  Callers = {}
  Admins = {}
  JobIds = {j1, j2, j3}
  Keys = {}
  Lives = {s1}
  Chains = {t1}
  Plains = {}
  MaxAttempts = 2
  Killers = {s1}
  Faults = {}
  NoJob = NoJob
  NoWorker = NoWorker
  NoKey = NoKey
  NoScope = NoScope
INVARIANT ChainAlive
INVARIANT NoLiveDuplicates
PROPERTY ChainKeepsTicking
PROPERTY EveryJobSettles
