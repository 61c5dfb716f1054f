SPECIFICATION Spec
CONSTANTS
  Workers = {w1, w2}
  Drainers = {w2}
  Callers = {c1}
  Admins = {a1}
  JobIds = {j1}
  Keys = {k1}
  Lives = {}
  Chains = {}
  Plains = {}
  MaxAttempts = 2
  Killers = {k1}
  Faults = {"redeploy", "stall", "dberror"}
  NoJob = NoJob
  NoWorker = NoWorker
  NoKey = NoKey
  NoScope = NoScope
INVARIANT PoisonBounded
