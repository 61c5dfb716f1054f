SPECIFICATION Spec
CONSTANTS
  Workers = {w1, w2}
  Drainers = {}
  Callers = {c1}
  Admins = {a1, a2}
  JobIds = {j1, j2}
  Keys = {k1}
  Lives = {}
  Chains = {}
  Plains = {p1}
  MaxAttempts = 2
  Killers = {k1}
  Faults = {"redeploy"}
  NoJob = NoJob
  NoWorker = NoWorker
  NoKey = NoKey
  NoScope = NoScope
SYMMETRY Symmetry
INVARIANT TypeOK
INVARIANT SoleRunner
INVARIANT DeadLetterEarned
PROPERTY CompletedIsFinal
PROPERTY AttemptsNeverRefunded
PROPERTY RefinesWorkQueue
