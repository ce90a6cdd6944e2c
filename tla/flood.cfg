CONSTANTS
  flood = flood
  session = session
  Tenants = {acme, globex}
  Submissions = {flood, session}
  Count <- FloodOfTwo
  OfApi = {flood}
  MaxJobs = 3
  ListLimit = 2
  Faults = TRUE
  IndexLags = TRUE
SPECIFICATION Spec
INVARIANTS WaitingIsCounted FloodIsUniform FloodIsListed AckMeansStarted
