CONSTANTS
  acme = acme
  globex = globex
  rehearsal = rehearsal
  Tenants = {acme, globex}
  Listings <- AcmeAlone
  Submissions = {rehearsal}
  Count <- OneRow
  OfApi = {}
  MaxJobs = 2
  ListLimit = 0
  Page = 1
  Faults = FALSE
  IndexLags = FALSE
SPECIFICATION DemoSpec
INVARIANT ResetTypeOK
PROPERTIES ExitZeroIsClean ResetGetsThere DeletedStaysDeleted
