CONSTANTS
  Tenants = {acme, globex}
  Agents = {invoice, triage}
  Versions = {1, 2}
  Operators = {o1}
  OtherRows = 2
  ScanPage = 8
  FreshReads = TRUE
SPECIFICATION Spec
PROPERTY UpdateKeepsInstalls
