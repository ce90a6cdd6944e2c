CONSTANTS
  Tenants = {acme, globex}
  Agents = {invoice, triage}
  Versions = {v1, v2}
  Operators = {o1, o2}
  OtherRows = 2
  ScanPage = 6
  FreshReads = FALSE
SPECIFICATION Spec
SYMMETRY RegistrySymmetry
INVARIANTS NoBrokenInstall RowsSayWhatWasAsked OnlyWhatWasInstalled
