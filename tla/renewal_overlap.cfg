SPECIFICATION Spec
CONSTANTS
  Runs = {1, 2, 3}
  ApplyConfigs = {"x", "y"}
  DeployConfigs <- OneSite
  Events = {"cancel", "fail", "editApply", "cleanup", "crash"}
  MaxCerts = 3
  MaxEvents = 4
\* The runs are bounded, so the system stops.
CHECK_DEADLOCK FALSE
INVARIANTS RenewalInv OutputsLeadToCertificates
