SPECIFICATION Spec
CONSTANTS
  Runs = {1, 2, 3}
  ApplyConfigs = {"x", "y"}
  DeployConfigs <- TwoPlaces
  Events = {"crash", "fail", "due", "revoke", "editApply", "editDeploy", "delete"}
  MaxCerts = 3
  MaxEvents = 4
\* The runs are bounded, so the system stops.
CHECK_DEADLOCK FALSE
INVARIANTS CertificateFitsConfig PassedIsDeployed
PROPERTIES RequestsAreNeeded
