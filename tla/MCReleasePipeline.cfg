SPECIFICATION Spec
CONSTANTS
  Packages = {"core", "plugin"}
  Needs <- MCNeeds
  NoPackage = "none"
  RequiredJobs = {"quality", "workers"}
  MaxCommit = 2
  MaxAttempt = 2
  Dispatches <- MCDispatches
INVARIANT GreenMeansReleased
PROPERTY PublishesAsApproved
