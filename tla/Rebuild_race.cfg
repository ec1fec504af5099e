SPECIFICATION Spec
CONSTANTS
  Users = {1}
  Written = {"user.created", "user.updated", "user.deleted", "profile.updated"}
  PageLimit = 1
  MaxIdm = 4
  MaxApp = 1
  MaxSkips = 0
  MaxRepeats = 0
  MaxRuns = 1
INVARIANTS ConvergesWithoutLoss
CHECK_DEADLOCK FALSE
