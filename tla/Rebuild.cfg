SPECIFICATION Spec
CONSTANTS
  Users = {1, 2}
  Written = {"user.created", "user.updated", "user.deleted", "profile.updated"}
  PageLimit = 1
  MaxIdm = 3
  MaxApp = 1
  MaxSkips = 1
  MaxRepeats = 1
  MaxRuns = 1
INVARIANTS TypeOK WatermarkHonest RebuildHeals PagesComplete
CHECK_DEADLOCK FALSE
