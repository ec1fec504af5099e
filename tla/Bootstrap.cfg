SPECIFICATION FairSpec
CONSTANTS
  new = new
  old = old
  admin = admin
  Perms <- MCPerms
  Implies <- MCImplies
  Processes = {new, old}
  Plan <- MCPlan
  Known <- MCKnown
  DefaultRows <- MCDefaultRows
  RoleNames <- MCRoleNames
  Accounts = {admin}
  Declared <- MCDeclared
  Assignable <- MCAssignable
  MaxEdits = 1
  MaxRestarts = 1
INVARIANTS PolicyCurrent AllImpliesOwn AccountsComplete
PROPERTIES SeedingTakesNoRole ProfilesKept EventuallyServes
CHECK_DEADLOCK FALSE
