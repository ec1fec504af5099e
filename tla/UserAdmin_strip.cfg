SPECIFICATION Spec
CONSTANTS
  root = root
  mid = mid
  joe = joe
  Users <- MCUsers
  Roles <- MCRoles
  Closed <- MCClosed
  Perms <- MCPerms
  Grants <- MCGrants
  RolesAtStart <- MCRolesAtStart
  Assignable <- MCAssignable
  Requests = {r1, r2}
  Clients = {root, mid}
  MaxAccepted = 3
SYMMETRY HandlerSymmetry
PROPERTY NoSilentStrip
CHECK_DEADLOCK FALSE
