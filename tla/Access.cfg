SPECIFICATION Spec
CONSTANTS
  root = root
  ops = ops
  desk = desk
  kim = kim
  acme = acme
  birch = birch
  Tenants = {acme, birch}
  Users = {root, ops, desk, kim}
  Nowhere = Nowhere
  RoleOf <- MCRoleOf
  TenantOf <- MCTenantOf
  c1 = c1
  Clients = {c1}
  MaxTrail = 1
  MaxAmiss = 1
INVARIANTS
  EveryRouteOpens
  RolesApart
  AnswersStayHome
