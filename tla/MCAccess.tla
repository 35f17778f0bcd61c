------------------------------ MODULE MCAccess ------------------------------
EXTENDS Access, TLC

CONSTANTS c1, root, ops, desk, kim, acme, birch

MCRoleOf ==
  (root :> "SUPER_ADMIN") @@ (ops :> "ADMIN") @@ (desk :> "SUPPORT_STAFF")
    @@ (kim :> "CUSTOMER")
MCTenantOf ==
  (root :> Nowhere) @@ (ops :> Nowhere) @@ (desk :> Nowhere) @@ (kim :> acme)
=============================================================================
