------------------------- MODULE MCTenantBilling -------------------------
(* Small instances of TenantBilling for TLC.                               *)
EXTENDS TenantBilling, TLC

CONSTANTS t1, t2, t3, c1, b1, d1

=============================================================================
